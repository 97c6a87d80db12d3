---- MODULE MemMgr ----
(***************************************************************************)
(* The memory descriptor of src/kernel/kernel/memmgr/memmgr.c over the    *)
(* page tables of module Vmm: mm_alloc and mm_free create and destroy the  *)
(* task's address space, mm_setup_executable places brk at the heap      *)
(* start, and the two fault-time growers map memory into it:              *)
(* mm_expand_heap maps a buddy chunk of GrowPages pages at brk,           *)
(* mm_expand_stack maps one frame from pmm_alloc_page at the faulting     *)
(* page.  The stack frame comes from the same allocator as the page       *)
(* tables (TablePool); the frames it takes are held outside the tables,  *)
(* as Vmm's others.  Heap chunks are order HEAP_GROW_ORDER buddy blocks,  *)
(* identified by their first physical page.                               *)
(*                                                                         *)
(* The region list is left out: nothing in memmgr.c that changes state    *)
(* reads it (mm_check_access is reached only with mm = NULL).  One task's *)
(* descriptor exists at a time; it exists exactly while pml4 does.        *)
(* Every Vmm operation stays a step of its own: kernel code calls them     *)
(* directly too.                                                           *)
(***************************************************************************)
EXTENDS Vmm

CONSTANTS
  HeapStart,    \* page of heap_start: data_end rounded up to a page
  GrowPages,    \* HEAP_GROW_SIZE in pages
  HeapChunks,   \* order HEAP_GROW_ORDER blocks the buddy can give the heap
  MaxBrk,       \* bound: brk never grows past the user half
  MaxEnvFrames  \* bound: frames the rest of the kernel holds at once

VARIABLES
  brk,          \* mm->brk, in pages
  chunks,       \* heap chunks free in the buddy
  stack         \* frames mm_expand_stack took (part of Vmm's others)

mmvars == <<brk, chunks, stack>>
allvars == <<vars, mmvars>>

MMInit ==
  /\ Init
  /\ brk = 0
  /\ chunks = HeapChunks
  /\ stack = {}

----
(* mm_alloc: kmalloc the descriptor, vmm_create_address_space; NULL when *)
(* that fails (the descriptor is not freed); brk = 0.                    *)
mm_alloc ==
  /\ vmm_create_address_space
  /\ brk' = 0
  /\ UNCHANGED <<chunks, stack>>

(* mm_free: vmm_destroy_address_space, kfree the regions and the         *)
(* descriptor.  The pages mapped into the task are not returned.         *)
mm_free ==
  /\ vmm_destroy_address_space
  /\ UNCHANGED mmvars

(* mm_setup_executable: mm->brk = heap_start (the regions are omitted). *)
mm_setup_executable ==
  /\ pml4 # NotPresent
  /\ brk' = HeapStart
  /\ UNCHANGED <<vars, chunks, stack>>

(* mm->brk = grow_start + HEAP_GROW_SIZE, whatever vmm_map_range returned. *)
GrowBrk(b, ok) == b + GrowPages

(* mm_expand_heap(mm, fault): a fault below brk returns 0; else take a   *)
(* chunk from buddy_alloc_pages (0 on failure: return -1), vmm_map_range  *)
(* it at grow_start = brk, give it back with buddy_free_pages if that     *)
(* failed, and advance brk.                                                *)
mm_expand_heap(fault) ==
  /\ pml4 # NotPresent /\ fault \in UserPages
  /\ IF fault < brk \/ chunks = {}
     THEN UNCHANGED allvars
     ELSE LET c == CHOOSE x \in chunks : \A y \in chunks : x <= y
              r == MapLoop(Mem, pml4, brk, brk, brk + GrowPages, c)
          IN /\ brk + GrowPages <= MaxBrk
             /\ SetMem(r.m)
             /\ mapped' = IF r.ok THEN Record(brk, GrowPages, c) ELSE mapped
             /\ chunks' = IF r.ok THEN chunks \ {c} ELSE chunks
             /\ brk' = GrowBrk(brk, r.ok)
             /\ UNCHANGED stack
  /\ UNCHANGED pml4

(* mm_expand_stack(mm, fault): pmm_alloc_page (0: return -1), then        *)
(* vmm_map_page at the fault page; its result is returned and the frame  *)
(* is kept whether or not the map succeeded.                               *)
mm_expand_stack(fault) ==
  /\ pml4 # NotPresent /\ fault \in UserPages
  /\ IF pool = {}
     THEN UNCHANGED allvars
     ELSE LET f == CHOOSE x \in pool : \A y \in pool : x <= y
              r == MapPage([Mem EXCEPT !.pool = @ \ {f}], pml4, fault, f)
          IN /\ pt' = r.m.pt /\ pool' = r.m.pool /\ total' = r.m.total
             /\ others' = others \cup {f}
             /\ stack' = stack \cup {f}
             /\ mapped' = IF r.ok THEN Record(fault, 1, f) ELSE mapped
             /\ UNCHANGED <<brk, chunks>>
  /\ UNCHANGED pml4

MMNext ==
  \/ mm_alloc
  \/ mm_free
  \/ mm_setup_executable
  \/ \E v \in UserPages : mm_expand_heap(v) \/ mm_expand_stack(v)
  \/ \E vs \in UserPages, n \in 1 .. MaxRange, p \in Phys :
       (vmm_map_range(vs, n, p) \/ vmm_unmap_range(vs, n)) /\ UNCHANGED mmvars
  \/ \E v \in UserPages, p \in Phys : vmm_map_page(v, p) /\ UNCHANGED mmvars
  \/ other_alloc /\ Cardinality(others \ stack) < MaxEnvFrames /\ UNCHANGED mmvars
  \/ \E f \in TablePool \ stack : other_free(f) /\ UNCHANGED mmvars

MMSpec == MMInit /\ [][MMNext]_allvars

====
