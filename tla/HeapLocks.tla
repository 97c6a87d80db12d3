---- MODULE HeapLocks ----
(***************************************************************************)
(* The locking of the physical-page paths of                              *)
(* src/kernel/arch/x86_64/memory/pmm.c                                     *)
(* (pmm_alloc_page, pmm_free_page, and the buddy calls of kmalloc and      *)
(* kfree) over the buddy free lists of buddy_allocator.c, on several       *)
(* cores.                                                                  *)
(*                                                                         *)
(* Allocation is serialised by kmalloc_lock, freeing by kfree_lock; the    *)
(* two locks are different, so an allocation on one core and a free on     *)
(* another run their list code at the same time.  The list is the order-0 *)
(* free list of an arena whose frames do not merge (max_arena_order 0),   *)
(* kept as it is in memory: a head pointer and a next link stored in each  *)
(* free frame.  Each C statement that reads or writes the list head is one *)
(* step.                                                                   *)
(***************************************************************************)
EXTENDS Naturals, Sequences, FiniteSets

CONSTANTS
  Cores,       \* the CPUs
  FrameIds,    \* physical frames of the arena
  InitList,    \* the order-0 free list after populate, head first
  Null

ASSUME InitList \in Seq(FrameIds) /\ Len(InitList) = Cardinality(FrameIds)

VARIABLES
  head,        \* arena->free_list[0]
  nxt,         \* the free_block.next link kept inside each frame
  kmalloc_lock, kfree_lock,   \* holder core or Null
  pc,          \* per core: "idle", "alloc" (read head), "free" (linked next)
  blk,         \* per core: the block local of the C function
  owned        \* per core: frames it got from the allocator and holds

vars == <<head, nxt, kmalloc_lock, kfree_lock, pc, blk, owned>>

Init ==
  /\ head = InitList[1]
  /\ nxt = [f \in FrameIds |->
             LET i == CHOOSE j \in 1 .. Len(InitList) : InitList[j] = f
             IN IF i = Len(InitList) THEN Null ELSE InitList[i + 1]]
  /\ kmalloc_lock = Null
  /\ kfree_lock = Null
  /\ pc = [c \in Cores |-> "idle"]
  /\ blk = [c \in Cores |-> Null]
  /\ owned = [c \in Cores |-> {}]

----
(* spinlock_lock: xchg 1 into the lock until it returns 0, spinning on a *)
(* plain read in between.  The spinning reads change nothing, so taking  *)
(* the lock is the one xchg that finds it free; l holds the core id.     *)
SpinlockLock(l, c) == l = Null /\ l' = c

(* spinlock_unlock: a barrier, then the lock word is set to 0. *)
SpinlockUnlock(l) == l' = Null

(* spinlock_lock_intsave / _unlock_intrestore: the same, with the core's *)
(* interrupts off in between, so no handler on this core interleaves.    *)
SpinlockLockIntsave(l, c) == SpinlockLock(l, c)
SpinlockUnlockIntrestore(l) == SpinlockUnlock(l)

(* pmm_alloc_page: spinlock_lock_intsave(&kmalloc_lock); buddy_alloc_page *)
(* reads the list head ...                                                 *)
pmm_alloc_page_read(c) ==
  /\ pc[c] = "idle"
  /\ kmalloc_lock = Null
  /\ IF head = Null
     THEN UNCHANGED <<kmalloc_lock, pc, blk>>          \* returns 0, unlocks
     ELSE /\ SpinlockLockIntsave(kmalloc_lock, c)
          /\ blk' = [blk EXCEPT ![c] = head]
          /\ pc' = [pc EXCEPT ![c] = "alloc"]
  /\ UNCHANGED <<head, nxt, kfree_lock, owned>>

(* ... then free_list[0] = block->next, unlocks and returns the block.    *)
pmm_alloc_page_unlink(c) ==
  /\ pc[c] = "alloc"
  /\ head' = nxt[blk[c]]
  /\ SpinlockUnlockIntrestore(kmalloc_lock)
  /\ owned' = [owned EXCEPT ![c] = @ \cup {blk[c]}]
  /\ pc' = [pc EXCEPT ![c] = "idle"]
  /\ blk' = [blk EXCEPT ![c] = Null]
  /\ UNCHANGED <<nxt, kfree_lock>>

(* pmm_free_page(phys): spinlock_lock_intsave(&kfree_lock); the arena is  *)
(* found and, with no buddy to merge, block->next = free_list[0] ...      *)
pmm_free_page_link(c, f) ==
  /\ pc[c] = "idle"
  /\ f \in owned[c]
  /\ SpinlockLockIntsave(kfree_lock, c)
  /\ nxt' = [nxt EXCEPT ![f] = head]
  /\ owned' = [owned EXCEPT ![c] = @ \ {f}]
  /\ blk' = [blk EXCEPT ![c] = f]
  /\ pc' = [pc EXCEPT ![c] = "free"]
  /\ UNCHANGED <<head, kmalloc_lock>>

(* ... then free_list[0] = block and the lock is released.                *)
pmm_free_page_publish(c) ==
  /\ pc[c] = "free"
  /\ head' = blk[c]
  /\ SpinlockUnlockIntrestore(kfree_lock)
  /\ pc' = [pc EXCEPT ![c] = "idle"]
  /\ blk' = [blk EXCEPT ![c] = Null]
  /\ UNCHANGED <<nxt, kmalloc_lock, owned>>

Next ==
  \E c \in Cores :
    \/ pmm_alloc_page_read(c)
    \/ pmm_alloc_page_unlink(c)
    \/ \E f \in FrameIds : pmm_free_page_link(c, f)
    \/ pmm_free_page_publish(c)

Spec == Init /\ [][Next]_vars

----
RECURSIVE ListFrom(_, _)
ListFrom(f, n) == IF f = Null \/ n = 0 THEN {} ELSE {f} \cup ListFrom(nxt[f], n - 1)

(* Frames on the free list, following next links from the head. *)
FreeFrames == ListFrom(head, Cardinality(FrameIds))

TypeOK ==
  /\ head \in FrameIds \cup {Null}
  /\ nxt \in [FrameIds -> FrameIds \cup {Null}]
  /\ kmalloc_lock \in Cores \cup {Null} /\ kfree_lock \in Cores \cup {Null}
  /\ pc \in [Cores -> {"idle", "alloc", "free"}]
  /\ owned \in [Cores -> SUBSET FrameIds]

(* No frame is held by two cores, or held by a core while still on the   *)
(* free list: what the heap locks are for (spec 5: buddy arenas are      *)
(* serialised by being called only through the heap locks).              *)
NoDoubleAllocation ==
  /\ \A c, d \in Cores : c # d => owned[c] \cap owned[d] = {}
  /\ \A c \in Cores : owned[c] \cap FreeFrames = {}

=============================================================================
