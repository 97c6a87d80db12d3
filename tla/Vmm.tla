---- MODULE Vmm ----
(***************************************************************************)
(* Page tables and one user address space of                              *)
(* src/kernel/arch/x86_64/memory/vmm.c.                                    *)
(*                                                                         *)
(* The four levels PML4 -> PDP -> PD -> PT are kept; a table has Fan      *)
(* entries instead of 512 and a virtual page number v has one index per   *)
(* level (PML4_INDEX .. PT_INDEX).  The lower half of the PML4 is the     *)
(* user half, the upper half is copied from the kernel's PML4.  A table   *)
(* is a frame number; an entry is NotPresent or the frame it points to    *)
(* (a table, or at the last level the mapped physical page).  The frames  *)
(* pmm_alloc_page can hand out for tables are TablePool; it returns 0     *)
(* when they are all in use.  Pages are counted in page units: a range    *)
(* is [vstart, vstart + n), what vmm_page_align_down/up make of it.       *)
(***************************************************************************)
EXTENDS Integers, FiniteSets

CONSTANTS
  Fan,            \* entries per table (512)
  TablePool,      \* frames pmm_alloc_page can give vmm_alloc_page_table
  KernelPml4,     \* kernel_as->pml4
  KernelPdp,      \* the table the kernel's upper-half PML4 entries point to
  MaxRange,       \* bound: pages per map or unmap request
  MaxOthers,      \* bound: frames the rest of the kernel holds at once
  Phys            \* physical page numbers the callers map

NotPresent == -1
Levels == 4
Idx == 0 .. Fan - 1
VPages == 0 .. Fan^Levels - 1
UserPages == {v \in VPages : (v \div Fan^(Levels - 1)) < Fan \div 2}
Tables == TablePool \cup {KernelPml4, KernelPdp}
EmptyTable == [i \in Idx |-> NotPresent]
NoEntry == <<>>      \* vmm_walk_page_table returned NULL

(* PML4_INDEX, PDP_INDEX, PD_INDEX, PT_INDEX for levels 0 .. 3. *)
Index(v, level) == (v \div Fan^(Levels - 1 - level)) % Fan

VARIABLES
  pt,       \* contents of every table frame
  pool,     \* table frames free in the physical allocator
  pml4,     \* as->pml4, NotPresent while there is no address space
  total,    \* as->total_pages
  mapped,   \* history: what the successful calls so far have mapped
  others    \* table-pool frames the rest of the kernel holds from pmm_alloc_page

vars == <<pt, pool, pml4, total, mapped, others>>

Init ==
  /\ pt = [t \in Tables |->
             IF t = KernelPml4
             THEN [i \in Idx |-> IF i >= Fan \div 2 THEN KernelPdp ELSE NotPresent]
             ELSE EmptyTable]
  /\ pool = TablePool
  /\ pml4 = NotPresent
  /\ total = 0
  /\ mapped = [v \in UserPages |-> NotPresent]
  /\ others = {}

----
(* The memory the operations change: table contents, the free pool and  *)
(* total_pages, as one record so that the loops can thread it.           *)
Mem == [pt |-> pt, pool |-> pool, total |-> total]

(* vmm_alloc_page_table: pmm_alloc_page and memset to zero. *)
AllocTable(m) ==
  LET f == CHOOSE x \in m.pool : \A y \in m.pool : x <= y IN
  [f |-> f, m |-> [m EXCEPT !.pool = @ \ {f}, !.pt[f] = EmptyTable]]

(* vmm_walk_page_table(as, v, create) from table t at level: the table   *)
(* and index of the PT entry, or NotPresent.  With create a missing      *)
(* table is allocated and linked (PRESENT|WRITABLE|USER); a failed       *)
(* allocation returns NULL and keeps the tables made so far.             *)
RECURSIVE Walk(_, _, _, _, _)
Walk(m, t, v, level, create) ==
  LET e == m.pt[t][Index(v, level)] IN
  IF level = Levels - 1 THEN [m |-> m, at |-> <<t, Index(v, level)>>]
  ELSE IF e # NotPresent THEN Walk(m, e, v, level + 1, create)
  ELSE IF ~create \/ m.pool = {} THEN [m |-> m, at |-> NoEntry]
  ELSE LET a == AllocTable(m)
           m2 == [a.m EXCEPT !.pt[t][Index(v, level)] = a.f]
       IN Walk(m2, a.f, v, level + 1, create)

(* Mutant: total_pages is counted before the PRESENT check. *)
MapPageCountsEarly(m, root, v, p) ==
  LET w == Walk(m, root, v, 0, TRUE)
      m1 == [w.m EXCEPT !.total = @ + 1]
  IN IF w.at = NoEntry THEN [m |-> w.m, ok |-> FALSE]
     ELSE IF w.m.pt[w.at[1]][w.at[2]] # NotPresent THEN [m |-> m1, ok |-> FALSE]
     ELSE [m |-> [m1 EXCEPT !.pt[w.at[1]][w.at[2]] = p], ok |-> TRUE]

(* _vmm_map_page_no_flush: walk with create; fail on NULL or a PRESENT  *)
(* entry; write the entry and count the page.                            *)
MapPage(m, root, v, p) ==
  LET w == Walk(m, root, v, 0, TRUE) IN
  IF w.at = NoEntry THEN [m |-> w.m, ok |-> FALSE]
  ELSE IF w.m.pt[w.at[1]][w.at[2]] # NotPresent THEN [m |-> w.m, ok |-> FALSE]
  ELSE [m |-> [w.m EXCEPT !.pt[w.at[1]][w.at[2]] = p, !.total = @ + 1], ok |-> TRUE]

(* Mutant: the entry is cleared and counted down even when not present. *)
UnmapPageNoCheck(m, root, v) ==
  LET w == Walk(m, root, v, 0, FALSE) IN
  IF w.at = NoEntry THEN m
  ELSE [m EXCEPT !.pt[w.at[1]][w.at[2]] = NotPresent, !.total = @ - 1]

(* _vmm_unmap_page_no_flush: walk without create; nothing to do when the *)
(* page is not mapped; else zero the entry and count the page down.     *)
UnmapPage(m, root, v) ==
  LET w == Walk(m, root, v, 0, FALSE) IN
  IF w.at = NoEntry THEN m
  ELSE IF m.pt[w.at[1]][w.at[2]] = NotPresent THEN m
  ELSE [m EXCEPT !.pt[w.at[1]][w.at[2]] = NotPresent, !.total = @ - 1]

(* vmm_unmap_range over pages [vs, vs + n); size 0 returns -1. *)
RECURSIVE UnmapRange(_, _, _, _)
UnmapRange(m, root, vs, n) ==
  IF n = 0 THEN m ELSE UnmapRange(UnmapPage(m, root, vs), root, vs + 1, n - 1)

(* Mutant: the rollback also unmaps the page whose mapping failed. *)
RECURSIVE MapLoopRollbackOneMore(_, _, _, _, _, _)
MapLoopRollbackOneMore(m, root, vs, v, vend, p) ==
  IF v >= vend THEN [m |-> m, ok |-> TRUE]
  ELSE LET r == MapPage(m, root, v, p) IN
       IF ~r.ok THEN [m |-> UnmapRange(r.m, root, vs, v - vs + 1), ok |-> FALSE]
       ELSE MapLoopRollbackOneMore(r.m, root, vs, v + 1, vend, p + 1)

(* The loop of vmm_map_range: map page by page; on a failure unmap the  *)
(* pages [vstart, v) mapped so far and return -1.                        *)
RECURSIVE MapLoop(_, _, _, _, _, _)
MapLoop(m, root, vs, v, vend, p) ==
  IF v >= vend THEN [m |-> m, ok |-> TRUE]
  ELSE LET r == MapPage(m, root, v, p) IN
       IF ~r.ok THEN [m |-> UnmapRange(r.m, root, vs, v - vs), ok |-> FALSE]
       ELSE MapLoop(r.m, root, vs, v + 1, vend, p + 1)

SetMem(m) == pt' = m.pt /\ pool' = m.pool /\ total' = m.total /\ UNCHANGED others

(* Translation of v through the tables from root (vmm_virt_to_phys). *)
RECURSIVE Lookup(_, _, _)
Lookup(t, v, level) ==
  LET e == pt[t][Index(v, level)] IN
  IF level = Levels - 1 \/ e = NotPresent THEN e ELSE Lookup(e, v, level + 1)

----
(* Destruction: free_pd_table, free_pdp_table, vmm_destroy_address_space. *)
(* The frames each returns to pmm_free_page.                              *)
Present(t) == {i \in Idx : pt[t][i] # NotPresent}

(* Mutant: free_pd_table frees the PTs but not the PD itself. *)
PdFramesNoSelf(pd) == {pt[pd][i] : i \in Present(pd)}

PdFrames(pd) == {pt[pd][i] : i \in Present(pd)} \cup {pd}

PdpFrames(pdp) == UNION {PdFrames(pt[pdp][i]) : i \in Present(pdp)} \cup {pdp}

(* for i in 0 .. 255 with PRESENT: free_pdp_table; then the PML4. *)
DestroyFrames(root) ==
  UNION {PdpFrames(pt[root][i]) : i \in Present(root) \cap 0 .. (Fan \div 2 - 1)}
    \cup {root}

----
(* Mutant: the NULL check on the new PML4 is dropped and the address    *)
(* space is returned with pml4 = NULL.                                   *)
NoPml4Kept == 0

(* as->pml4 == NULL: kfree(as), return NULL; no address space. *)
NoPml4 == NotPresent

(* Mutant: the copy loop starts at 257. *)
KernelEntriesOffByOne == {i \in Idx : i > Fan \div 2}

(* for (i = 256; i < 512; i++): the upper half of the PML4. *)
KernelEntries == {i \in Idx : i >= Fan \div 2}

(* vmm_create_address_space: kmalloc the addr_space (zeroed), take a PML4 *)
(* from vmm_alloc_page_table (on failure kfree it and return NULL), copy *)
(* entries 256..511 from the kernel PML4.                                 *)
vmm_create_address_space ==
  /\ pml4 = NotPresent
  /\ IF pool = {} THEN pml4' = NoPml4 /\ UNCHANGED <<pt, pool, total>>
     ELSE LET a == AllocTable(Mem) IN
          /\ pt' = [a.m.pt EXCEPT ![a.f] =
                      [i \in Idx |-> IF i \in KernelEntries THEN pt[KernelPml4][i]
                                     ELSE NotPresent]]
          /\ pool' = a.m.pool
          /\ pml4' = a.f
          /\ total' = 0
  /\ UNCHANGED <<mapped, others>>

(* The request a successful map of [vs, vs + n) to p.. records. *)
Record(vs, n, p) ==
  [v \in UserPages |-> IF vs <= v /\ v < vs + n THEN p + (v - vs) ELSE mapped[v]]

Range(vs, n) == vs \in UserPages /\ vs + n - 1 \in UserPages

(* vmm_map_range(as, vs, p, n pages): the page loop with rollback, then  *)
(* the full TLB flush.                                                    *)
vmm_map_range(vs, n, p) ==
  /\ pml4 # NotPresent /\ Range(vs, n)
  /\ LET r == MapLoop(Mem, pml4, vs, vs, vs + n, p) IN
     /\ SetMem(r.m)
     /\ mapped' = IF r.ok THEN Record(vs, n, p) ELSE mapped
  /\ UNCHANGED pml4

(* vmm_map_page(as, v, p): one page, no rollback, invlpg. *)
vmm_map_page(v, p) ==
  /\ pml4 # NotPresent /\ v \in UserPages
  /\ LET r == MapPage(Mem, pml4, v, p) IN
     /\ SetMem(r.m)
     /\ mapped' = IF r.ok THEN Record(v, 1, p) ELSE mapped
  /\ UNCHANGED pml4

(* vmm_unmap_range(as, vs, n pages) and vmm_unmap_page (n = 1). *)
vmm_unmap_range(vs, n) ==
  /\ pml4 # NotPresent /\ Range(vs, n)
  /\ SetMem(UnmapRange(Mem, pml4, vs, n))
  /\ mapped' = [v \in UserPages |-> IF vs <= v /\ v < vs + n THEN NotPresent
                                    ELSE mapped[v]]
  /\ UNCHANGED pml4

(* vmm_destroy_address_space(as): free the lower-half tables and the     *)
(* PML4 (their contents stay in memory), kfree the addr_space.           *)
vmm_destroy_address_space ==
  /\ pml4 # NotPresent
  /\ pool' = pool \cup DestroyFrames(pml4)
  /\ pml4' = NotPresent
  /\ total' = 0
  /\ mapped' = [v \in UserPages |-> NotPresent]
  /\ UNCHANGED <<pt, others>>

(* The rest of the kernel takes a frame with pmm_alloc_page (lowest      *)
(* first, as the buddy hands them out) or gives one back.                *)
other_alloc ==
  /\ pool # {} /\ Cardinality(others) < MaxOthers
  /\ LET f == CHOOSE x \in pool : \A y \in pool : x <= y IN
     /\ pool' = pool \ {f}
     /\ others' = others \cup {f}
  /\ UNCHANGED <<pt, pml4, total, mapped>>

other_free(f) ==
  /\ f \in others
  /\ pool' = pool \cup {f}
  /\ others' = others \ {f}
  /\ UNCHANGED <<pt, pml4, total, mapped>>

Next ==
  \/ vmm_create_address_space
  \/ \E vs \in UserPages, n \in 1 .. MaxRange, p \in Phys :
       vmm_map_range(vs, n, p) \/ vmm_unmap_range(vs, n)
  \/ \E v \in UserPages, p \in Phys : vmm_map_page(v, p)
  \/ vmm_destroy_address_space
  \/ other_alloc
  \/ \E f \in TablePool : other_free(f)

Spec == Init /\ [][Next]_vars

----
(* Properties                                                              *)
----

TypeOK ==
  /\ pt \in [Tables -> [Idx -> Int]]
  /\ pool \subseteq Tables
  /\ pml4 \in TablePool \cup {NotPresent}
  /\ total \in Nat

(* Tables of the live address space: <<table, level>> reached from the   *)
(* user half of its PML4.                                                 *)
RECURSIVE Reach(_, _)
Reach(t, level) ==
  {<<t, level>>} \cup
    IF level = Levels - 1 THEN {}
    ELSE UNION {Reach(pt[t][i], level + 1) :
                  i \in {j \in Present(t) : level > 0 \/ j < Fan \div 2}}

UserTables == IF pml4 = NotPresent THEN {} ELSE Reach(pml4, 0)

(* Every table frame is free in the allocator, held by the rest of the  *)
(* kernel, or used, once, by the live address space: the tables form a  *)
(* tree (no entry shares a table with another), destroy returns every   *)
(* one of them, and none is leaked by a failed walk or a rolled-back    *)
(* map_range.                                                            *)
TablesAccounted ==
  LET used == {x[1] : x \in UserTables} IN
  /\ used \cap (pool \cup others) = {} /\ pool \cap others = {}
  /\ used \cup pool \cup others = TablePool
  /\ Cardinality(used) = Cardinality(UserTables)
  /\ \A x, y \in UserTables : x[2] < Levels - 1 /\ y[2] < Levels - 1 =>
       \A i \in Present(x[1]), j \in Present(y[1]) :
         <<x[1], i>> # <<y[1], j>> /\ (x[2] > 0 \/ i < Fan \div 2)
           /\ (y[2] > 0 \/ j < Fan \div 2) => pt[x[1]][i] # pt[y[1]][j]

(* Each user page translates to what the last successful map of it asked *)
(* for, or to nothing after an unmap: a failed map_range rolls back      *)
(* exactly the pages it mapped and leaves earlier mappings alone.        *)
MappingsAsRequested ==
  pml4 # NotPresent => \A v \in UserPages : Lookup(pml4, v, 0) = mapped[v]

(* as->total_pages is the number of mapped user pages. *)
TotalPagesCount ==
  pml4 # NotPresent =>
    total = Cardinality({v \in UserPages : Lookup(pml4, v, 0) # NotPresent})

(* The shared upper half is never freed and every address space keeps    *)
(* the kernel's upper-half entries (spec 3, address space; spec 4,       *)
(* destruction never frees the upper-half children).                     *)
KernelHalfIntact ==
  /\ {KernelPml4, KernelPdp} \cap pool = {}
  /\ pml4 # NotPresent =>
       \A i \in Idx : i >= Fan \div 2 => pt[pml4][i] = pt[KernelPml4][i]

====
