---- MODULE Buddy ----
(***************************************************************************)
(* The physical page-frame buddy allocator of                              *)
(* src/kernel/arch/x86_64/memory/buddy_allocator.c.                        *)
(*                                                                         *)
(* Addresses are page-frame numbers (phys_addr / PAGE_FRAME_SIZE), so a    *)
(* block of order k covers 2^k frames and its buddy is addr XOR 2^k.       *)
(* The arenas are computed from the boot memory map exactly as             *)
(* buddy_allocator_init does; each arena keeps free_list[0..MAX] as a      *)
(* sequence whose head is the list head of the C code.                     *)
(*                                                                         *)
(* The environment is a client that holds the blocks it was given and     *)
(* frees each with the order it was allocated with, as kfree (via the      *)
(* header's order), slab_destroy (order 1) and pmm_free_page (order 0) do. *)
(***************************************************************************)
EXTENDS Naturals, Sequences, SequencesExt, FiniteSets, Bitwise

CONSTANTS
  MemMap,              \* boot memory map: sequence of [base, len, type], in frames
  Usable,              \* the type value of a usable entry (0 in limine)
  MaxSupportedOrder,   \* MAX_SUPPORTED_ORDER
  MaxBuddyArenas,      \* MAX_BUDDY_ARENAS
  RequestOrders,       \* orders the callers ask buddy_alloc_pages for
  MaxHeld,             \* bound: blocks held by clients at once
  Null                 \* the failure sentinel (0 in the C code)

Orders == 0 .. MaxSupportedOrder

Block(addr, order) == [addr |-> addr, order |-> order]

(* Frames covered by a block. *)
Frames(b) == b.addr .. (b.addr + 2^b.order - 1)

----
(* Initialisation: buddy_allocator_init, add_buddy_arena,                 *)
(* populate_buddy_blocks.                                                  *)
----

(* An arena slot never set up by add_buddy_arena (zeroed global). *)
NoArena == [base |-> 0, length |-> 0, max |-> 0]

(* Mutant: the cap at MAX_SUPPORTED_ORDER is left out. *)
ArenaMaxOrderNoCap(len) == Max({k \in 0 .. len : 2^k <= len})

(* max_arena_order: the largest k with 2^k frames <= length, capped. *)
ArenaMaxOrder(len) == Max({k \in Orders : 2^k <= len})

(* add_buddy_arena: slot 0 is skipped (the VGA-hole quirk) by bumping the *)
(* counter; buddy_allocator_init then bumps it again, so slot 1 is also  *)
(* left unset and the first real arena lands in slot 2.                  *)
RECURSIVE ArenasFrom(_, _)
ArenasFrom(i, built) ==
  IF i > Len(MemMap) THEN built
  ELSE LET e == MemMap[i] IN
       IF e.type # Usable THEN ArenasFrom(i + 1, built)
       ELSE IF Len(built) >= MaxBuddyArenas THEN built
       ELSE IF Len(built) = 0 THEN ArenasFrom(i + 1, <<NoArena, NoArena>>)
       ELSE ArenasFrom(i + 1,
              Append(built, [base |-> e.base, length |-> e.len,
                             max |-> ArenaMaxOrder(e.len)]))

Arenas == ArenasFrom(1, <<>>)
ArenaIds == 1 .. Len(Arenas)

(* populate_buddy_blocks: walk left to right, each time taking the       *)
(* largest order that fits the rest and is naturally aligned, pushing it *)
(* on the head of its list.                                              *)
RECURSIVE Populate(_, _, _, _)
Populate(cur, end, max, fl) ==
  IF cur >= end THEN fl
  ELSE LET best == Max({k \in 0 .. max : 2^k <= end - cur /\ cur % 2^k = 0})
       IN  Populate(cur + 2^best, end, max,
                    [fl EXCEPT ![best] = <<cur>> \o @])

EmptyLists == [k \in Orders |-> <<>>]

InitialLists(a) ==
  IF Arenas[a].length = 0 THEN EmptyLists
  ELSE Populate(Arenas[a].base, Arenas[a].base + Arenas[a].length,
                Arenas[a].max, EmptyLists)

----
VARIABLES
  free_list,   \* free_list[a][k]: the free list of order k of arena a
  held,        \* blocks currently owned by callers
  lastAlloc    \* history: the last step's allocation and the lists before it,
               \* or the order it refused

vars == <<free_list, held, lastAlloc>>

NoAlloc == [blk |-> Null, before |-> Null, req |-> Null]

Init ==
  /\ free_list = [a \in ArenaIds |-> InitialLists(a)]
  /\ held = {}
  /\ lastAlloc = NoAlloc

----
(* buddy_alloc_pages(order)                                                *)
----

(* Mutant: the split search stops one order below max_arena_order. *)
CandidatesNoTop(a, o) == {o} \cup (o + 1 .. Arenas[a].max - 1)

(* Orders of arena a the allocator looks at for a request of order o:    *)
(* free_list[o] first, then o+1 .. max_arena_order for splitting.        *)
Candidates(a, o) == {o} \cup (o + 1 .. Arenas[a].max)

CanServe(fl, a, o) == \E j \in Candidates(a, o) : fl[a][j] # <<>>

(* Mutant: the block taken for the request is never unlinked. *)
SplitFromKeepsHead(fl, a, j, o) ==
  LET addr == Head(fl[a][j]) IN
  [fl EXCEPT ![a] = [k \in Orders |->
      IF o <= k /\ k < j THEN <<addr + 2^k>> \o fl[a][k] ELSE fl[a][k]]]

(* Remove the head of list j of arena a and split it down to order o,    *)
(* pushing every right half 2^k above addr on the head of list k.        *)
SplitFrom(fl, a, j, o) ==
  LET addr == Head(fl[a][j]) IN
  [fl EXCEPT ![a] = [k \in Orders |->
      IF k = j THEN Tail(fl[a][k])
      ELSE IF o <= k /\ k < j THEN <<addr + 2^k>> \o fl[a][k]
      ELSE fl[a][k]]]

buddy_alloc_pages(o) ==
  /\ Cardinality(held) < MaxHeld
  /\ IF o <= MaxSupportedOrder /\ \E a \in ArenaIds : CanServe(free_list, a, o)
     THEN LET a == Min({x \in ArenaIds : CanServe(free_list, x, o)})
              j == Min({k \in Candidates(a, o) : free_list[a][k] # <<>>})
              b == Block(Head(free_list[a][j]), o)
          IN /\ free_list' = SplitFrom(free_list, a, j, o)
             /\ held' = held \cup {b}
             /\ lastAlloc' = [blk |-> b, before |-> free_list, req |-> Null]
     ELSE /\ UNCHANGED <<free_list, held>>      \* returns 0
          /\ lastAlloc' = [NoAlloc EXCEPT !.req = o]

----
(* buddy_free_pages(phys_addr, order)                                      *)
----

(* The merge loop: while order < max_arena_order, unlink the buddy       *)
(* addr XOR 2^order from list[order] if it is there and go one order up *)
(* from the lower of the two; then push the result on its list.          *)
RECURSIVE Coalesce(_, _, _, _)

(* Mutant: the buddy is unlinked but the loop breaks before merging. *)
CoalesceDropsBuddy(lists, addr, order, max) ==
  LET buddy == addr ^^ (2^order) IN
  IF order < max /\ Contains(lists[order], buddy)
  THEN [lists EXCEPT ![order] = <<addr>> \o RemoveFirst(@, buddy)]
  ELSE [lists EXCEPT ![order] = <<addr>> \o @]

(* Mutant: the list scan compares with the freed block, not its buddy. *)
CoalesceSelfCompare(lists, addr, order, max) ==
  LET buddy == addr ^^ (2^order) IN
  IF order < max /\ Contains(lists[order], addr)
  THEN Coalesce([lists EXCEPT ![order] = RemoveFirst(@, buddy)],
                IF buddy < addr THEN buddy ELSE addr, order + 1, max)
  ELSE [lists EXCEPT ![order] = <<addr>> \o @]

(* Mutant: the freed block is linked at the tail of its list. *)
CoalesceAppends(lists, addr, order, max) ==
  LET buddy == addr ^^ (2^order) IN
  IF order < max /\ Contains(lists[order], buddy)
  THEN Coalesce([lists EXCEPT ![order] = RemoveFirst(@, buddy)],
                IF buddy < addr THEN buddy ELSE addr, order + 1, max)
  ELSE [lists EXCEPT ![order] = @ \o <<addr>>]

Coalesce(lists, addr, order, max) ==
  LET buddy == addr ^^ (2^order) IN
  IF order < max /\ Contains(lists[order], buddy)
  THEN Coalesce([lists EXCEPT ![order] = RemoveFirst(@, buddy)],
                IF buddy < addr THEN buddy ELSE addr, order + 1, max)
  ELSE [lists EXCEPT ![order] = <<addr>> \o @]

ArenaOf(addr) ==
  {a \in ArenaIds : Arenas[a].base <= addr /\ addr < Arenas[a].base + Arenas[a].length}

buddy_free_pages(b) ==
  /\ b \in held
  /\ held' = held \ {b}
  /\ IF b.order <= MaxSupportedOrder /\ ArenaOf(b.addr) # {}
     THEN LET a == Min(ArenaOf(b.addr)) IN
          free_list' = [free_list EXCEPT ![a] =
                          Coalesce(@, b.addr, b.order, Arenas[a].max)]
     ELSE UNCHANGED free_list                   \* logged and ignored
  /\ lastAlloc' = NoAlloc

----
Next ==
  \/ \E o \in RequestOrders : buddy_alloc_pages(o)
  \/ \E b \in held : buddy_free_pages(b)

Spec == Init /\ [][Next]_vars

----
(* Properties                                                              *)
----

FreeBlocks == {Block(a_k[1], a_k[2]) : a_k \in
                 UNION {{<<free_list[a][k][i], k>> : i \in 1 .. Len(free_list[a][k])}
                          : a \in ArenaIds, k \in Orders}}

(* The same (address, order) listed twice anywhere counts as an overlap. *)
ListedCount == LET per(a, k) == Len(free_list[a][k])
               IN FoldSet(LAMBDA ak, acc : acc + per(ak[1], ak[2]), 0,
                          ArenaIds \X Orders)

ArenaFrames == UNION {Arenas[a].base .. (Arenas[a].base + Arenas[a].length - 1)
                        : a \in ArenaIds}

TypeOK ==
  /\ Arenas \in Seq([base : Nat, length : Nat, max : Orders])
  /\ free_list \in [ArenaIds -> [Orders -> Seq(Nat)]]
  /\ held \subseteq [addr : Nat, order : Orders]
  /\ lastAlloc.blk \in [addr : Nat, order : Orders] \cup {Null}

(* No frame is in two blocks at once, whether free or handed out: the    *)
(* allocator never gives away a frame that is free or already given.     *)
(* It depends on the split arithmetic of buddy_alloc_pages and the XOR   *)
(* buddy and min() of buddy_free_pages together.                         *)
NoDoubleAllocation ==
  /\ ListedCount = Cardinality(FreeBlocks)
  /\ \A x, y \in FreeBlocks \cup held :
        x # y => Frames(x) \cap Frames(y) = {}

(* Every frame of every arena is either on a free list or held by a      *)
(* caller (buddy coverage, spec section 8): nothing leaks across any     *)
(* sequence of splits and merges.                                        *)
NoLeak ==
  UNION {Frames(b) : b \in FreeBlocks \cup held} = ArenaFrames

(* Free blocks are naturally aligned, lie in the arena whose list holds  *)
(* them, and no two free buddies below max_arena_order are left unmerged.*)
FreeListsWellFormed ==
  \A a \in ArenaIds, k \in Orders :
    \A i \in 1 .. Len(free_list[a][k]) :
      LET addr == free_list[a][k][i] IN
      /\ k <= Arenas[a].max
      /\ addr % 2^k = 0
      /\ Frames(Block(addr, k)) \subseteq
           Arenas[a].base .. (Arenas[a].base + Arenas[a].length - 1)
      /\ k < Arenas[a].max => ~Contains(free_list[a][k], addr ^^ (2^k))

(* Buddy round trip (spec section 8): freeing the block the previous     *)
(* step allocated restores every free list exactly, order of entries     *)
(* included.                                                             *)
RoundTrip ==
  [][ (lastAlloc.blk # Null /\ buddy_free_pages(lastAlloc.blk))
        => free_list' = lastAlloc.before ]_vars

(* buddy_alloc_pages and buddy_free_pages implement the abstract page    *)
(* allocator: the frames of the listed blocks are its free set, the      *)
(* callers' blocks its given ones, and a refused order its refusal.  So  *)
(* a request is served by an aligned run of 2^o frames inside one arena  *)
(* that allows order o, a refusal happens only when no arena has such a  *)
(* free run (the split search over free_list[o .. max] must find every   *)
(* one), and a free returns exactly the block's frames.                  *)
Abstract == INSTANCE AbstractAllocator WITH
  Pools <- {[lo |-> Arenas[a].base, hi |-> Arenas[a].base + Arenas[a].length - 1,
             max |-> Arenas[a].max] : a \in ArenaIds},
  Requests <- RequestOrders,
  free <- UNION {Frames(b) : b \in FreeBlocks},
  given <- held,
  refused <- lastAlloc.req

AllocatorRefinement == Abstract!ASpec

=============================================================================
