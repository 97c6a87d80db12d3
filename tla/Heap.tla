---- MODULE Heap ----
(***************************************************************************)
(* The large path of kmalloc and kfree in                                 *)
(* src/kernel/arch/x86_64/memory/pmm.c over the buddy allocator of         *)
(* buddy_allocator.c (module Buddy, instantiated for its operators).      *)
(*                                                                         *)
(* A kmalloc'd block starts with struct alloc_header {magic, size, order} *)
(* (16 bytes); the data follows and the end magic is written right after  *)
(* the data.  A free buddy block starts with struct free_block, whose      *)
(* first byte (current_order) overlays the low byte of the header magic.  *)
(* The first word of every frame of the arena is kept in word, abstracted *)
(* to what kfree tells apart:                                              *)
(*   "ALLOC"     ALLOC_MAGIC                                               *)
(*   "FREED"     FREED_PATTERN                                             *)
(*   "LINK"      a free_block written by the buddy (current_order byte)    *)
(*   "CLOBBERED" low bytes overwritten by another block's end magic        *)
(* hdr keeps the size and order fields at every frame start: kmalloc     *)
(* stamps them, and a free_block's phys_addr overlays them when the buddy *)
(* links the frame.  marks holds the byte addresses of the 8-byte end     *)
(* magics kmalloc wrote that no later store has touched; memory is never *)
(* cleared, so an end magic outlives its allocation.                      *)
(*                                                                         *)
(* Kernel code holds the pointers kmalloc gave it and frees them; it may  *)
(* free a pointer again (the double free the header sentinel is for) as   *)
(* long as no live allocation starts at that address.  FreeAfterReuse     *)
(* says whether it may do so after the memory was handed out again inside *)
(* a larger block.  Kernel code does not write its data, so the words the *)
(* allocator wrote stay as it left them.  Frame f is at byte address      *)
(* f * PAGE_FRAME_SIZE; pointers are identified with their header frame.  *)
(***************************************************************************)
EXTENDS Naturals, Sequences, SequencesExt, FiniteSets

CONSTANTS
  MemMap, Usable, MaxSupportedOrder, MaxBuddyArenas, Null,  \* as in Buddy
  PageFrameSize,     \* PAGE_FRAME_SIZE
  HeaderSize,        \* sizeof(struct alloc_header)
  TrailerReserve,    \* sizeof(uint32_t): what total_size reserves for the end magic
  TrailerWidth,      \* sizeof(uint64_t): what *end_magic = ALLOC_MAGIC writes
  SlabThreshold,     \* SLAB_THRESHOLD
  Sizes,             \* request sizes of the large path
  FreeAfterReuse     \* a freed pointer may be freed again after its memory
                     \* went to a later allocation

ASSUME \A s \in Sizes : s > SlabThreshold
(* No end magic lands on the size and order fields of a frame (offsets 1  *)
(* to 12), which kmalloc's store would rewrite and the model does not.    *)
ASSUME \A s \in Sizes : (HeaderSize + s) % PageFrameSize \notin 1 .. 12
ASSUME FreeAfterReuse \in BOOLEAN

VARIABLES
  free_list,   \* the buddy free lists, as in Buddy
  word,        \* first word of every arena frame
  hdr,         \* size and order fields of the header at every frame
  marks,       \* byte addresses of intact end magics
  live,        \* pointers kmalloc returned and kernel code still holds
  freed,       \* pointers kernel code passed to kfree and may pass again
  refused,     \* live pointers whose kfree was rejected (their block leaks)
  lastReq      \* history: the order the last kmalloc refused; Null once a
               \* later call changed the free lists

vars == <<free_list, word, hdr, marks, live, freed, refused, lastReq>>

B == INSTANCE Buddy WITH RequestOrders <- {}, MaxHeld <- 0, held <- {},
                         lastAlloc <- [blk |-> Null, before |-> Null]

Frames == B!ArenaFrames

(* (address, order) of every block on the free lists fl. *)
FreePairs(fl) == UNION {{<<fl[a][k][i], k>> : i \in 1 .. Len(fl[a][k])}
                          : a \in B!ArenaIds, k \in B!Orders}

(* Frames whose first word the buddy rewrote going from lists fl to fl2: *)
(* the split halves of buddy_alloc_pages, the merged block of            *)
(* buddy_free_pages.                                                     *)
Linked(fl, fl2) == {p[1] : p \in FreePairs(fl2) \ FreePairs(fl)}

Byte(f) == f * PageFrameSize

(* Bytes stored at a frame start: the header's magic, size and order     *)
(* (kmalloc leaves is_slab); a free_block's current_order, phys_addr and *)
(* next.                                                                  *)
HeaderStores == 8 + 4 + 1
FreeBlockStores == 8 + 8 + 8

(* The end magics of ms that a store to bytes [lo, hi) leaves intact. *)
Spare(ms, lo, hi) == {q \in ms : q + TrailerWidth <= lo \/ q >= hi}

(* A free_block's phys_addr read as a header: size is its low 32 bits and *)
(* order its fifth byte, so for the frames below 4 GiB of the instances   *)
(* the address itself and 0.                                              *)
LinkHeader(f) == [size |-> Byte(f), order |-> 0]

(* The free_block the buddy writes at every frame of L. *)
RelinkWord(L, w) == [f \in Frames |-> IF f \in L THEN "LINK" ELSE w[f]]
RelinkHdr(L, h) == [f \in Frames |-> IF f \in L THEN LinkHeader(f) ELSE h[f]]
RelinkMarks(L, ms) ==
  {q \in ms : \A f \in L : q \in Spare({q}, Byte(f), Byte(f) + FreeBlockStores)}

(* Every frame reads as a free_block: populate_buddy_blocks wrote one at  *)
(* each block head, and no other frame is read before kmalloc writes it.  *)
Init ==
  /\ free_list = [a \in B!ArenaIds |-> B!InitialLists(a)]
  /\ word = [f \in Frames |-> "LINK"]
  /\ hdr = [f \in Frames |-> LinkHeader(f)]
  /\ marks = {}
  /\ live = {} /\ freed = {} /\ refused = {}
  /\ lastReq = Null

----
(* Mutant: total_size leaves out the end magic. *)
TotalSizeNoTrailer(size) == HeaderSize + size

(* total_size = sizeof(struct alloc_header) + size + sizeof(uint32_t) *)
TotalSize(size) == HeaderSize + size + TrailerReserve

(* Mutant: the loop body runs once before the test (a do-while). *)
RECURSIVE OrderLoopDoWhile(_, _, _)
OrderLoopDoWhile(order, block, total) ==
  IF block * 2 < total THEN OrderLoopDoWhile(order + 1, block * 2, total)
  ELSE order + 1

(* while (block_size < total_size) { order++; block_size <<= 1; } *)
RECURSIVE OrderLoop(_, _, _)
OrderLoop(order, block, total) ==
  IF block < total THEN OrderLoop(order + 1, block * 2, total) ELSE order

KmallocOrder(size) == OrderLoop(0, PageFrameSize, TotalSize(size))

(* Mutant: the MAX_SUPPORTED_ORDER test refuses one order too many. *)
OrderSupportedOffByOne(order) == order < MaxSupportedOrder - 1

(* if (order >= MAX_SUPPORTED_ORDER) return NULL; *)
OrderSupported(order) == order < MaxSupportedOrder

(* end_magic = start_of_data + size *)
EndMagicPos(addr, size) == Byte(addr) + HeaderSize + size

(* *end_magic = ALLOC_MAGIC: a frame whose first word it covers exactly  *)
(* reads ALLOC_MAGIC, one whose first word it covers in part is          *)
(* clobbered; the frame may be inside the block or the one after it.     *)
WriteEndMagic(w, pos) ==
  [f \in Frames |->
     IF Byte(f) = pos THEN "ALLOC"
     ELSE IF Spare({pos}, Byte(f), Byte(f) + TrailerWidth) = {} THEN "CLOBBERED"
     ELSE w[f]]

(* What kfree's 8-byte read of the end magic at pos finds equal to       *)
(* ALLOC_MAGIC: an intact end magic, or a header magic starting there.   *)
(* Arena memory the allocator did not leave the magic in is not it;      *)
(* memory outside the arena that nothing wrote holds any value.          *)
EndMagicRead(pos) ==
  IF \/ pos \in marks
     \/ pos % PageFrameSize = 0 /\ pos \div PageFrameSize \in Frames
                               /\ word[pos \div PageFrameSize] = "ALLOC"
  THEN {TRUE}
  ELSE IF {pos \div PageFrameSize, (pos + TrailerWidth - 1) \div PageFrameSize}
            \subseteq Frames
  THEN {FALSE}
  ELSE BOOLEAN

(* Mutant: the size and order fields are assigned the other way round. *)
HeaderFieldsSwapped(size, order) == [size |-> order, order |-> size]

(* alloc_h->size = size; alloc_h->order = order *)
Header(size, order) == [size |-> size, order |-> order]

(* kmalloc(size) for size > SLAB_THRESHOLD: the order loop, the          *)
(* MAX_SUPPORTED_ORDER check, buddy_alloc_pages under kmalloc_lock (its   *)
(* split writes a free_block at every right half), then header magic,     *)
(* size, order and the end magic.                                         *)
kmalloc(size) ==
  LET order == KmallocOrder(size) IN
  /\ IF OrderSupported(order) /\ \E a \in B!ArenaIds : B!CanServe(free_list, a, order)
     THEN LET a == Min({x \in B!ArenaIds : B!CanServe(free_list, x, order)})
              j == Min({k \in B!Candidates(a, order) : free_list[a][k] # <<>>})
              addr == Head(free_list[a][j])
              fl2 == B!SplitFrom(free_list, a, j, order)
              L == Linked(free_list, fl2)
              pos == EndMagicPos(addr, size)
              headed == Spare(RelinkMarks(L, marks), Byte(addr), Byte(addr) + HeaderStores)
          IN /\ free_list' = fl2
             /\ word' = WriteEndMagic([RelinkWord(L, word) EXCEPT ![addr] = "ALLOC"], pos)
             /\ hdr' = [RelinkHdr(L, hdr) EXCEPT ![addr] = Header(size, order)]
             /\ marks' = Spare(headed, pos, pos + TrailerWidth) \cup {pos}
             /\ live' = live \cup {addr}
             /\ freed' = IF FreeAfterReuse THEN freed
                         ELSE freed \ B!Frames(B!Block(addr, order))
             /\ lastReq' = Null
     ELSE /\ UNCHANGED <<free_list, word, hdr, marks, live, freed>>  \* NULL
          /\ lastReq' = order
  /\ UNCHANGED refused

(* Mutant: the header magic is not overwritten on free. *)
StampForgotten(w, p) == w

(* header->magic = FREED_PATTERN *)
StampFreed(w, p) == [w EXCEPT ![p] = "FREED"]

(* kfree(ptr) of a buddy allocation: a FREED_PATTERN header is a double   *)
(* free, and a header magic or an end magic (at ptr + header->size) that  *)
(* is not ALLOC_MAGIC is corruption, both logged and returned from;       *)
(* otherwise stamp FREED_PATTERN and buddy_free_pages(phys,               *)
(* header->order) under kfree_lock, which writes a free_block at the      *)
(* merged block.  slab_find_containing finds no slab for these pointers. *)
kfree(p) ==
  /\ p \in live \/ (p \in freed /\ p \notin live)
  /\ live' = live \ {p}
  /\ \E endIntact \in EndMagicRead(EndMagicPos(p, hdr[p].size)) :
       IF word[p] = "FREED" \/ word[p] # "ALLOC" \/ ~endIntact
       THEN /\ refused' = IF p \in live THEN refused \cup {p} ELSE refused
            /\ UNCHANGED <<free_list, word, hdr, marks, freed, lastReq>>
       ELSE LET a == Min(B!ArenaOf(p))
                fl2 == [free_list EXCEPT ![a] =
                          B!Coalesce(@, p, hdr[p].order, B!Arenas[a].max)]
                L == Linked(free_list, fl2)
            IN /\ free_list' = fl2
               /\ word' = RelinkWord(L, StampFreed(word, p))
               /\ hdr' = RelinkHdr(L, hdr)
               /\ marks' = RelinkMarks(L, Spare(marks, Byte(p), Byte(p) + TrailerWidth))
               /\ freed' = freed \cup {p}
               /\ lastReq' = Null
               /\ UNCHANGED refused

Next ==
  \/ \E s \in Sizes : kmalloc(s)
  \/ \E p \in Frames : kfree(p)

Spec == Init /\ [][Next]_vars

----
(* Properties                                                              *)
----

TypeOK ==
  /\ word \in [Frames -> {"ALLOC", "FREED", "LINK", "CLOBBERED"}]
  /\ hdr \in [Frames -> [size : Nat, order : B!Orders]]
  /\ marks \subseteq Nat
  /\ live \cup freed \cup refused \subseteq Frames

BlockOf(p) == [addr |-> p, order |-> hdr[p].order]

FreeBlockSet == {[addr |-> q[1], order |-> q[2]] : q \in FreePairs(free_list)}

(* Every frame of the arena is in exactly one place: a free block, a     *)
(* live allocation, or an allocation whose kfree was refused (leaked),   *)
(* and no block is listed twice.  A double free that the header and end  *)
(* sentinels let through would hand the buddy a block that is already    *)
(* free, or a frame of a block that is live again.                       *)
HeapAccounting ==
  LET blocks == FreeBlockSet \cup {BlockOf(p) : p \in live \cup refused}
      listed == FoldSet(LAMBDA q, acc : acc + 1, 0, FreePairs(free_list))
  IN /\ \A a \in B!ArenaIds : \A k \in B!Orders :
          \A i, j \in 1 .. Len(free_list[a][k]) :
            i # j => free_list[a][k][i] # free_list[a][k][j]
     /\ listed = Cardinality(FreeBlockSet)
     /\ live \cap refused = {}
     /\ \A x, y \in blocks : x # y => B!Frames(x) \cap B!Frames(y) = {}
     /\ UNION {B!Frames(x) : x \in blocks} = Frames

(* While an allocation is live its header magic is ALLOC_MAGIC (spec 3, *)
(* heap allocation header), so kfree of it returns it to the buddy.      *)
HeaderIntact ==
  \A p \in live : word[p] = "ALLOC"

(* kmalloc and kfree of the large path implement the abstract page        *)
(* allocator of AbstractAllocator for the orders kmalloc serves (below    *)
(* MAX_SUPPORTED_ORDER): the free frames are the frames of the listed     *)
(* blocks; the given blocks are those of live pointers and of pointers    *)
(* whose kfree was refused (they leak, still given).  So kmalloc returns  *)
(* NULL only when no arena has a free aligned run of the order, and a     *)
(* kfree that the header sentinels let through returns exactly a block    *)
(* the caller held: a double free that reached the buddy would release a  *)
(* block that is not given.                                               *)
Abstract == INSTANCE AbstractAllocator WITH
  Pools <- {[lo |-> B!Arenas[a].base,
             hi |-> B!Arenas[a].base + B!Arenas[a].length - 1,
             max |-> Min({B!Arenas[a].max, MaxSupportedOrder - 1})]
            : a \in B!ArenaIds},
  Requests <- {KmallocOrder(s) : s \in Sizes},
  free <- UNION {B!Frames(b) : b \in FreeBlockSet},
  given <- {BlockOf(p) : p \in live \cup refused},
  refused <- lastReq

AllocatorRefinement == Abstract!ASpec

====
