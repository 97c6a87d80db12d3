---- MODULE Slab ----
(***************************************************************************)
(* One slab cache of src/kernel/arch/x86_64/memory/slab_allocator.c, and  *)
(* the slab paths of kmalloc (slab_alloc_size picks the cache) and of      *)
(* kfree (slab_find_containing finds the slab) in pmm.c.                   *)
(*                                                                         *)
(* A slab is an order-1 buddy block: a header followed by objects_per_slab *)
(* objects.  The page pairs the buddy can hand out are the set SlabIds;    *)
(* slab_create fails when all of them are in use.  An object is the pair  *)
(* <<slab, index>>; its first word (free_object.magic) is kept in magic,   *)
(* abstracted to "POISON" (OBJECT_POISON = FREED_PATTERN) or "DATA"        *)
(* (anything else).  Each list is a sequence, head first, as it is linked. *)
(*                                                                         *)
(* The environment is kernel code holding objects from kmalloc: it may     *)
(* write their first word, kfree them, and kfree again a pointer it has    *)
(* already freed (the double free kfree checks for).                      *)
(***************************************************************************)
EXTENDS Naturals, Sequences, SequencesExt, FiniteSets

CONSTANTS
  SlabIds,          \* page pairs the buddy can give slab_create
  ObjectSize,       \* the cache's object_size
  SlabHeaderSize,   \* sizeof(struct slab)
  PageFrameSize,    \* PAGE_FRAME_SIZE
  SlabSizes,        \* slab_sizes[], the object size of each cache
  SlabThreshold,    \* SLAB_THRESHOLD of pmm.c
  Requests          \* the sizes kernel code passes to kmalloc

(* calculate_objects_per_slab *)
ObjsPerSlab == (2 * PageFrameSize - SlabHeaderSize) \div ObjectSize

ObjIndex == 0 .. ObjsPerSlab - 1
Objects == SlabIds \X ObjIndex
Magic == {"POISON", "DATA"}

VARIABLES
  cache,      \* struct slab_cache: the three lists and the counters
  slab,       \* per slab: free_list (object indices) and free_count
  live,       \* slabs created and not destroyed
  magic,      \* first word of every object
  held,       \* objects kernel code got from kmalloc and has not freed
  released,   \* objects it passed to kfree (a later kfree is a double free)
  refused,    \* live objects whose kfree was rejected as a double free
  lastFailed  \* history: whether the last kmalloc of the cache returned NULL

vars == <<cache, slab, live, magic, held, released, refused, lastFailed>>

NoSlab == [free_list |-> <<>>, free_count |-> 0]

(* slab_cache_init *)
Init ==
  /\ cache = [partial |-> <<>>, full |-> <<>>, empty |-> <<>>,
              total_objects |-> 0, allocated_objects |-> 0, total_slabs |-> 0]
  /\ slab = [s \in SlabIds |-> NoSlab]
  /\ live = {}
  /\ magic = [o \in Objects |-> "DATA"]  \* no poison left in unused memory
  /\ held = {} /\ released = {} /\ refused = {}
  /\ lastFailed = FALSE

----
(* Mutant: the threading loop runs to i <= objects_per_slab. *)
ThreadObjectsOneMore(n) == [k \in 1 .. n + 1 |-> n + 1 - k]

(* slab_create threads objects 0 .. n-1 onto the head of the free list,  *)
(* so the list runs from object n-1 down to object 0.                     *)
ThreadObjects(n) == [k \in 1 .. n |-> n - k]

(* slab_remove_from_list: unlink s from the first of partial, full, empty *)
(* that holds it.                                                         *)
RemoveFromList(c, s) ==
  CASE Contains(c.partial, s) -> [c EXCEPT !.partial = RemoveFirst(@, s)]
    [] Contains(c.full, s)    -> [c EXCEPT !.full = RemoveFirst(@, s)]
    [] Contains(c.empty, s)   -> [c EXCEPT !.empty = RemoveFirst(@, s)]
    [] OTHER                  -> c

(* Unlink s and push it on the head of list l. *)
MoveTo(c, s, l) == [RemoveFromList(c, s) EXCEPT ![l] = Cons(s, @)]

(* Re-linking at the end of slab_alloc, cnt the new free_count. *)
AllocRelink(c, s, cnt) ==
  CASE cnt = 0                -> MoveTo(c, s, "full")
    [] cnt = ObjsPerSlab - 1  -> MoveTo(c, s, "partial")
    [] OTHER                  -> c

(* Mutant: a slab whose last object comes back stays on the partial list. *)
FreeRelinkNoEmpty(c, s, cnt) ==
  IF cnt = 1 THEN MoveTo(c, s, "partial") ELSE c

(* Re-linking at the end of slab_free, cnt the new free_count. *)
FreeRelink(c, s, cnt) ==
  CASE cnt = 1                -> MoveTo(c, s, "partial")
    [] cnt = ObjsPerSlab      -> MoveTo(c, s, "empty")
    [] OTHER                  -> c

(* slab_create's effect on the cache: pushed on empty, counters raised. *)
Created(c, s) ==
  [c EXCEPT !.empty = Cons(s, @), !.total_slabs = @ + 1,
            !.total_objects = @ + ObjsPerSlab]

(* The body of slab_alloc from "if(slab->free_list == NULL)" on, given    *)
(* the cache c and slabs sl it has at that point: pop the head object,   *)
(* count, re-link, return the object.                                    *)
PopFrom(s, c, sl) ==
  IF sl[s].free_list = <<>>
  THEN /\ cache' = c /\ slab' = sl                  \* KERROR, return NULL
       /\ lastFailed' = TRUE
       /\ UNCHANGED <<held, released>>
  ELSE LET o == Head(sl[s].free_list)
           cnt == sl[s].free_count - 1
       IN /\ slab' = [sl EXCEPT ![s] = [free_list |-> Tail(sl[s].free_list),
                                        free_count |-> cnt]]
          /\ cache' = AllocRelink([c EXCEPT !.allocated_objects = @ + 1], s, cnt)
          /\ held' = held \cup {<<s, o>>}
          /\ released' = released \ {<<s, o>>}
          /\ lastFailed' = FALSE

(* Mutant: slab_alloc looks only at the partial list. *)
HasSourcePartialOnly(c) == c.partial # <<>>

(* slab_alloc takes an existing slab when the partial or the empty list  *)
(* is non-empty, the head of partial before the head of empty.           *)
HasSource(c) == c.partial # <<>> \/ c.empty # <<>>
Source(c) == IF c.partial # <<>> THEN Head(c.partial) ELSE Head(c.empty)

(* slab_alloc: partial first, then empty, else slab_create              *)
(* (buddy_alloc_pages(1)); a failed create returns NULL.                  *)
slab_alloc ==
  /\ IF HasSource(cache)
     THEN /\ PopFrom(Source(cache), cache, slab)
          /\ UNCHANGED <<live, magic>>
     ELSE IF SlabIds \ live = {}
     THEN /\ UNCHANGED <<cache, slab, live, magic, held, released>>
          /\ lastFailed' = TRUE
     ELSE \E s \in SlabIds \ live :
          /\ live' = live \cup {s}
          /\ PopFrom(s, Created(cache, s),
                     [slab EXCEPT ![s] = [free_list |-> ThreadObjects(ObjsPerSlab),
                                          free_count |-> ObjsPerSlab]])
          /\ UNCHANGED magic
  /\ UNCHANGED refused

(* slab_alloc_size: the first cache whose object size is at least size;  *)
(* none (0) when size is above them all.                                 *)
SlabAllocSize(size) ==
  LET fits == {k \in DOMAIN SlabSizes : size <= SlabSizes[k]} IN
  IF fits = {} THEN 0 ELSE CHOOSE k \in fits : \A j \in fits : k <= j

(* kmalloc(size), small path: size 0 returns NULL; a size up to           *)
(* SLAB_THRESHOLD goes to slab_alloc_size under kmalloc_lock.  Sizes of   *)
(* another cache, and the fall back to the buddy when slab_alloc returns *)
(* NULL, are outside this cache.                                          *)
kmalloc(size) ==
  /\ 0 < size /\ size <= SlabThreshold
  /\ SlabAllocSize(size) # 0
  /\ SlabSizes[SlabAllocSize(size)] = ObjectSize
  /\ slab_alloc

(* Kernel code writes the first word of an object it holds. *)
write_object(o) ==
  /\ o \in held
  /\ magic[o] # "DATA"
  /\ magic' = [magic EXCEPT ![o] = "DATA"]
  /\ UNCHANGED <<cache, slab, live, held, released, refused, lastFailed>>

(* Mutant: slab_free does not stamp the poison. *)
PoisonForgotten(m, o) == m

(* slab_free: obj->magic = OBJECT_POISON. *)
Poison(m, o) == [m EXCEPT ![o] = "POISON"]

(* slab_find_containing(ptr): the header at ptr aligned down to the page *)
(* pair must carry SLAB_MAGIC and a cache, and ptr must lie in the        *)
(* objects area [header end, header end + objects_per_slab * object_size) *)
(* of that cache; the slab, or none.  The header of a page pair that is   *)
(* not a live slab is not read: the pointers kernel code passes lie in    *)
(* live slabs.                                                            *)
SlabFindContaining(o) ==
  LET off == SlabHeaderSize + o[2] * ObjectSize IN
  IF /\ o[1] \in live
     /\ SlabHeaderSize <= off
     /\ off < SlabHeaderSize + ObjsPerSlab * ObjectSize
  THEN {o[1]} ELSE {}

(* kfree(ptr) of a slab object: slab_find_containing finds its slab (a    *)
(* pointer it does not place in a slab takes the large path, in Heap);    *)
(* a first word equal to FREED_PATTERN is reported as a double free and  *)
(* the call returns; otherwise slab_free under kfree_lock.               *)
kfree(o) ==
  LET s == o[1] IN
  /\ o \in held \cup released
  /\ SlabFindContaining(o) = {s}
  /\ held' = held \ {o}
  /\ lastFailed' = IF o \in held THEN FALSE ELSE lastFailed
  /\ IF magic[o] = "POISON"
     THEN /\ refused' = IF o \in held THEN refused \cup {o} ELSE refused
          /\ UNCHANGED <<cache, slab, live, magic, released>>
     ELSE LET cnt == slab[s].free_count + 1 IN
          /\ magic' = Poison(magic, o)
          /\ slab' = [slab EXCEPT ![s] = [free_list |-> Cons(o[2], @.free_list),
                                          free_count |-> cnt]]
          /\ cache' = FreeRelink([cache EXCEPT !.allocated_objects = @ - 1], s, cnt)
          /\ released' = released \cup {o}
          /\ UNCHANGED <<live, refused>>

(* slab_cache_shrink: keep the first two empty slabs and slab_destroy the *)
(* rest, each returning its page pair with buddy_free_pages(.., 1).      *)
slab_cache_shrink ==
  /\ Len(cache.empty) > 2
  /\ LET gone == ToSet(SubSeq(cache.empty, 3, Len(cache.empty))) IN
     /\ cache' = [cache EXCEPT !.empty = SubSeq(@, 1, 2),
                    !.total_slabs = @ - Cardinality(gone),
                    !.total_objects = @ - ObjsPerSlab * Cardinality(gone)]
     /\ live' = live \ gone
     /\ slab' = [s \in SlabIds |-> IF s \in gone THEN NoSlab ELSE slab[s]]
     /\ released' = {o \in released : o[1] \notin gone}
  /\ UNCHANGED <<magic, held, refused, lastFailed>>

Next ==
  \/ \E size \in Requests : kmalloc(size)
  \/ \E o \in Objects : write_object(o) \/ kfree(o)
  \/ slab_cache_shrink

Spec == Init /\ [][Next]_vars

----
(* Properties                                                              *)
----

TypeOK ==
  /\ cache.partial \in Seq(SlabIds) /\ cache.full \in Seq(SlabIds)
  /\ cache.empty \in Seq(SlabIds)
  /\ slab \in [SlabIds -> [free_list : Seq(ObjIndex), free_count : Nat]]
  /\ live \subseteq SlabIds
  /\ magic \in [Objects -> Magic]
  /\ held \cup released \cup refused \subseteq Objects

OnList(c, s) ==
  Len(SelectSeq(c.partial, LAMBDA x : x = s))
    + Len(SelectSeq(c.full, LAMBDA x : x = s))
    + Len(SelectSeq(c.empty, LAMBDA x : x = s))

(* The slab-cache invariant of the spec (section 3): every live slab is on *)
(* exactly one list, once, and the list agrees with its free_count: full  *)
(* when 0, empty when objects_per_slab, partial otherwise; free_count is  *)
(* the length of the slab's free list; destroyed slabs are on no list.    *)
(* It rests on the two re-link branches of slab_alloc and of slab_free.   *)
SlabListsConsistent ==
  \A s \in SlabIds :
    IF s \in live
    THEN /\ OnList(cache, s) = 1
         /\ slab[s].free_count = Len(slab[s].free_list)
         /\ Contains(cache.full, s) <=> slab[s].free_count = 0
         /\ Contains(cache.empty, s) <=> slab[s].free_count = ObjsPerSlab
    ELSE OnList(cache, s) = 0

FreeObjects == UNION {{s} \X ToSet(slab[s].free_list) : s \in live}

(* Every object of a live slab is in exactly one place: on its slab's    *)
(* free list (once), held by kernel code, or lost to a refused kfree; and *)
(* the cache counters agree.  A double free that got past kfree's check   *)
(* would put an object on a free list twice or while it is held.         *)
ObjectAccounting ==
  /\ \A s \in live : \A i, j \in 1 .. Len(slab[s].free_list) :
        i # j => slab[s].free_list[i] # slab[s].free_list[j]
  /\ held \cap FreeObjects = {} /\ refused \cap FreeObjects = {}
  /\ held \cap refused = {}
  /\ FreeObjects \cup held \cup refused = live \X ObjIndex
  /\ cache.allocated_objects = Cardinality(held \cup refused)
  /\ cache.total_objects = ObjsPerSlab * Cardinality(live)
  /\ cache.total_slabs = Cardinality(live)

(* kfree of an object kernel code holds is never rejected as a double     *)
(* free (spec: the double-free check rejects the second free of the same *)
(* pointer; a first free releases the object).                           *)
LiveFreeAccepted == refused = {}

(* slab_alloc, slab_free and slab_cache_shrink implement the abstract     *)
(* object cache: the free objects of live slabs are its free objects,     *)
(* held ones are given, refused ones lost.  So kmalloc hands out a free   *)
(* object whenever one exists, takes a new page pair only when no live    *)
(* slab has a free object (created on demand, spec 3), returns NULL only *)
(* when every page pair is a slab and all are full, and shrink destroys   *)
(* only slabs whose objects are all free.                                 *)
AbstractCache == INSTANCE AbstractObjectCache WITH
  Pairs <- SlabIds, Slots <- ObjIndex,
  inUse <- live, avail <- FreeObjects, given <- held, lost <- refused,
  failed <- lastFailed

CacheRefinement == AbstractCache!CSpec

====
