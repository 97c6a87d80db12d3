---- MODULE AbstractObjectCache ----
(***************************************************************************)
(* What a slab cache promises its callers (spec sections 3 and 7), with   *)
(* no lists or counters: page pairs are taken from the buddy on demand    *)
(* and each holds a fixed set of objects.  An allocation hands out a free  *)
(* object; a new page pair is taken only when no object is free; NULL is   *)
(* returned only when no object is free and every page pair is in use.    *)
(* A free returns the object, or (a free the cache rejects) loses it.     *)
(* Page pairs whose objects are all free may be given back.                *)
(***************************************************************************)
CONSTANTS
  Pairs,    \* the page pairs the buddy can give the cache
  Slots     \* object positions in one page pair

VARIABLES
  inUse,    \* page pairs the cache holds
  avail,    \* objects free in the cache
  given,    \* objects callers hold
  lost,     \* objects whose free was rejected
  failed    \* whether the last allocation returned NULL

cvars == <<inUse, avail, given, lost, failed>>

ObjectsOf(P) == P \X Slots

CInit ==
  /\ inUse = {} /\ avail = {} /\ given = {} /\ lost = {}
  /\ failed = FALSE

Hand(o) ==
  /\ given' = given \cup {o}
  /\ failed' = FALSE
  /\ UNCHANGED lost

Alloc ==
  \E o \in avail :
    /\ avail' = avail \ {o}
    /\ Hand(o)
    /\ UNCHANGED inUse

Grow ==
  /\ avail = {}
  /\ \E p \in Pairs \ inUse : \E o \in ObjectsOf({p}) :
       /\ inUse' = inUse \cup {p}
       /\ avail' = ObjectsOf({p}) \ {o}
       /\ Hand(o)

Fail ==
  /\ avail = {} /\ inUse = Pairs
  /\ failed' = TRUE
  /\ UNCHANGED <<inUse, avail, given, lost>>

Release(o) ==
  /\ o \in given
  /\ given' = given \ {o}
  /\ \/ avail' = avail \cup {o} /\ UNCHANGED lost
     \/ lost' = lost \cup {o} /\ UNCHANGED avail
  /\ failed' = FALSE
  /\ UNCHANGED inUse

GiveBack ==
  LET gone == inUse \ inUse' IN
  /\ inUse' \subseteq inUse /\ gone # {}
  /\ ObjectsOf(gone) \subseteq avail
  /\ avail' = avail \ ObjectsOf(gone)
  /\ UNCHANGED <<given, lost, failed>>

CNext ==
  \/ Alloc \/ Grow \/ Fail
  \/ \E o \in given : Release(o)
  \/ GiveBack

CSpec == CInit /\ [][CNext]_cvars

====
