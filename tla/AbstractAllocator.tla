---- MODULE AbstractAllocator ----
(***************************************************************************)
(* What the physical page allocator promises its callers (spec sections   *)
(* 2 and 5), with no free lists: the free frames are a set, and a request *)
(* of order o is answered by 2^o contiguous, naturally aligned free        *)
(* frames of one pool that allows that order, or refused only when no     *)
(* such run exists.  A block given back returns exactly its frames.       *)
(***************************************************************************)
EXTENDS Naturals

CONSTANTS
  Pools,    \* the arenas: [lo, hi, max], frames lo .. hi, orders up to max
  Requests, \* the orders callers ask for
  Null      \* no refusal pending

VARIABLES
  free,     \* frames free in the allocator
  given,    \* blocks [addr, order] the callers hold
  refused   \* the order of the last request if it was refused, else Null

avars == <<free, given, refused>>

Run(a, o) == a .. (a + 2^o - 1)

(* Start frames of the aligned free runs of 2^o frames inside one pool. *)
Available(o) ==
  {a \in free : \E p \in Pools :
     /\ o <= p.max
     /\ a % 2^o = 0
     /\ p.lo <= a /\ a + 2^o - 1 <= p.hi
     /\ Run(a, o) \subseteq free}

AInit ==
  /\ free = UNION {p.lo .. p.hi : p \in Pools}
  /\ given = {}
  /\ refused = Null

Alloc(o) ==
  \E a \in Available(o) :
    /\ free' = free \ Run(a, o)
    /\ given' = given \cup {[addr |-> a, order |-> o]}
    /\ refused' = Null

Refuse(o) ==
  /\ Available(o) = {}
  /\ refused' = o
  /\ UNCHANGED <<free, given>>

Release(b) ==
  /\ b \in given
  /\ free' = free \cup Run(b.addr, b.order)
  /\ given' = given \ {b}
  /\ refused' = Null

ANext ==
  \/ \E o \in Requests : Alloc(o) \/ Refuse(o)
  \/ \E b \in given : Release(b)

ASpec == AInit /\ [][ANext]_avars

====
