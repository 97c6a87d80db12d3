---- MODULE MCBuddy ----
(***************************************************************************)
(* Buddy allocator instance for TLC.  Memory map, in frames:               *)
(*   [0,2)   usable  -> arena slot 0, skipped by add_buddy_arena           *)
(*   [2,3)   reserved                                                      *)
(*   [3,12)  usable  -> arena slot 2: unaligned base, 3 (o0) 4-7 8-11 (o2) *)
(*   [12,14) usable  -> arena slot 3, adjacent to slot 2: 12-13 (o1);      *)
(*           8-11 XOR 4 = 12 lies in the other arena                       *)
(* MAX_SUPPORTED_ORDER is cut to 2 so that the cap binds in slot 2 (9     *)
(* frames would give order 3) and order 3 requests take the early return. *)
(***************************************************************************)
EXTENDS Buddy

MCMemMap ==
  << [base |-> 0, len |-> 2, type |-> 0],
     [base |-> 2, len |-> 1, type |-> 1],
     [base |-> 3, len |-> 9, type |-> 0],
     [base |-> 12, len |-> 2, type |-> 0] >>

=============================================================================
