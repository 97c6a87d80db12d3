---- MODULE MCHeap ----
(***************************************************************************)
(* Heap instance for TLC.  Memory map, in frames: [0,1) usable (slot 0,   *)
(* skipped by add_buddy_arena), [1,4) reserved, [4,8) usable: one arena   *)
(* holding one order-2 block.  MAX_SUPPORTED_ORDER is cut to 2, so order   *)
(* 0 and 1 requests are served and order 2 ones take kmalloc's early      *)
(* return.  The request sizes sit on the order-0 boundary: 4072 is the    *)
(* largest size whose end magic fits a page, 4076 the largest that        *)
(* total_size still fits in one, 4080 the smallest that needs order 1;    *)
(* 9000 needs order 2.                                                     *)
(***************************************************************************)
EXTENDS Heap

MCMemMap ==
  << [base |-> 0, len |-> 1, type |-> 0],
     [base |-> 1, len |-> 3, type |-> 1],
     [base |-> 4, len |-> 4, type |-> 0] >>

MCSafeSizes == {4072, 4080, 9000}
MCAllSizes == {4072, 4076, 4080, 9000}
MCBoundarySizes == {4072, 4076}

====
