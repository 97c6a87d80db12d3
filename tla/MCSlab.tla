---- MODULE MCSlab ----
(* The 2048-byte cache: (8192 - 48) / 2048 = 3 objects per slab.  Three   *)
(* page pairs let three slabs exist, the least for shrink to destroy one. *)
EXTENDS Slab, TLC

CONSTANTS p1, p2, p3

MCSlabIds == {p1, p2, p3}

(* slab_sizes[] of slab_allocator.c.  The requests, 1025 and 2048, are    *)
(* the smallest and largest sizes slab_alloc_size gives the 2048 cache.   *)
MCSlabSizes == <<16, 32, 64, 128, 256, 512, 1024, 2048>>

(* Page pairs are interchangeable: nothing depends on which one the buddy *)
(* hands out.                                                            *)
MCSymmetry == Permutations(MCSlabIds)

====
