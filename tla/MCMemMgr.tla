---- MODULE MCMemMgr ----
(* The page-table bounds of MCVmm; the heap starts at page 2 and grows   *)
(* two pages at a time up to the end of the user half; one heap chunk.   *)
EXTENDS MemMgr

MCTablePool == 1 .. 4

====
