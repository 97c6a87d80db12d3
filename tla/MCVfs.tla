---- MODULE MCVfs ----
(* A filesystem with a directory a under the root, a file a inside it    *)
(* and a file b under the root; two buckets, with every "a" entry in     *)
(* bucket 0 (the hash of a name under different parents collides).       *)
EXTENDS Vfs

CONSTANTS d0, d1, d2, d3, i0, i1, i2, i3, a, b, slash, fs1

MCDentries == {d0, d1, d2, d3}
MCInodes == {i0, i1, i2, i3}
MCBucketOf(i, n) == IF n = a THEN 0 ELSE 1
MCFsChild == [p \in MCInodes \X {a, b} |->
               CASE p = <<i0, a>> -> i1
                 [] p = <<i1, a>> -> i2
                 [] p = <<i0, b>> -> i3
                 [] OTHER -> Null]
MCIsDir == [i \in MCInodes |-> i \in {i0, i1}]
MCPaths == {<<n>> : n \in {a, b, Dot, DotDot}} \cup
           {<<n, k>> : n \in {a, DotDot}, k \in {a, b, Dot}}
MCFsName == [fs \in {fs1} |-> slash]
====
