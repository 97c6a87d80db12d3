---- MODULE Vfs ----
(***************************************************************************)
(* Dentries, the dentry hash cache and the open path of the VFS:          *)
(*   src/kernel/kernel/filesystems/dentry_cache.c  (dcache_add, _remove,   *)
(*                                                  _lookup)               *)
(*   src/kernel/kernel/filesystems/vfs.c           (alloc_dentry,          *)
(*     instantiate_dentry, free_dentry, path_walk, vfs_open, vfs_close)   *)
(*                                                                         *)
(* The hash table is kept as the code keeps it: a head pointer per bucket *)
(* and a d_hash_next pointer per dentry, so a dentry added twice makes a  *)
(* cycle and a dentry unlinked by mistake stays reachable.  The Jenkins   *)
(* hash is abstracted to the bucket it yields: BucketOf(parent inode,     *)
(* name).  A walk of a chain that visits more nodes than there are        *)
(* dentry objects is in a cycle: the call never returns (Hang), and the   *)
(* operation that made it is modelled as never completing.                *)
(*                                                                         *)
(* No filesystem is implemented under src/: the i_ops->lookup that        *)
(* path_walk calls on a cache miss is the environment.  It answers from a *)
(* fixed tree of inodes (FsChild) by building the dentry with alloc_dentry *)
(* and instantiate_dentry, the only dentry constructor the VFS has.  The  *)
(* caller's working directory is given (root_dentry is never set, so a    *)
(* walk from it dereferences NULL).  Paths are sequences of tokens; empty *)
(* tokens, which kstrtok_r returns for "//" and path_walk skips, are left *)
(* out.  Every operation runs to completion on one CPU with no lock: the  *)
(* VFS takes none, so each is one step.                                    *)
(***************************************************************************)
EXTENDS Integers, Sequences, FiniteSets

CONSTANTS
  Dentries,        \* dentry objects kmalloc can return
  Files,           \* struct file objects kmalloc can return
  Inodes,          \* inodes of the filesystem
  Names,           \* token names
  Dot, DotDot,     \* the tokens "." and ".."
  BucketOf(_, _),  \* dentry_ht_bucket: hash(parent inode, name) % DENTRY_HASH_SIZE
  Buckets,         \* 0 .. DENTRY_HASH_SIZE - 1
  FsChild,         \* i_ops->lookup: [Inodes \X Names -> Inodes \cup {Null}]
  IsDir,           \* IS_DIRECTORY(inode->mode)
  Root, RootInode, RootName,  \* the dentry the working directory starts at
  Paths,           \* token sequences passed to vfs_open
  Filesystems,     \* struct filesystem objects drivers register
  FsName,          \* fs->name
  Null, Hang

VARIABLES
  alive,        \* dentries allocated and not freed
  d_name, d_parent, d_inode, d_refcount, d_hash_next,
  hash_table,   \* dentry_hash_table
  i_refcount,   \* inode->refcount
  file,         \* file[f]: the dentry of open file f, Null when f is free
  registered_fs,\* head of the registered filesystem list
  fs_next       \* fs->next

vars == <<alive, d_name, d_parent, d_inode, d_refcount, d_hash_next,
          hash_table, i_refcount, file, registered_fs, fs_next>>
fsvars == <<registered_fs, fs_next>>

(* The VFS state as a record, threaded through the helpers below. *)
Mem == [alive |-> alive, name |-> d_name, parent |-> d_parent,
        inode |-> d_inode, ref |-> d_refcount, next |-> d_hash_next,
        table |-> hash_table, iref |-> i_refcount]

SetMem(m) ==
  /\ alive' = m.alive /\ d_name' = m.name /\ d_parent' = m.parent
  /\ d_inode' = m.inode /\ d_refcount' = m.ref /\ d_hash_next' = m.next
  /\ hash_table' = m.table /\ i_refcount' = m.iref

(* dentry_ht_bucket(parent, name): the parent's inode number, 0 for none. *)
Bucket(m, p, n) == BucketOf(IF p = Null THEN Null ELSE m.inode[p], n)

(* dcache_add: link the entry at the head of its bucket. *)
DcacheAdd(m, e) ==
  LET b == Bucket(m, m.parent[e], m.name[e]) IN
  [m EXCEPT !.next[e] = m.table[b], !.table[b] = e]

(* The chain walk of dcache_lookup: the first node whose name is n       *)
(* (strcmp only: the parent is not compared).                            *)
RECURSIVE Find(_, _, _, _)
Find(m, x, n, fuel) ==
  IF x = Null THEN Null
  ELSE IF fuel = 0 THEN Hang
  ELSE IF m.name[x] = n THEN x
  ELSE Find(m, m.next[x], n, fuel - 1)

DcacheLookup(m, p, n) ==
  Find(m, m.table[Bucket(m, p, n)], n, Cardinality(Dentries))

(* The pointer-to-pointer walk of dcache_remove: unlink the first node   *)
(* whose name equals the entry's, whichever dentry that is.              *)
RECURSIVE Unlink(_, _, _, _, _, _)
Unlink(m, b, prev, x, n, fuel) ==
  IF x = Null THEN m
  ELSE IF fuel = 0 THEN Hang
  ELSE IF m.name[x] = n
       THEN IF prev = Null THEN [m EXCEPT !.table[b] = m.next[x]]
            ELSE [m EXCEPT !.next[prev] = m.next[x]]
  ELSE Unlink(m, b, x, m.next[x], n, fuel - 1)

DcacheRemove(m, e) ==
  LET b == Bucket(m, m.parent[e], m.name[e]) IN
  Unlink(m, b, Null, m.table[b], m.name[e], Cardinality(Dentries))

(* d->refcount += k *)
Ref(m, d, k) == [m EXCEPT !.ref[d] = @ + k]

(* alloc_dentry(parent, name): kmalloc (NULL when no object is free),    *)
(* refcount 1, no inode yet, dcache_add.  The sibling list is not kept:  *)
(* nothing in the VFS reads it.                                          *)
AllocDentry(m, p, n) ==
  IF Dentries \subseteq m.alive THEN [m |-> m, d |-> Null]
  ELSE LET d == CHOOSE x \in Dentries : x \notin m.alive
           m2 == [m EXCEPT !.alive = @ \cup {d}, !.name[d] = n,
                           !.parent[d] = p, !.inode[d] = Null, !.ref[d] = 1]
       IN [m |-> DcacheAdd(m2, d), d |-> d]

(* instantiate_dentry(entry, inode): entry->inode = inode, refcount++. *)
Instantiate(m, d, i) == [m EXCEPT !.inode[d] = i, !.iref[i] = @ + 1]

(* parent->inode->i_ops->lookup(parent->inode, name), the environment:   *)
(* NULL when the directory has no such entry or allocation fails.        *)
FsLookup(m, p, n) ==
  LET i == FsChild[m.inode[p], n]
      a == AllocDentry(m, p, n)
  IN IF i = Null \/ a.d = Null THEN [m |-> m, d |-> Null]
     ELSE [m |-> Instantiate(a.m, a.d, i), d |-> a.d]

(* The token loop of path_walk from parent, which holds a reference the  *)
(* loop moves along: "." is skipped; ".." moves to the parent (the root  *)
(* stays); a name is looked up in the cache, and on a miss through the   *)
(* filesystem and dcache_add'ed; the last token is returned with a       *)
(* reference of its own; every other token must be a directory.  The     *)
(* result d is the dentry returned, Null for NULL, Hang for a lookup     *)
(* that never returns.                                                    *)
RECURSIVE Walk(_, _, _)
Walk(m, parent, toks) ==
  IF toks = <<>> THEN [m |-> m, d |-> parent]
  ELSE LET t == Head(toks)
           rest == Tail(toks)
       IN IF t = Dot THEN Walk(m, parent, rest)
          ELSE IF t = DotDot
          THEN LET prev == IF m.parent[parent] # Null THEN m.parent[parent] ELSE parent
               IN Walk(Ref(Ref(m, prev, 1), parent, -1), prev, rest)
          ELSE LET c == DcacheLookup(m, parent, t)
                   l == IF c = Null
                        THEN LET fl == FsLookup(m, parent, t)
                             IN IF fl.d = Null THEN fl
                                ELSE [m |-> DcacheAdd(fl.m, fl.d), d |-> fl.d]
                        ELSE [m |-> m, d |-> c]
               IN IF c = Hang THEN [m |-> m, d |-> Hang]
                  ELSE IF l.d = Null THEN [m |-> Ref(l.m, parent, -1), d |-> Null]
                  ELSE IF rest = <<>>
                       THEN [m |-> Ref(Ref(l.m, parent, -1), l.d, 1), d |-> l.d]
                  ELSE IF ~IsDir[l.m.inode[l.d]]
                       THEN [m |-> Ref(l.m, parent, -1), d |-> Null]
                  ELSE Walk(Ref(Ref(l.m, parent, -1), l.d, 1), l.d, rest)

(* path_walk(path, wd): the working directory's reference is taken       *)
(* (parent->refcount++) and the token loop run from it.  The whole-path  *)
(* "." and ".." cases return the same dentry with the same counts; a     *)
(* leading "/" is skipped and the walk still starts at wd.               *)
PathWalk(m, wd, path) == Walk(Ref(m, wd, 1), wd, path)

Init ==
  /\ alive = {Root}
  /\ d_name = [d \in Dentries |-> IF d = Root THEN RootName ELSE Null]
  /\ d_parent = [d \in Dentries |-> Null]
  /\ d_inode = [d \in Dentries |-> IF d = Root THEN RootInode ELSE Null]
  /\ d_refcount = [d \in Dentries |-> IF d = Root THEN 1 ELSE 0]
  /\ d_hash_next = [d \in Dentries |-> Null]
  /\ hash_table = [b \in Buckets |-> IF b = BucketOf(Null, RootName) THEN Root ELSE Null]
  /\ i_refcount = [i \in Inodes |-> IF i = RootInode THEN 1 ELSE 0]
  /\ file = [f \in Files |-> Null]
  /\ registered_fs = Null
  /\ fs_next = [fs \in Filesystems |-> Null]

----
(* vfs_open(path, wd, flags, &f): path_walk (ENOENT on NULL); EISDIR     *)
(* unless the dentry is a directory; kmalloc the file (ENOMEM); take a   *)
(* reference on the dentry and on the inode; f_ops->open, which may fail *)
(* (both references dropped, the file freed).  The reference path_walk  *)
(* returned is kept on every path.                                       *)
vfs_open(wd, path) ==
  LET r == PathWalk(Mem, wd, path)
      d == r.d
  IN /\ d # Hang
     /\ UNCHANGED fsvars
     /\ IF d = Null \/ ~IsDir[r.m.inode[d]] \/ \A f \in Files : file[f] # Null
        THEN SetMem(r.m) /\ UNCHANGED file
        ELSE LET f == CHOOSE x \in Files : file[x] = Null
                 held == [Ref(r.m, d, 1) EXCEPT !.iref[r.m.inode[d]] = @ + 1]
             IN \/ SetMem(held) /\ file' = [file EXCEPT ![f] = d]
                \/ SetMem(r.m) /\ UNCHANGED file

(* vfs_close(f): f_ops->close, drop the dentry's and the inode's         *)
(* reference, kfree the file.                                            *)
vfs_close(f) ==
  /\ file[f] # Null
  /\ SetMem([Ref(Mem, file[f], -1) EXCEPT !.iref[d_inode[file[f]]] = @ - 1])
  /\ file' = [file EXCEPT ![f] = Null]
  /\ UNCHANGED fsvars

(* free_dentry(d), by a caller that no longer uses d and has freed its   *)
(* children: a refcount other than 0 is only logged; drop the inode's    *)
(* reference, dcache_remove, kfree.  The node stays on its parent's      *)
(* children list.                                                         *)
free_dentry(d) ==
  LET m1 == IF d_inode[d] = Null THEN Mem ELSE [Mem EXCEPT !.iref[d_inode[d]] = @ - 1]
      m2 == DcacheRemove(m1, d)
  IN /\ d \in alive \ {Root}
     /\ \A f \in Files : file[f] # d
     /\ \A c \in alive : d_parent[c] # d
     /\ m2 # Hang
     /\ SetMem([m2 EXCEPT !.alive = @ \ {d}])
     /\ UNCHANGED <<file, registered_fs, fs_next>>

(* register_filesystem(fs): push fs on the list (fs->next = head).  A   *)
(* filesystem registered twice points to itself.                          *)
register_filesystem(fs) ==
  /\ fs_next' = [fs_next EXCEPT ![fs] = registered_fs]
  /\ registered_fs' = fs
  /\ UNCHANGED <<alive, d_name, d_parent, d_inode, d_refcount, d_hash_next,
                 hash_table, i_refcount, file>>

(* find_filesystem(name): the first filesystem on the list with that     *)
(* name, Null if none, Hang if the list walk never ends.                 *)
RECURSIVE FindFs(_, _, _)
FindFs(x, n, fuel) ==
  IF x = Null THEN Null
  ELSE IF fuel = 0 THEN Hang
  ELSE IF FsName[x] = n THEN x
  ELSE FindFs(fs_next[x], n, fuel - 1)

find_filesystem(n) == FindFs(registered_fs, n, Cardinality(Filesystems))

Next ==
  \/ \E wd \in alive, p \in Paths : IsDir[d_inode[wd]] /\ vfs_open(wd, p)
  \/ \E f \in Files : vfs_close(f)
  \/ \E d \in Dentries : free_dentry(d)
  \/ \E fs \in Filesystems : register_filesystem(fs)

Spec == Init /\ [][Next]_vars

----
(* Properties                                                              *)
----

TypeOK ==
  /\ alive \subseteq Dentries /\ Root \in alive
  /\ d_refcount \in [Dentries -> Int]
  /\ hash_table \in [Buckets -> Dentries \cup {Null}]
  /\ d_hash_next \in [Dentries -> Dentries \cup {Null}]
  /\ file \in [Files -> Dentries \cup {Null}]

(* Dentry reference counts match their holders: a live dentry has the   *)
(* reference alloc_dentry gave it plus one per open file on it.  path_walk *)
(* hands vfs_open a counted reference and vfs_open takes another for the  *)
(* file, while vfs_close drops one.                                       *)
DentryRefsMatchHolders ==
  \A d \in alive : d_refcount[d] = 1 + Cardinality({f \in Files : file[f] = d})

====
