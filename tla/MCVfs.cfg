\* Open a file and then close it: is the dentry's count back where it was?
CONSTANTS
  d0 = d0  d1 = d1  d2 = d2  d3 = d3
  i0 = i0  i1 = i1  i2 = i2  i3 = i3
  a = a  b = b  slash = slash  fs1 = fs1
  Dot = Dot  DotDot = DotDot
  Null = Null  Hang = Hang
  Dentries <- MCDentries
  Files = {f1}
  Inodes <- MCInodes
  Names = {a, b}
  BucketOf <- MCBucketOf
  Buckets = {0, 1}
  FsChild <- MCFsChild
  IsDir <- MCIsDir
  Root = d0
  RootInode = i0
  RootName = slash
  Paths <- MCPaths
  Filesystems = {fs1}
  FsName <- MCFsName
SPECIFICATION Spec
INVARIANT DentryRefsMatchHolders
