CONSTANTS
  c1 = c1
  c2 = c2
  f1 = f1
  f2 = f2
  f3 = f3
  Null = Null
  Cores <- MCCores
  FrameIds <- MCFrameIds
  InitList <- MCInitList
SPECIFICATION Spec
INVARIANT NoDoubleAllocation
