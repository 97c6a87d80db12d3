CONSTANTS
  Fan = 2
  TablePool <- MCTablePool
  KernelPml4 = 10
  KernelPdp = 11
  MaxRange = 2
  MaxOthers = 4
  MaxEnvFrames = 1
  Phys = {20}
  HeapStart = 2
  GrowPages = 2
  HeapChunks = {40, 50}
  MaxBrk = 8
SPECIFICATION MMSpec
INVARIANT TypeOK
INVARIANT TablesAccounted
INVARIANT MappingsAsRequested
INVARIANT TotalPagesCount
INVARIANT KernelHalfIntact
