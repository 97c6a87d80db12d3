CONSTANTS
  MemMap <- MCMemMap
  Usable = 0
  MaxSupportedOrder = 2
  MaxBuddyArenas = 32
  RequestOrders = {0, 1, 2, 3}
  MaxHeld = 3
  Null = Null
SPECIFICATION Spec
INVARIANT TypeOK
INVARIANT NoDoubleAllocation
INVARIANT NoLeak
INVARIANT FreeListsWellFormed
PROPERTY RoundTrip
PROPERTY AllocatorRefinement
