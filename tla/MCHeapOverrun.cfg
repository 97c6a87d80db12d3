CONSTANTS
  MemMap <- MCMemMap
  Usable = 0
  MaxSupportedOrder = 2
  MaxBuddyArenas = 32
  Null = Null
  PageFrameSize = 4096
  HeaderSize = 16
  TrailerReserve = 4
  TrailerWidth = 8
  SlabThreshold = 2048
  Sizes <- MCBoundarySizes
  FreeAfterReuse = FALSE
SPECIFICATION Spec
INVARIANT HeaderIntact
