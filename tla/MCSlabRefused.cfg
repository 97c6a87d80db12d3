\* Can kfree reject a live object as a double free?
CONSTANTS
  p1 = p1
  p2 = p2
  p3 = p3
  SlabIds <- MCSlabIds
  ObjectSize = 2048
  SlabHeaderSize = 48
  PageFrameSize = 4096
  SlabSizes <- MCSlabSizes
  SlabThreshold = 2048
  Requests = {1025, 2048}
SPECIFICATION Spec
SYMMETRY MCSymmetry
INVARIANT LiveFreeAccepted
