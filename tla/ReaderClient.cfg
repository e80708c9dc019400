SPECIFICATION Spec
CONSTANTS
  SkipsControl = TRUE
  ExtFails = TRUE
  MaxLength = 2
  MaxFrames = 3
INVARIANT Aligned
