SPECIFICATION Spec
CONSTANTS
  SkipsControl = FALSE
  ExtFails = TRUE
  MaxLength = 2
  MaxFrames = 3
INVARIANTS
  TypeOK
  Aligned
  EOFComplete
  NothingHeldBack
  OnlyValidText
  InvalidIsInvalid
  StartsClean
