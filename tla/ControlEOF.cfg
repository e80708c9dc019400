SPECIFICATION Spec
CONSTANTS
  Codes = {1000}
  MaxPing = 1
  MaxFrames = 2
  MaxSends = 0
INVARIANT
  EOFOnlyWhole
