SPECIFICATION Spec
CONSTANTS
  Len7 = 1
  Len16 = 3
  DataOps = {"text"}
  OpContinuation = "continuation"
  Sides = {FALSE, TRUE}
  RawSizes = {3, 5, 7, 11}
  PowersOfTwo <- MCPowers
  Exts = {FALSE, TRUE}
  DestFails = TRUE
  SrcFails = TRUE
  MaxArg = 3
  MaxBytes = 4
  MaxFrames = 2
INVARIANTS
  TypeOK
  HeaderRoom
  Protocol
  TornFrameLast
PROPERTIES
  NoFragments
  ErrorIsFinal
  StreamSpec
  WriteReturns
