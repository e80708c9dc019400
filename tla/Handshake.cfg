SPECIFICATION Spec
CONSTANTS
  Protocols = {p1, p2}
  Extensions = {e1}
  Nonces = {n1}
  NoProtocol = none
  MaxValues = 2
  MaxHeaders = 7
SYMMETRY Symmetry
INVARIANTS
  TypeOK
  VerdictFitsRequest
  UpgradersAgree
  EndsAgree
  OnlyValidAccepted
  FramesKept
CHECK_DEADLOCK FALSE
