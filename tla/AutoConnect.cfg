SPECIFICATION Spec
CONSTANTS
  MaxConns = 3
  MaxErrors = 2
INVARIANTS
  TypeOK
  OneOwner
  NeverGivesUp
  OneSession
PROPERTIES
  ConnsReleased
  SessionEnds
