SPECIFICATION Spec
CONSTANT MaxIO = 3
INVARIANTS
  TypeOK
  ReturnedUsable
  ErrorNamesCause
  HelperEnds
PROPERTY DialEnds
