SPECIFICATION Spec
CONSTANTS
  MaxConns = 3
  MaxErrors = 2
PROPERTY DontConnect
