SPECIFICATION Spec
CONSTANT MaxIO = 3
PROPERTY TimeoutBoundsDial
