SPECIFICATION Spec
CONSTANTS
  Codes = {999, 1000, 1004, 1005, 1011, 1012, 3000}
  MaxPing = 2
  MaxFrames = 3
  MaxSends = 2
INVARIANTS
  PongsEchoPings
  WholeFrames
  CloseAnswered
