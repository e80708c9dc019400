SPECIFICATION Spec
CONSTANTS
  Len7 = 125
  Len16 = 65535
  Lengths = {0, 1, 8, 19, 125, 126, 65535, 65536, 2147483647}
  MaxPayload = 19
  TextBytes = {0, 127, 128, 143, 144, 159, 160, 191, 192, 193, 194, 223, 224,
               225, 236, 237, 238, 239, 240, 241, 243, 244, 245, 255}
CHECK_DEADLOCK FALSE
INVARIANTS
  FramesSurvive
  TextJudged
