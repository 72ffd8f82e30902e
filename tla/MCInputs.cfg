SPECIFICATION Spec
CONSTANTS
  HeaderLen = 2
  MaxLength = 6
  PipeCap = 6
  Lengths = {1, 2, 3, 4, 5, 6, 7}
  MaxMsgs = 3
  MaxFields = 5
INVARIANTS IDMapUsable  FramesArrive
CHECK_DEADLOCK FALSE
