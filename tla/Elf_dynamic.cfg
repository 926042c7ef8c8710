CONSTANTS
  Files <- MCFiles
  HalfMod = 4
  MaxAddr = 9
  MaxInt = 9
  EhdrSize = 4
  PhdrSize = 2
  ShdrSize = 3
SPECIFICATION Spec
INVARIANT DynamicIsRecognised
CHECK_DEADLOCK FALSE
