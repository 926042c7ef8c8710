CONSTANTS
  Files <- MCFiles
  HalfMod = 4
  MaxAddr = 9
  MaxInt = 9
  EhdrSize = 4
  PhdrSize = 2
  ShdrSize = 3
SPECIFICATION Spec
INVARIANTS
  TypeOKElf
  ReadsStayInFile
  SegmentsAreThoseToLoad
PROPERTY LoadElfReturns
CHECK_DEADLOCK FALSE
