CONSTANTS
  Levels = 3
  Slots = 2
  Word = 10
  Names = {"cpu", "memory", "device"}
  CellCounts = {0, 2}
  Garbage = {1}
  RegValues <- MCRegValues
  Beyond <- MCBeyond
  MaxNodes = 4
SPECIFICATION Spec
INVARIANTS
  TypeOK
  CellsFollowTheTree
  RegionsAreThoseOfTheTree
PROPERTY RecordedRegionsStay
CHECK_DEADLOCK FALSE
