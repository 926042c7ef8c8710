CONSTANTS
  FrameBytes = 4
  MaxHeld = 3
  KernelStart <- MCKernelStart
  KernelEnd <- MCKernelEnd
  Boards <- MCBoards
SPECIFICATION Spec
INVARIANTS
  TypeOK
  MemoryInUseIsAllocated
  LostFramesAreHigh
PROPERTIES
  SpillsPastRamOnlyWhenFull
  PoolSpec
