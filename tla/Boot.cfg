CONSTANTS
  FrameBytes = 4
  Fanout = 4
  RamPage = 8
  RamPages = 16
  BootFrames <- MCBootFrames
  Stale <- MCStale
  CallPpns = {}
  CallVpns = {}
  MapTypes = {}
  UnmapTypes = {}
  AllocVpns = {}
  KernelPage = 8
  KernelPages = 3
  HighPage = 32
  WindowPage = 40
  Text = 0
  Stack = 1
  TrapStack = 1
  Global = 2
  UartPage = 4
  ClintPage = 6
  Locations <- MCLocations
  Rodata <- MCRodata
  Leftovers <- MCLeftovers
  TimerAtReset = {"armed", "fired", "never"}
  CounterMod = 4
SPECIFICATION SpecBoot
INVARIANTS
  TypeOKBoot
  BootNeverFaults
  BootedAddressSpace
  
  NoLowAddressIsLeft
PROPERTIES
  TrapsAreTransparent
  BootFollowsPlan
  MainLoopRuns
