CONSTANTS
  FrameBytes = 2
  Fanout = 2
  RamPage = 8
  RamPages = 14
  BootFrames <- MCBootFrames
  Stale <- MCStale
  CallPpns <- MCCallPpns
  CallVpns = {0, 3, 4}
  MapTypes = {1, 2, 3}
  UnmapTypes = {1, 2, 3}
  AllocVpns = {2, 3, 5}
SPECIFICATION Spec
INVARIANT MegapageMapsItsAddress
