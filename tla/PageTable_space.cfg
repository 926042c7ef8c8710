CONSTANTS
  FrameBytes = 2
  Fanout = 2
  RamPage = 8
  RamPages = 14
  BootFrames <- MCBootFrames
  Stale <- MCStale
  CallPpns <- MCCallPpns
  CallVpns = {0, 3, 4}
  MapTypes = {1, 3}
  UnmapTypes = {1, 3}
  AllocVpns = {2, 5}
SPECIFICATION Spec
PROPERTY SpaceSpec
