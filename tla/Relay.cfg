SPECIFICATION FairSpec
CONSTANTS
  Modes = {"tcp", "raw", "fast"}
  FrameSizes = {2}
  MaxPieces = 3
  Idle = 1
CHECK_DEADLOCK FALSE
INVARIANTS NothingLeftRunning EndComesLast
PROPERTIES HalfCloseRespected ReapsOnlyIdle RelayEnds
