SPECIFICATION PtyFairSpec
CONSTANTS
  Frame = 2
  WbufMax = 7
  High = 6
  Low = 3
  SockCap = 3
  TtyCap = 2
  Typed = 14
  Talk = 2
  NoMem = TRUE
INVARIANTS NeverWedged InputKept
PROPERTIES InputArrives
CHECK_DEADLOCK FALSE
