SPECIFICATION HistoryFairSpec
CONSTANTS
  Cli = {c1, c2}
  Monitor = {m1}
  MaxBoot = 1
  NoLock = NoLock
INVARIANTS NoStrandedLock LockExclusion
PROPERTIES LoneAcquireSucceeds
CHECK_DEADLOCK FALSE
