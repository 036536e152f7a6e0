SPECIFICATION Spec
CONSTANTS
  Cli = {c1,c2}
  Monitor = {m1,m2}
  MaxBoot = 0
  NoLock = NoLock
  MaxInit = 2
  MaxUuid = 2
  Commands = {"start","stop","restart"}
  Img = TRUE
  Android = TRUE
  Preboot = TRUE
  Prompt = TRUE
  Serial = TRUE
  CanDie = TRUE
  NoMonitor = NoMonitor
INVARIANTS NameUnique
SYMMETRY CliSymmetry
CHECK_DEADLOCK FALSE
