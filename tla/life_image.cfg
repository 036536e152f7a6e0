SPECIFICATION Spec
CONSTANTS
  Cli = {c1,c2,c3}
  Monitor = {m1,m2}
  MaxBoot = 0
  NoLock = NoLock
  MaxInit = 4
  MaxUuid = 2
  Commands = {"start","stop","restart"}
  Img = TRUE
  Android = TRUE
  Preboot = FALSE
  Prompt = TRUE
  Serial = TRUE
  CanDie = FALSE
  NoMonitor = NoMonitor
INVARIANTS LifecycleInv NothingLeft StopWorks NameUnique
PROPERTIES MountKept
SYMMETRY CliSymmetry
CHECK_DEADLOCK FALSE
