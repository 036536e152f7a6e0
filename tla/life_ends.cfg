SPECIFICATION FairSpec
CONSTANTS
  Cli = {c1}
  Monitor = {m1,m2}
  MaxBoot = 1
  NoLock = NoLock
  MaxInit = 2
  MaxUuid = 2
  Commands = {"start","stop","restart"}
  Img = FALSE
  Android = FALSE
  Preboot = TRUE
  Prompt = FALSE
  Serial = FALSE
  CanDie = TRUE
  NoMonitor = NoMonitor
PROPERTIES CommandsEnd
CHECK_DEADLOCK FALSE
