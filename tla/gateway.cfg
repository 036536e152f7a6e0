\* Two clients and their gateway, each booting twice.
CONSTANTS
  Client = {c1, c2}
  Router = gw
  Nobody = nobody
  MaxBoot = 2
  MaxLapse = 1
  Modes = {"calm", "faults", "lapses"}
SPECIFICATION FairSpec
INVARIANTS ClientsConnected BridgesExact
PROPERTIES EverybodySettles
CHECK_DEADLOCK FALSE
