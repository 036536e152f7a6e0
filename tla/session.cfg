SPECIFICATION FairSpec
CONSTANTS
  MaxOut = 2
  NoCode = NoCode
INVARIANTS RelayInv NoOrphan
PROPERTIES SessionEnds
CHECK_DEADLOCK FALSE
