SPECIFICATION FairSpec
CONSTANTS
  Cont = {c1,c2}
  Table = {t1,t2}
  NoTable = NoTable
  Pinned = {c2}
  PinTable = t2
  Readable = TRUE
  Prompt = TRUE
  Links = {{t1},{t2}}
INVARIANTS TypeOK SharedKept NoLeftover
PROPERTIES Reconnected
