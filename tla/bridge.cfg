SPECIFICATION FairSpec
CONSTANTS
  Writer = {"bridge", "start", "monitor"}
  Cap = 2
  Retain = 1
  MaxEvent = 4
  MaxTime = 1
  Hex <- MCHex
  Name <- MCName
  Uuids <- MCUuids
  FirstCap = 1
  MaxRec = 3
  MaxPoll = 4
  MaxRestart = 1
  Topics = {"list", "ref", "events", "log"}
INVARIANTS ListExact
PROPERTIES HistorySpec AnswerTrue NothingMissed EveryRequestEnds
