SPECIFICATION FairSpec
CONSTANTS
  Viewers = {v1}
  Conns = {k1, k2}
  PageSize = 2
  Buffer = 1
  Starts = {"accepting"}
  MaxEvents = 3
  MaxFaults = 1
  MaxCommands = 1
CHECK_DEADLOCK FALSE
PROPERTIES
  CatchesUp
