SPECIFICATION Spec
CONSTANTS
  Viewers = {v1}
  Conns = {k1, k2}
  PageSize = 2
  Buffer = 1
  Starts = {"none"}
  MaxEvents = 2
  MaxFaults = 1
  MaxCommands = 1
SYMMETRY Symmetry
CHECK_DEADLOCK FALSE
INVARIANTS
  OpenStreamHoldsName
