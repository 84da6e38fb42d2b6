SPECIFICATION Spec
CONSTANTS
  Viewers = {v1}
  Conns = {k1, k2}
  PageSize = 2
  Buffer = 1
  Starts = {"accepting", "revealed"}
  MaxEvents = 3
  MaxFaults = 1
  MaxCommands = 1
SYMMETRY Symmetry
CHECK_DEADLOCK FALSE
INVARIANTS
  NothingLost
  ShownIsNewestHeard
  ResultsStayPrivate
PROPERTIES
  CommandShowsItsResult
  NeverGoesBack
