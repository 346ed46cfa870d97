SPECIFICATION Spec
CONSTANTS
  p1 = p1  p2 = p2  main = main  helper = helper  d1 = d1  d2 = d2  d3 = d3
  Procs <- MCProcs
  Callers <- MCCallers
  Main = main
  Dirs <- MCDirs
  Resolved <- MCResolved
  None = None
  MaxMoves = 1
  MaxFaults = 1
  MaxKills = 1
SYMMETRY Symmetry
INVARIANTS
  LeaseIsExclusive
  PlansWithoutJournal
  OutcomesAreHonest
PROPERTIES
  LeasesBeginLocked
  JournalsAreProtected
CHECK_DEADLOCK FALSE
