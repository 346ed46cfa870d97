SPECIFICATION Spec
CONSTANTS
  Projects <- MCProjects
  Edited = "u"
  Words <- MCWords
  Levels <- MCLevels
  Markers <- MCMarkers
  NewText <- MCNewText
  MaxEdits = 2
  MaxCommit = 2
  Tickets <- MCTickets
  Service <- MCService
  Teams = {"none", "PC", "pc"}
  ValidTeams = {"PC"}
  NoTeam = "none"
  BATCH_SIZE = 2
  MAX_IDENTIFIERS = 4
  MAX_ATTEMPTS = 3
  Audits <- MCAudits
  MaxAuditedEdits = 0
INVARIANTS
  OkMeansSameReading
  QueriesReachAlongPaths
  ReportsAreComplete
PROPERTIES
  NoSilentRebinding
  DriftIsForeseen
  AuditEnds
CHECK_DEADLOCK FALSE
