SPECIFICATION Spec
CONSTANTS
  f1 = f1
  f2 = f2
  f3 = f3
  r1 = r1
  r2 = r2
  r3 = r3
  Processes = {p1, p2}
  Roots = {r1, r2, r3}
  NumKeys = 2
  Files = {f1, f2, f3}
  Bytes = {"x", "y", "bad"}
  Facts <- MCFacts
  Parse <- MCParse
  Malformed = "malformed"
  None = None
  InitialPath <- MCPath
  InitialBytes <- MCBytes0
  cache_trust_stat = TRUE
  MAX_STAT_ROOTS = 2
  MaxCommands = 3
  MaxEvents = 1
INVARIANTS
  ClaimsAreSound
  SlotIsTidy
PROPERTIES
  SavesKeepTheSlotWarm
  ImplementsUncachedLoad
SYMMETRY Interchangeable
CHECK_DEADLOCK FALSE
