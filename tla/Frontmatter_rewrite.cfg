SPECIFICATION Spec
CONSTANTS
  Refs <- MCRefs
  Hashes <- MCHashes
  Dashes = "dd"
  Names = {"a"}
  NoName = "no name"
  Absent = "absent"
  Null = "null"
  Templates <- MCTemplates
  Entry <- MCEntry
  More <- MCMore
  Tails <- MCTails
  Selections <- MCSelections
INVARIANTS
  RefusalsAreExplained
PROPERTIES
  RewriteIsExact
CHECK_DEADLOCK FALSE
