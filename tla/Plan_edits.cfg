SPECIFICATION Spec
CONSTANTS
  Paths <- MCPaths
  Manifests = {m}
  ManifestFiles = {m, copy}
  Refs <- MCRefs
  TargetOf <- MCTargetOf
  Ambiguous = {"clash"}
  NoId = ""
  None = "None"
  Outside = Outside
  Projects <- MCProjects
  Selections <- MCSelections
  MaxRuns = 1
  MaxEdits = 1
PROPERTIES
  OnlySelectedEdges
  QuietRunsSettle
  ReportIsTrue
CHECK_DEADLOCK FALSE
