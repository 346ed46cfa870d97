SPECIFICATION Spec
CONSTANTS
  Markdown <- MCMarkdown
  Order <- MCOrder
  Projects <- MCProjects
  MaxEdits = 2
INVARIANTS
  WalkFindsWhatIsThere
  CoverageIsWhole
  OneOwner
  IntentIsNeverSilent
  VerdictsAreTrue
  EverySourceIsChecked
CHECK_DEADLOCK FALSE
