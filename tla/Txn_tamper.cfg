SPECIFICATION Spec
CONSTANTS
  N = 2
  Bytes <- MCBytes
  Reconciled <- MCReconciled
  EditBytes <- AnyBytes
  Absent = Absent
  Torn = Torn
  None = None
  Foreign = Foreign
  User = User
  WindowEdits = TRUE
  MaxTxns = 1
  MaxFaults = 1
  MaxCrashes = 1
  MaxOutages = 0
  MaxEdits = 1
  MaxTampers = 1
  MaxRepairs = 1
INVARIANTS
  NoTornDestination
PROPERTIES
  LostEditsAreInTheWindow
