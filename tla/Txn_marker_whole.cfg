SPECIFICATION Spec
CONSTANTS
  N = 2
  Bytes <- MCBytes
  Reconciled <- MCReconciled
  EditBytes <- AnyBytes
  Absent = Absent
  Torn = Torn
  None = None
  Foreign = Foreign
  User = User
  WindowEdits = FALSE
  MaxTxns = 1
  MaxFaults = 2
  MaxCrashes = 0
  MaxOutages = 1
  MaxEdits = 0
  MaxTampers = 0
  MaxRepairs = 0
INVARIANTS
  MarkerIsWhole
