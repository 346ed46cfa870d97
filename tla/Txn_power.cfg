SPECIFICATION Spec
CONSTANTS
  N = 2
  Bytes <- MCBytes
  Reconciled <- MCReconciled
  EditBytes <- AnyBytes
  Absent = Absent
  Torn = Torn
  None = None
  Foreign = Foreign
  User = User
  WindowEdits = FALSE
  MaxTxns = 1
  MaxFaults = 1
  MaxCrashes = 1
  MaxOutages = 2
  MaxEdits = 1
  MaxTampers = 0
  MaxRepairs = 0
INVARIANTS
  IInv
  DurableAuthority
  SuccessIsDurable
PROPERTIES
  JournalGoesLast
  PointOfNoReturn
