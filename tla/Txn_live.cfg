SPECIFICATION FairSpec
CONSTANTS
  N = 2
  Bytes <- MCBytes
  Reconciled <- MCReconciled
  EditBytes <- OwnBytes
  Absent = Absent
  Torn = Torn
  None = None
  Foreign = Foreign
  User = User
  WindowEdits = FALSE
  MaxTxns = 2
  MaxFaults = 2
  MaxCrashes = 1
  MaxOutages = 0
  MaxEdits = 1
  MaxTampers = 0
  MaxRepairs = 0
INVARIANTS
  MarkerIsWhole
PROPERTIES
  IncompleteIsIdempotent
  JournalIsRecovered
  ImplementsAtomicBatch
