SPECIFICATION RSpec
CONSTANTS
  N = 2
  Bytes <- MCBytes
  Reconciled <- MCReconciled
  EditBytes <- AnyBytes
  Absent = Absent
  Torn = Torn
  None = None
  Foreign = Foreign
  User = User
  WindowEdits = FALSE
  MaxTxns = 1
  MaxFaults = 1
  MaxCrashes = 1
  MaxOutages = 0
  MaxEdits = 2
  MaxTampers = 0
  MaxRepairs = 0
PROPERTIES
  EvidenceOutlivesDoubt
  EditsArePreserved
  RepairFromBeforeFinishes
