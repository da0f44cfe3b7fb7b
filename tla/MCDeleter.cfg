SPECIFICATION Spec
CONSTANTS
  k1 = k1
  k2 = k2
  k3 = k3
  NumEntries = 3
  Keys = {k1, k2, k3}
  KeyMaps <- const_KeyMaps
  Postures <- const_Postures
  Raisable = {"raised"}
  Batchable = {k1, k2}
  BatchSize = 2
  Concurrency = 2
  MaxFaults = 1
INVARIANTS
  TypeOK
  RecordsInOrder
  ClosedAccountsForAll
  WorkerErrorSurfacesOnce
PROPERTIES
  LedgerSpec
  CallsReturn
