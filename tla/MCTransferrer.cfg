SPECIFICATION Spec
CONSTANTS
  NumItems = 2
  Slots = 2
  Engines = {"classic", "crt"}
  Drivers = {"cp"}
  MaxFaults = 1
INVARIANTS
  TypeOK
  GracefulDrains
  ImmediateReachesAll
PROPERTIES
  OrderedIsCancelled
  LedgerSpec
  RunEnds
