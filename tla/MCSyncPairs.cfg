SPECIFICATION Spec
CONSTANTS
  NumPairs = 3
  Workers = 2
  Plans <- MCPlans
  MaxInterrupts = 1
INVARIANTS
  TypeOK
  GracefulAwaits
  AtMostOneLateStep
PROPERTIES
  LedgerSpec
  ImmediateEnds
