CONSTANTS
  NumKeys = 3
  Plans <- MCPlans
SPECIFICATION Spec
INVARIANTS
  TypeOK
  LandedStays
  AllAccounted
PROPERTIES
  ConflictIsReal
