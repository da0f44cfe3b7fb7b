SPECIFICATION SafeSpec
CONSTANTS
  NumItems = 2
  Slots = 1
  Engines = {"classic", "crt"}
  Drivers = {"sync"}
  MaxFaults = 0
INVARIANTS
  ImmediateReachesAll
