SPECIFICATION Spec
CONSTANTS
  Items <- MCItems
  Sizes = {0, 1, 4}
  MaxChunk = 2
  MaxTries = 3
  MaxFaults = 2
INVARIANT RolledBackKeepsSource
