SPECIFICATION Spec
CONSTANTS
  MaxInterrupts = 3
  Workers = {"engine", "scan"}
  Scans = {"scan"}
  MaxResults = 2
  QueueMax = 1
  MaxExpansions = 1
  Commands <- MCCommands
INVARIANTS
  TypeOK
  ExitCodeTrue
  ReportsAreTrue
PROPERTIES
  CommandEnds
