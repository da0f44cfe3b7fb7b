SPECIFICATION Spec
CONSTANTS
  NumPages = 4
  QueueSizes <- const_QueueSizes
  MaxInterrupts = 2
INVARIANTS
  TypeOK
  AtMostOneLatePage
  NoSurvivingWorker
PROPERTIES
  StreamSpec
  PullAnswered
  ExitCompletes
