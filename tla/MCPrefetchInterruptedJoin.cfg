SPECIFICATION SafeSpec
CONSTANTS
  NumPages = 2
  QueueSizes <- const_QueueSizes
  MaxInterrupts = 2
INVARIANTS
  NoWorkerWhenReusable
