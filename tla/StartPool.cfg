SPECIFICATION Spec
CONSTANTS
  NumOfThreads = 3
  Threads = {1, 2, 3}
  JoinUnknown = {"error"}
INVARIANTS
  QueueOutlivesWorkers
PROPERTIES
  StopReturns
CHECK_DEADLOCK FALSE
