SPECIFICATION Spec
CONSTANTS
  NumOfThreads = 3
  Threads = {1, 2, 3}
  JoinUnknown = {"error", "crash"}
INVARIANTS
  FailureIsReported
CHECK_DEADLOCK FALSE
