SPECIFICATION Spec
CONSTANTS
  r1 = r1
  r2 = r2
  c1 = c1
  c2 = c2
  Threads = {t1, t2}
  Callers = {r1, r2}
  Inner = {c3, c4, c5}
  Contexts <- MCContexts
  RootOf <- MCRootOf
  stop_task = stop_task
  NULL = NULL
  MaxLost = 0
SYMMETRY Symmetry
INVARIANTS
  CounterCountsTasks
  JoinIsComplete
  BlockedIsExact
  NoSleepOnWork
  NothingDropped
  UncountedStaysOnThread
  EachTaskRunsOnce
PROPERTIES
  RunSpec
