SPECIFICATION Spec
CONSTANTS
  MainApp = a1
  Apps = {a1}
  Workers = {w1}
  Procs = {p1, p2}
  Docs = {d1, d2}
  PoolFirst = FALSE
  NULL = NULL
INVARIANTS
  NoUnknownThread
CHECK_DEADLOCK FALSE
