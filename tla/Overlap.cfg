SPECIFICATION Spec
CONSTANTS
  MainApp = a1
  Apps = {a1, a2}
  Workers = {w1}
  Procs = {p1, p2}
  Docs = {d1, d2}
  PoolFirst = TRUE
  NULL = NULL
INVARIANTS
  PoolOffIsTemporary
CHECK_DEADLOCK FALSE
