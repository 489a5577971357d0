SPECIFICATION Spec
CONSTANTS
  Threads = {t1, t2}
  Exprs = {e1, e2}
  Malformed = {e2}
  Urls = {u1}
  Answers = {v1, v2}
  Clients = {t1}
  MaxCalls = 2
  NULL = NULL
INVARIANTS
  AnswerSettles
  LockIsHeld
  CompiledOncePerThread
PROPERTIES
  EvaluationReturns
CHECK_DEADLOCK FALSE
