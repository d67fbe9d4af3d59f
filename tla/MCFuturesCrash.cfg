SPECIFICATION Spec
CONSTANTS
  a = a
  b = b
  c = c
  v = v
  w = w
  NULL = NULL
  Asks = {a, b, c}
  Waiters = {}
  WaitsFor <- MCNobody
  Retried = {}
  Mutable = {a}
  Outcomes = {"reply", "crash"}
  Capacity = 2
INVARIANTS DrainedIsSettled
CHECK_DEADLOCK FALSE
