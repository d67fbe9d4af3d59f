SPECIFICATION FairSpec
CONSTANTS
  a = a
  b = b
  c = c
  v = v
  w = w
  NULL = NULL
  Asks = {a, b}
  Waiters = {v, w}
  WaitsFor <- MCWaitsForBoth
  Retried = {w}
  Mutable = {a}
  Outcomes = {"reply", "nomem", "unknown", "crash", "terminated"}
  Capacity = 2
INVARIANTS RefsCover ReadsSettled CrashFailsPending
PROPERTIES AskIsAnswered WaitEnds
CHECK_DEADLOCK FALSE
