CONSTANTS
  Actors = {a1}
  Workers = {w1, w2}
  Senders = {s1, s2, s3}
  Killable = {a1}
  Capacity = 2
  DequeCap = 2
  Outcomes <- All
  Stoppable = TRUE
  MaxSends = 1
  NULL = NULL
SPECIFICATION Spec
SYMMETRY Symmetry
CHECK_DEADLOCK FALSE
INVARIANTS RunnableOnce RefsExact NoUseAfterFree NoStrandedMail
