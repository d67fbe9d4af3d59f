SPECIFICATION FairSpec
CONSTANTS
  m = m
  p = p
  x = x
  y = y
  NULL = NULL
  Slots = {m, p, x, y}
  MidSlot = m
  Under <- MCUnder
  Strategy <- MCStrategy
  MaxRestarts = 2
  MaxSeconds = 1
  MailCap = 4
  MaxCrashes = 4
  MaxTime = 2
INVARIANTS OneLivePerSlot HandlesOwnFailure IntensityBound
PROPERTIES FailureHandled
CHECK_DEADLOCK FALSE
