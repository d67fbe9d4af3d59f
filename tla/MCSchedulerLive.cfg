CONSTANTS
  Actors = {a1, a2}
  Workers = {w1, w2}
  Senders = {s1, s2}
  Killable <- NoActor
  Capacity = 2
  DequeCap = 2
  Outcomes <- Ends
  Stoppable = FALSE
  MaxSends = 1
  NULL = NULL
SPECIFICATION FairSpec
PROPERTY MailIsHandled
