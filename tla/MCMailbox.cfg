CONSTANTS
  Producers = {p1, p2}
  Nodes = {n1, n2, n3, n4}
  Capacity = 2
  MaxSends = 2
  NULL = NULL
SPECIFICATION FairSpec
CHECK_DEADLOCK FALSE
INVARIANTS NoUseAfterFree EmptyIsTruthful WalkCovers SenderOrder DestroyFreesAll
PROPERTIES ImplementsQueue AcceptedIsTaken
