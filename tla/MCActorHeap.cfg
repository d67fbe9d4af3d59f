CONSTANTS
  Actors <- MCActors
  Scenarios <- MCScenarios
  MaxStack = 2
  MaxFrames = 2
  MaxArgs = 2
SPECIFICATION Spec
INVARIANT HeapFaithful
PROPERTIES ArgumentsArriveIntact GrowsOnlyWhenFull
CHECK_DEADLOCK FALSE
