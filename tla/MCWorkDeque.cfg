CONSTANTS
  Thieves = {h1, h2}
  Size = 2
  IndexMod = 8
  Starts <- WrapStarts
  MaxPush = 4
  NULL = NULL
SPECIFICATION FairSpec
PROPERTIES ImplementsDeque PushedIsTaken
