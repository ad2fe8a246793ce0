SPECIFICATION Spec
CONSTANTS
  PageSTACK_SIZE = 3
  Blocks = {}
  NULL = NULL
  MaxClock = 4
  Worlds <- MCHurried
INVARIANT InPlace
CHECK_DEADLOCK FALSE
