SPECIFICATION FairSpec
CONSTANTS
  PageSTACK_SIZE = 3
  Blocks = {}
  NULL = NULL
  MaxClock = 6
  Worlds <- MCWorlds
INVARIANTS TypeOK IdsIncrease PatientInPlace PatientCache
PROPERTY ViewOpens
CHECK_DEADLOCK FALSE
