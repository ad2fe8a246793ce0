SPECIFICATION Spec
CONSTANTS
  NumPages = 2
  Socks <- MCSocks
  SEND_TIMER = TRUE
  Worlds <- MCWorlds
  NULL = NULL
CHECK_DEADLOCK FALSE
INVARIANTS TypeOK InOrder Isolation OneSocket UrlHeld 
PROPERTY EndIsLast
