SPECIFICATION FairSpec
CONSTANTS
  NumPages = 2
  Socks <- MCSocks
  SEND_TIMER = TRUE
  Worlds <- MCCalm
  NULL = NULL
CHECK_DEADLOCK FALSE
PROPERTY OpenedPageEnds
