SPECIFICATION FairSpec
CONSTANTS
  NumPages = 2
  Socks <- MCOneSock
  SEND_TIMER = TRUE
  Worlds <- MCNamed
  NULL = NULL
CHECK_DEADLOCK FALSE
PROPERTY OpenedPageEnds
