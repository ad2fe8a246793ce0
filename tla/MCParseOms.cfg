SPECIFICATION LiveSpec
CONSTANTS
  Pages <- MCPages
  HEADER_V2 = 3
  GZIP_HEADER = 2
  Pieces = {1, 2, 3, 7, 64}
  ZlibInit = {TRUE, FALSE}
  MaxIcons = 3
  UserText = {18}
  UserList <- OneList
  UINT = 1000
CHECK_DEADLOCK FALSE
INVARIANTS WithinData Waits AsMeant ReferencesSound
PROPERTY PageEnds
