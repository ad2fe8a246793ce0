SPECIFICATION Spec
CONSTANTS
  Pages <- MCPages
  Texts = {"new"}
  Files = {"f"}
  Bytes <- MCBytes
  FileSizes <- MCFileSizes
  BUFSIZE = 3
  RESERVE = 10
  SHORT = 8
  FreeRam = {15, 100}
  HurriedUser = FALSE
  ScrolledUser = FALSE
  Connections = {TRUE}
  MaxSubmits = 2
  NULL = NULL
CHECK_DEADLOCK FALSE
INVARIANT UploadFits
PROPERTY ImplementsForm
