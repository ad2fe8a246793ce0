SPECIFICATION MCSpec
CONSTANTS
  Names = {2, 3, 4}
  Links <- MCLinks
  Saved = {"oms"}
  MaxFiles = 3
  MaxNames = 2
  UrlChars = {37, 48, 50, 53, 66, 43, 32, 193}
  TypedChars = {65, 37, 58, 32, 1040, 1103, 1025, 1105}
  MaxLen = 4
  Entries = {"a", "b", "c", "d"}
  Depths = {0, 2, 3}
INVARIANTS
  MenuShowsFolder
  ReencodeKeeps
  TypedArrives
PROPERTIES
  ImplementsStore
  HistoryIsRecent
CHECK_DEADLOCK FALSE
