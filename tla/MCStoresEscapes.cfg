SPECIFICATION MCSpec
CONSTANTS
  Names = {2, 3}
  Links <- MCEscapedLinks
  Saved = {"oms"}
  MaxFiles = 2
  MaxNames = 2
  UrlChars = {37}
  TypedChars = {65}
  MaxLen = 1
  Entries = {"a"}
  Depths = {1}
INVARIANT LinksAsMeant
CHECK_DEADLOCK FALSE
