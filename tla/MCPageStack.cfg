SPECIFICATION Spec
CONSTANTS
  PageSTACK_SIZE = 3
  Blocks = {b1, b2, b3}
  NULL = NULL
  Docs = {d1, d2}
  Lines = {0, 1}
  Forms = {f1, f2}
  MaxClock = 5
  MinGap = 1
SYMMETRY Symmetry
CHECK_DEADLOCK FALSE
INVARIANTS TypeOK PagesOwned CacheMatchesStack
PROPERTIES CachedPagesKept ImplementsBackForward
