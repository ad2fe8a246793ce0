SPECIFICATION ViewSpec
CONSTANTS
  ViewPages <- MCPages
  Needle <- MCNeedle
  ScrW = 6
  ScrH = 8
  Font = 2
  Letter = 1
  BoldExtra = 1
  WordWrap = TRUE
  Step = 3
  MaxVisits = 2
CHECK_DEADLOCK FALSE
INVARIANTS CacheSound LinesAsWhole DownVisitsAll RestoredAsLeft ScrollExact SearchShows
