SPECIFICATION MCSpec
CONSTANTS
  Configs <- MCConfigs
  Downs <- MCDowns
  MaxReconfs = 2
  N = 2
  Top = 2
  Supported = TRUE
  MaxKeys = 3
  MaxReinits = 2
  Size = 4
  Chunk = 2
  MaxFont = 1
  LastSymbol = 5
  Icons = {2}
  Moving = {3}
  Height = 2
  ScreenW = 3
  ScreenH = 2
  MaxRedraws = 2
INVARIANTS ResetWhenHeld MeasuresSafely FontsWhole
PROPERTY SettingsReachLcd
CHECK_DEADLOCK FALSE
