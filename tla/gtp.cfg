SPECIFICATION EngineSpec
CONSTANTS
  Cells <- MCCells
  LegalAfter <- MCLegalAfter
  Setups <- MCSetups
  Handicaps <- MCHandicaps
  Sgfs <- MCSgfs
  PonderingEnabled = TRUE
  MaxMoves = 4
  NULL_LOC = NULL_LOC
INVARIANT HistoryReplays
PROPERTIES
  UndoTakesBack
  FailedCommandsKeepGame
CHECK_DEADLOCK FALSE
