SPECIFICATION GameSpec
CONSTANTS
  boardSize = 6
  Openings <- MCOpenings
  MaxPlies = 5
  NO_FIVE = NO_FIVE
  FIVE_WIN = FIVE_WIN
INVARIANTS ThreatsAreKnown LegalMovesAreTheDefences
PROPERTY UndoRestores
CHECK_DEADLOCK FALSE
