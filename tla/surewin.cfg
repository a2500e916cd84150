SPECIFICATION SSpec
CONSTANTS
  boardSize = 7
  BOARDS = 7
  Openings <- MCOpenings
  MaxPlies = 2
  NO_FIVE = NO_FIVE
  FIVE_WIN = FIVE_WIN
  surewinDepth = 10
  NodeLimit = 100
  MaxAsks = 2
  Slot <- MCSlot
INVARIANTS
  WinsAreReal
  NothingIsHidden
  SolverSeesTheGame
CHECK_DEADLOCK FALSE
