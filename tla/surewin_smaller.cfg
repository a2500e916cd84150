SPECIFICATION SSpec
CONSTANTS
  boardSize = 19
  BOARDS = 20
  Openings <- MCEdge
  MaxPlies = 0
  NO_FIVE = NO_FIVE
  FIVE_WIN = FIVE_WIN
  surewinDepth = 21
  NodeLimit = 5000
  MaxAsks = 1
  Slot <- MCSlot
INVARIANT ClaimedWinsAreLegal
CHECK_DEADLOCK FALSE
