SPECIFICATION FairSpec
CONSTANTS
  Players = {p1, p2}
  MaxModels = 2
  maxGamesTotal = 2
  maxDataQueueSize = 1
INVARIANTS ModelsLiveAsLongAsUsed GamesReachTheDisk
PROPERTY StopEnds
\* The program ends.
CHECK_DEADLOCK FALSE
