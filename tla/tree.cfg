SPECIFICATION FairSpec
CONSTANTS
  a = a
  b = b
  Moves = {a, b}
  MaxMoves = 3
  Threads = {t1, t2}
  NoThread = NoThread
  numVirtualLossesPerThread = 3
  maxVisits = 4
  maxPlayouts = 2
  Locks <- TwoLocks
  LockIdx <- LockOfDepth
  SureWins <- WonAfterA
  Bans <- FewBans
  MayEvict = TRUE
  MaxSearches = 2
INVARIANTS VirtualLossesAreReturned VisitsAreCounted
PROPERTIES RootOutputIsStable SearchEnds
\* The number of searches is bounded.
CHECK_DEADLOCK FALSE
