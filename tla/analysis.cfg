SPECIFICATION FairSpec
CONSTANTS
  NumThreads = 2
  MaxRequests = 2
INVARIANTS PointersAreLive OneFinalResponse OnlyTerminatedIsCutShort
PROPERTY NothingHangs
\* The program ends when it has quit.
CHECK_DEADLOCK FALSE
