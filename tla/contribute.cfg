SPECIFICATION FairSpec
CONSTANTS
  Loops = {l1, l2}
  Players = {p1}
  PreDownloader = pre
  Models = {m1, m2}
  m1 = m1
  m2 = m2
  NoThread = NoThread
  NoTask = NoTask
  ServerTasks <- MCServerTasks
  NewestModels <- MCNewestModels
  taskRepFactor = 2
  maxRatingMatches = 1
  MaxSimulDownloads = 1
  MaxTries = 1
  MaxTasks = 2
INVARIANTS UsedNetsAreLoaded NetsAreInTheirFiles OneDownloadEach
PROPERTY StopEnds
CHECK_DEADLOCK FALSE
