SPECIFICATION Spec
CONSTANTS
  Models <- MCModels
  ModelTime <- MCModelTime
  Accepted <- MCAccepted
  m0 = m0
  m1 = m1
  m2 = m2
  Threads = {t1, t2}
  NumGames = 3
  StartPoses = 0
  Unit = 2
  DrawPoints = 1
  NoResultPoints = 1
  QuitIfNoNetsToTest = TRUE
  NoAutoRejectOldModels = FALSE
  MaxFaults = 0
  NoModel = NoModel
  NoGame = NoGame
  NoPosition = NoPosition
INVARIANT StartPositionExists
