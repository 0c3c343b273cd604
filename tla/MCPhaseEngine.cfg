CONSTANTS
  s1 = s1
  s2 = s2
  Session <- MCSession
  FromRun = {s2}
  Phases <- MCPhases
  MaxStarts = 2
  MaxWorkers = 2
  MaxBots = 3
  PerWorker = 2
SPECIFICATION FairSpec
INVARIANT PhaseTypeOK
INVARIANT OutOfReachOnlyByTakeover
INVARIANT NothingOfTheGone
INVARIANT LeftBehindOnlyByRestart
PROPERTY KilledWorkerIsForgotten
CHECK_DEADLOCK FALSE
