CONSTANTS
  c1 = c1
  c2 = c2
  Caller <- MCCaller
  MaxStarts = 3
  PromptKill = FALSE
SPECIFICATION FairSerialSpec
INVARIANT ProcessTypeOK
INVARIANT RunningHasLiveChild
INVARIANT LetGoOnlyWhenKilled
INVARIANT SerialServerIsOne
INVARIANT SerialCrashMeansUnasked
 
PROPERTY EveryStopEnds
CHECK_DEADLOCK FALSE
