CONSTANTS
  c1 = c1
  Caller <- MCCaller
  MaxStarts = 1
  PromptKill = TRUE
SPECIFICATION ProcessSpec
INVARIANT HostSurvivesFailedStop
CHECK_DEADLOCK FALSE
