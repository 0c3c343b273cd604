CONSTANTS
  o1 = o1
  o2 = o2
  o3 = o3
  None = None
  Op <- MCOp
  Key = {}
  MaxStarts = 3
  PromptKill = TRUE
  Attempts = 2
  Hooks <- MCHooks
  LateCalls = FALSE
SPECIFICATION FairSpec
ACTION_CONSTRAINT InOrder
INVARIANT EngineTypeOK
INVARIANT QuietPhaseIsTrue
INVARIANT WaiterIsOwn
PROPERTY ImplementsManagedServer
CHECK_DEADLOCK FALSE
PROPERTY EveryOperationEnds
