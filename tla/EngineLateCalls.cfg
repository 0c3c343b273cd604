CONSTANTS
  o1 = o1
  o2 = o2
  o3 = o3
  None = None
  Op <- MCOp
  Key = {}
  MaxStarts = 2
  PromptKill = TRUE
  Attempts = 1
  Hooks <- MCHooks
  LateCalls = TRUE
SPECIFICATION Spec
ACTION_CONSTRAINT InOrder
PROPERTY RunningFollowsStart
CHECK_DEADLOCK FALSE
