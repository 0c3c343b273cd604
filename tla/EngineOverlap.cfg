CONSTANTS
  o1 = o1
  o2 = o2
  o3 = o3
  None = None
  Op <- MCOp
  Key <- MCKey
  MaxStarts = 2
  PromptKill = TRUE
  Attempts = 1
  Hooks <- MCOtherHooks
  LateCalls = TRUE
SPECIFICATION FairSpec
ACTION_CONSTRAINT InOrder
INVARIANT LockTypeOK
INVARIANT ChainExclusion
INVARIANT SingleFlight
PROPERTY OnlyReplacedWaitersHang
CHECK_DEADLOCK FALSE
