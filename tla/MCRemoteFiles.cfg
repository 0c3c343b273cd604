CONSTANTS
  t1 = t1
  m1 = m1
  Task <- MCTask
  Terminal <- MCTerminal
  User <- MCUser
  Limit = 2
  MaxClients = 4
  MaxLists = 5
  Quota = 1
  MaxAttempts = 2
  Spare = 3
  MaxRefs = 2
SPECIFICATION FairSpec
INVARIANT RemoteTypeOK
INVARIANT InUseStaysOpen
INVARIANT PoolKnowsItsConnections
 
CHECK_DEADLOCK FALSE
