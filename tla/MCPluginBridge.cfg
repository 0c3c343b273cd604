CONSTANTS
  b1 = b1
  b2 = b2
  c1 = c1
  c2 = c2
  a = a
  Bridge <- MCBridge
  Conn <- MCConn
  Action <- MCAction
  Console = {}
  NoBridge = NoBridge
  NoConn = NoConn
  MaxSnapshots = 2
  MaxFaults = 1
SPECIFICATION FairSpec
ACTION_CONSTRAINT InOrder
INVARIANT BridgeTypeOK
INVARIANT OneLiveClient
INVARIANT EndsAgree
PROPERTY SnapshotsAdvance
 
CHECK_DEADLOCK FALSE
