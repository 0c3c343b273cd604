CONSTANTS
  MaxRuns = 3
  MaxRequests = 2
  Attempts = 2
  MaxRestarts = 3
  BackoffMax = 2
  Cooldown = 2
  Stable = 2
  Lead = 1
  MaxDelay = 2
SPECIFICATION FairSupSpec
INVARIANT SupTypeOK
INVARIANT ScheduleIsArmed
INVARIANT MonitorFollowsProcess
 
 
CHECK_DEADLOCK FALSE
