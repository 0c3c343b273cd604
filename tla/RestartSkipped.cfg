CONSTANTS
  MaxRuns = 1
  MaxRequests = 2
  Attempts = 2
  MaxRestarts = 1
  BackoffMax = 2
  Cooldown = 2
  Stable = 2
  Lead = 1
  MaxDelay = 2
SPECIFICATION SupSpec
PROPERTY RestartRevivesServer
CHECK_DEADLOCK FALSE
