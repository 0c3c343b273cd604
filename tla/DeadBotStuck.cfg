CONSTANTS
  ReconnectEnabled = TRUE
  AutoRespawn = TRUE
  MaxRetries = 1
  RapidDeathMax = 2
  MaxConnects = 2
  MaxDeaths = 1
  MaxCommands = 1
SPECIFICATION FairBotSpec
PROPERTY DeadBotRecovers
CHECK_DEADLOCK FALSE
