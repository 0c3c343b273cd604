CONSTANTS
  ReconnectEnabled = TRUE
  AutoRespawn = TRUE
  MaxRetries = 1
  RapidDeathMax = 2
  MaxConnects = 3
  MaxDeaths = 2
  MaxCommands = 3
SPECIFICATION FairBotSpec
INVARIANT BotTypeOK
INVARIANT OneConnection
INVARIANT StoppedIsAtRest
PROPERTY DisconnectedBotReturns
PROPERTY DeadBotReconnects
CHECK_DEADLOCK FALSE
