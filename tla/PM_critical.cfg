SPECIFICATION FairSpec
CONSTANTS
  N = 2
  Critical <- Second
  Exempt <- NoEntry
  SecureEnv = 0
  Conversing <- NoEntry
  StartMayFail = FALSE
  MaxStrays = 0
CHECK_DEADLOCK FALSE
PROPERTIES CriticalExitStopsAll
