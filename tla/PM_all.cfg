SPECIFICATION FairSpec
CONSTANTS
  N = 4
  Critical <- Third
  Exempt <- First
  SecureEnv = 4
  Conversing <- Second
  StartMayFail = TRUE
  MaxStrays = 1
CHECK_DEADLOCK FALSE
INVARIANTS TypeOK SuspendFreezesHost StoppedMeansReaped OrderlyStop StopInReverse
PROPERTIES EntriesStableWhileLocked StopTerminates RequestsAnswered
