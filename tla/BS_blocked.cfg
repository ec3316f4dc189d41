SPECIFICATION FairSpec
CONSTANTS
  PipeSize = 3
  FailFast = FALSE
  Restoring = FALSE
  MaxCrashes = 0
CHECK_DEADLOCK FALSE
PROPERTY GuestNotBlocked
