SPECIFICATION FairSpec
CONSTANTS
  PipeSize = 3
  FailFast = TRUE
  Restoring = TRUE
  MaxCrashes = 1
CHECK_DEADLOCK FALSE
INVARIANTS TypeOK OneVerdict
PROPERTIES VerdictDelivered CancelNoticed GuestNotBlocked InterruptEndsThread
