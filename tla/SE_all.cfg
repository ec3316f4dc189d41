SPECIFICATION FairSpec
CONSTANTS
  N = 3
  HalfSent = TRUE
  MaxFailures = 1
INVARIANTS TypeOK QuietWhileSuspended NoSurprise
PROPERTIES RequestAnswered GuestServed
CHECK_DEADLOCK FALSE
