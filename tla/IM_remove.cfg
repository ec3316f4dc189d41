SPECIFICATION Spec
CONSTANTS
  p1 = p1
  p2 = p2
  Procs <- TwoProcs
  Commands <- StartRemove
  Requests <- OneAny
  MaxId = 1
  MaxGroups = 1
  MaxEvents = 3
  Faults = {}
INVARIANT NoUntrackedDevice
CHECK_DEADLOCK FALSE
