SPECIFICATION MCSpec
CONSTANTS
  p1 = p1
  p2 = p2
  Procs <- TwoProcs
  Commands <- AllCommands
  Requests <- AllRequests
  MaxId = 2
  MaxGroups = 3
  MaxEvents = 3
  Faults <- AllFaults
SYMMETRY Symmetry
INVARIANTS TypeOK NoLeakedId NoCircularWait Settles
CHECK_DEADLOCK FALSE
