SPECIFICATION FairSpec
CONSTANTS
  c1 = c1
  c2 = c2
  Clients <- TwoClients
  NoClient = NoClient
  Requests <- AllRequests
  HasOpenwrt = TRUE
  UseOverlay = TRUE
  ImpatientClients = TRUE
CHECK_DEADLOCK FALSE
INVARIANTS TypeOK GuestBeforeHost ActiveMeansHostRuns CleanRestart
PROPERTIES RequestAnswered MonitorExitNoticed
