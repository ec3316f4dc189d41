SPECIFICATION Spec
CONSTANTS
  c1 = c1
  c2 = c2
  Clients <- TwoClients
  NoClient = NoClient
  Requests <- AllRequests
  HasOpenwrt = FALSE
  UseOverlay = TRUE
  ImpatientClients = TRUE
CHECK_DEADLOCK FALSE
INVARIANT SurvivesClients
