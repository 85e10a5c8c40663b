SPECIFICATION FairSpec
CONSTANTS
  Jobs = {j1}
  None = None
  MaxSeq = 1
  MaxInstanceCrashes = 0
  MaxCoordinatorCrashes = 0
  MaxFlaps = 1
  MaxFaults = 1
  RouteRearm = FALSE
PROPERTY GoneWorkerIsSettled
CHECK_DEADLOCK FALSE
