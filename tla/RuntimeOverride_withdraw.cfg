SPECIFICATION FairSpec
CONSTANTS
  Jobs = {j1}
  None = None
  MaxSeq = 1
  MaxInstanceCrashes = 0
  MaxCoordinatorCrashes = 1
  MaxFlaps = 0
  MaxFaults = 0
  RouteRearm = FALSE
PROPERTY GoneWorkerIsSettled
CHECK_DEADLOCK FALSE
