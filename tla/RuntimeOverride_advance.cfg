SPECIFICATION FairSpec
CONSTANTS
  Jobs = {j1}
  None = None
  MaxSeq = 2
  MaxInstanceCrashes = 0
  MaxCoordinatorCrashes = 0
  MaxFlaps = 0
  MaxFaults = 0
  RouteRearm = FALSE
PROPERTY GoneWorkerIsSettled
CHECK_DEADLOCK FALSE
