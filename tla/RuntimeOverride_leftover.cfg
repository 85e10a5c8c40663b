SPECIFICATION Spec
CONSTANTS
  Jobs = {j1}
  None = None
  MaxSeq = 1
  MaxInstanceCrashes = 1
  MaxCoordinatorCrashes = 0
  MaxFlaps = 0
  MaxFaults = 0
  RouteRearm = FALSE
INVARIANT LeftoverRecordsAreHarmless
CHECK_DEADLOCK FALSE
