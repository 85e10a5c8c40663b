SPECIFICATION Spec
CONSTANTS
  Jobs = {j1}
  None = None
  MaxSeq = 1
  MaxInstanceCrashes = 0
  MaxCoordinatorCrashes = 0
  MaxFlaps = 0
  MaxFaults = 1
  RouteRearm = FALSE
INVARIANT EveryOverrideIsCheckpointed
CHECK_DEADLOCK FALSE
