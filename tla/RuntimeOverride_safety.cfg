SPECIFICATION Spec
CONSTANTS
  Jobs = {j1, j2}
  None = None
  MaxSeq = 2
  MaxInstanceCrashes = 1
  MaxCoordinatorCrashes = 1
  MaxFlaps = 1
  MaxFaults = 1
  RouteRearm = TRUE
INVARIANTS TypeOK DurableStageCoversLive OverrideIsCheckpointed AckIsTruthful SettledJobIsReleased
PROPERTIES NoApplyAfterIntent
SYMMETRY JobSymmetry
CHECK_DEADLOCK FALSE
