SPECIFICATION Spec
CONSTANTS
  None = None
  MaxVersion = 4
  MaxFaults = 1
INVARIANT LaterCommitIsKept
CHECK_DEADLOCK FALSE
