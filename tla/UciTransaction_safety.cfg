SPECIFICATION FairSpec
CONSTANTS
  None = None
  MaxVersion = 6
  MaxFaults = 2
INVARIANTS TypeOK CandidateIsUndoable NeverHalfPublished LockedCommitIsKept RacingCommitIsReturned
PROPERTIES RecoveryFinishes
CHECK_DEADLOCK FALSE
