SPECIFICATION Spec
CONSTANTS
  a1 = a1
  s1 = s1
  r1 = r1
  i1 = i1
  i2 = i2
  wan1 = wan1
  wan2 = wan2
  Jobs = {a1, s1, r1}
  Kind <- MCKind
  Instance <- MCInstance
  LocalKeys <- MCLocalKeys
  Heavy = Heavy
  None = None
  Debris = Debris
  Retention = 1
  MaxRestarts = 1
  MaxFaults = 1
INVARIANTS TypeOK MutationIsJournalled OneTrafficWorker UplinkExclusion OnlyExitSettles
PROPERTIES TerminalIsFinal
CHECK_DEADLOCK FALSE
