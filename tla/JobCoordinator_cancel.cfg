SPECIFICATION FairSpec
CONSTANTS
  a1 = a1
  s1 = s1
  r1 = r1
  i1 = i1
  i2 = i2
  wan1 = wan1
  wan2 = wan2
  Jobs = {r1}
  Kind <- MCKind
  Instance <- MCInstance
  LocalKeys <- MCLocalKeys
  Heavy = Heavy
  None = None
  Debris = Debris
  Retention = 1
  MaxRestarts = 0
  MaxFaults = 0
PROPERTIES EveryJobSettles
CHECK_DEADLOCK FALSE
