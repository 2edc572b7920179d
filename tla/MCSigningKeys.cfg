SPECIFICATION Spec
CONSTANTS
  i1 = i1
  i2 = i2
  k1 = k1
  k2 = k2
  Instances <- MCInstances
  Keys <- MCKeys
  Provided <- MCProvided
  Preferred <- MCPreferred
  Callers = {c1, c2}
  Regions <- MCRegions
  Threshold = 2
  MaxFaults = 2
  MaxChanges = 1
  None = None
PROPERTIES
  OneActiveAlways
  SignsAgain
CHECK_DEADLOCK FALSE
