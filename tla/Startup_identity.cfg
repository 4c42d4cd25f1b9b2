SPECIFICATION FairSpec
CONSTANTS
  k1 = k1
  k2 = k2
  k3 = k3
  k4 = k4
  k5 = k5
  Keys <- FiveKeys
  Configurations <- Some
  MaxFaults = 2
  MaxStarts = 4
PROPERTIES
  KeyFileKept
CHECK_DEADLOCK FALSE
