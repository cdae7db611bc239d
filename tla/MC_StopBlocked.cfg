SPECIFICATION FairSpec
CONSTANTS
  Children = {c1, c2}
  Callers = {k1, k2}
  Limit = 1
  MaxFaults = 1
PROPERTIES StopTerminates
CHECK_DEADLOCK FALSE
