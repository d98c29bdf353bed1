SPECIFICATION FairSpec
CONSTANTS
  MaxLoops = 2
  MaxUps = 2
  MaxFaults = 1
  MaxIter = 1
  MaxBounces = 1
INVARIANTS
  UpActivates
  HealSettles
PROPERTIES
  UpNotRefused
  Ends
CHECK_DEADLOCK FALSE
