SPECIFICATION Spec
CONSTANTS
  MaxUps = 3
  MaxFaults = 2
INVARIANTS
  UpBuilds
  NlbHeld
  DownClean
CHECK_DEADLOCK TRUE
