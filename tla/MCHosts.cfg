SPECIFICATION Spec
CONSTANTS
  MaxUps = 3
  MaxFaults = 2
INVARIANTS
  UpBuilds
  KeyOpens
  DownClean
PROPERTIES
  NotRefused
CHECK_DEADLOCK TRUE
