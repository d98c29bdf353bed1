SPECIFICATION Spec
CONSTANTS
  MaxUps = 2
  NumAzs = 2
  Outcomes = {"ACTIVE", "FAILED"}
  FirstCap = "spot"
  OnDemandFallback = TRUE
  MaxFaults = 2
INVARIANTS
  UpBuilds
  DownClean
PROPERTIES
  NotRefused
CHECK_DEADLOCK TRUE
