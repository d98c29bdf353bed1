SPECIFICATION Spec
CONSTANTS
  MaxUps = 2
  NumAzs = 1
  Outcomes = {"ACTIVE"}
  FirstCap = "on-demand"
  OnDemandFallback = FALSE
  MaxFaults = 1
PROPERTIES
  UpResumes
CHECK_DEADLOCK TRUE
