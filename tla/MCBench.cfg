SPECIFICATION Spec
CONSTANTS
  MaxCmds = 2
  MaxFaults = 2
INVARIANTS
  OwnResult
PROPERTIES
  ColdStart
  UpServes
  DownClean
