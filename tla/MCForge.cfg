SPECIFICATION Spec
CONSTANTS
  Clusters = {"c1", "c2"}
  Wrapped = FALSE
  MaxCmds = 3
  MaxFaults = 2
INVARIANTS
  UpRegisters
  DownForgets
PROPERTIES
  OthersKept
CHECK_DEADLOCK TRUE
