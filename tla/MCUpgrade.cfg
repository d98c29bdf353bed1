SPECIFICATION FairSpec
CONSTANTS
  Namespaces = {"a", "b"}
  Names = {"x", "y"}
  Snatpools = {"pool"}
  Inventories <- Cases
  HasRole = TRUE
  MaxCmds = 3
  MaxFaults = 1
  MaxEdits = 1
INVARIANTS
  Migrated
  RefsResolve
PROPERTIES
  UpgradeSettles
  UpgradeNotRefused
CHECK_DEADLOCK FALSE
