SPECIFICATION FairSpec
CONSTANTS
  NPublic = 1
  NPrivate = 1
  NData = 1
  MaxUps = 2
  MaxStrays = 1
  MaxFaults = 2
  NatOutcomes = {"available", "failed"}
INVARIANTS
  TypeOK
  NoNetworkLeft
  UpBuilds
PROPERTIES
  DownConverges
CHECK_DEADLOCK TRUE
