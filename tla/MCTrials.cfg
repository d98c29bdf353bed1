SPECIFICATION FairSpec
CONSTANTS
  Watched = {"http-routing-e2e"}
  Picks = {"http-routing-e2e"}
  MaxCmds = 2
  MaxFaults = 1
  MaxEvents = 1
INVARIANTS
  AllGreen
  ResyncKeeps
  CleanLeaves
PROPERTIES
  WatchHeals
CHECK_DEADLOCK FALSE
