SPECIFICATION Spec
CONSTANTS
  RunIds = {7}
  MaxDispatches = 1
  MaxFaults = 2
  MaxMints = 4
INVARIANTS
  RefusalsEnd
  CancelReaches
  LostOnlyWithSession
PROPERTIES
  SessionsEnd
  Reconnects
CHECK_DEADLOCK FALSE
