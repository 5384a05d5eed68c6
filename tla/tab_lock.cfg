SPECIFICATION TabSpec
CONSTANTS
  Guarded <- SpfCalc
  Bare <- SendPacket
  EarlyReturn <- SpfCalc
  MAX_NBR_PLUGLETS = 2
  Requests <- AllRequests
  MaxRequests = 2
INVARIANTS LockedOnlyWhileRunning
CHECK_DEADLOCK FALSE
