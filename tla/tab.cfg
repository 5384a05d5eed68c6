SPECIFICATION TabFairSpec
CONSTANTS
  Guarded <- SpfCalc
  Bare <- SendPacket
  EarlyReturn <- SpfCalc
  MAX_NBR_PLUGLETS = 2
  Requests <- AllRequests
  MaxRequests = 3
INVARIANTS SlotsArePrefix UnreadyOnlyInRace HeapWhenRunning
PROPERTIES LockLeftOnlyUntested ReadyStays PassageEnds InjectionEnds
CHECK_DEADLOCK FALSE
