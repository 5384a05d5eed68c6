SPECIFICATION FairSpec
CONSTANTS
  Throttles <- Settings
  Outcomes = {"native", "replaced", "skipped"}
  NAreas = 2
  UintMod = 64
  Horizon = 6
  MaxChanges = 1
INVARIANTS NoEventForgotten 
PROPERTIES ThrottleHonoured EventsAreServed
