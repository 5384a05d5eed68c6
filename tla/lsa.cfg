SPECIFICATION FairSpec
CONSTANTS
  StaleSeqs = {2}
  StaleBodies = {3}
  StaleKeys <- BothOrNone
  MaxChanges = 2
  MaxLosses = 1
  MaxQueue = 1
INVARIANTS LiveIsRefreshed DrDescribesNetwork
PROPERTIES SequenceNumbersGrow 
CHECK_DEADLOCK FALSE
