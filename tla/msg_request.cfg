SPECIFICATION MsgSpec
CONSTANTS
  Manifests <- OneLine
  Invalid = Invalid
  Data <- Measures
  NoData = NoData
  IntMod = 65536
  QueueLimit = 1
  MaxData = 1
  MaxSignals = 0
INVARIANTS InjectedAsAsked
CHECK_DEADLOCK FALSE
