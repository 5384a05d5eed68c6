SPECIFICATION MsgFairSpec
CONSTANTS
  Manifests <- UpToTwo
  Invalid = Invalid
  Data <- Measures
  NoData = NoData
  IntMod = 65536
  QueueLimit = 1
  MaxData = 2
  MaxSignals = 1
INVARIANTS InjectionsFollowManifest 
PROPERTIES SendDataReturns ManifestServed
CHECK_DEADLOCK FALSE
