SPECIFICATION FairSpec
CONSTANTS
  LSAs = {1}
  Customs = {{}, {1}}
  MaxSeq = 2
  Checksums = {1}
  Databases <- AnyDatabases
  FirstSeq = 222
  Stride = 16
  SeqMod = 256
  MaxQueue = 2
  MaxTroubles = 1
INVARIANTS RetransmitsCurrent
PROPERTIES NoOlderInstance AdjacencyForms
