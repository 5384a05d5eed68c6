SPECIFICATION Spec
CONSTANTS
  LSAs = {1, 2}
  Customs = {{}}
  MaxSeq = 1
  Checksums = {1}
  Databases <- AnyDatabases
  FirstSeq = 222
  Stride = 16
  SeqMod = 256
  MaxQueue = 2
  MaxTroubles = 2
INVARIANTS TypeOK RequestsAreNews FullMeansSynchronised
