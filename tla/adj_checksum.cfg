SPECIFICATION Spec
CONSTANTS
  LSAs = {1}
  Customs = {{}}
  MaxSeq = 1
  Checksums = {1, 3}
  Databases <- AnyDatabases
  FirstSeq = 222
  Stride = 16
  SeqMod = 256
  MaxQueue = 2
  MaxTroubles = 0
PROPERTIES MoreRecentIsRequested
