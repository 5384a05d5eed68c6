SPECIFICATION Spec
CONSTANTS
  MEM_BUFFER = 10
  METADATA_SIZE = 2
  ALIGNMENT_FACTOR = 2
  UintMod = 32
  Ids <- TwoIds
  Sizes <- LayoutSizes
  IdSizes <- TaggedSizes
INVARIANTS BlocksDisjoint ListAscends LookupFindsOwner
PROPERTIES ImplementsAllocator
