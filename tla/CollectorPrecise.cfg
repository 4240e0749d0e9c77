SPECIFICATION Spec
CONSTANTS
  star = star
  starStar = starStar
  starStarInt = starStarInt
  raw8 = raw8
  raw48 = raw48
  NONE = NONE
  NULL = NULL
  DATA = DATA
  BITS_PER_PAGE = 3
  HeapSize = 96
  GC_threshold = 40
  Layouts = {star, starStarInt}
  RawSizes = {}
  ObjectSize <- MCObjectSize
  PointerOffsets <- MCPointerOffsets
  NumTemps = 0
  NumLocals = 2
  MaxAllocations = 3
  MaxCollections = 2
INVARIANTS
  NoDanglingPointer
  CopiedOnce
  HeadersReadable
  ReclaimedIsNotNegative
PROPERTIES
  GarbageReclaimed
