SPECIFICATION FairSpec
CONSTANTS
  star = star
  starStar = starStar
  starStarInt = starStarInt
  raw8 = raw8
  raw48 = raw48
  NONE = NONE
  NULL = NULL
  DATA = DATA
  BITS_PER_PAGE = 3
  HeapSize = 96
  GC_threshold = 10
  Layouts = {star}
  RawSizes = {raw8, raw48}
  ObjectSize <- MCObjectSize
  PointerOffsets <- MCPointerOffsets
  NumTemps = 2
  NumLocals = 1
  MaxAllocations = 2
  MaxCollections = 3
INVARIANTS
  ReachablePointersValid
  NoPointerForgotten
PROPERTIES
  CollectionEnds
  AllocationEnds
