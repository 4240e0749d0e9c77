SPECIFICATION Spec
CONSTANTS
  star = star
  starStar = starStar
  starStarInt = starStarInt
  raw8 = raw8
  raw48 = raw48
  NONE = NONE
  NULL = NULL
  DATA = DATA
  BITS_PER_PAGE = 3
  HeapSize = 96
  GC_threshold = 100
  Layouts = {star, starStar}
  RawSizes = {}
  ObjectSize <- MCObjectSize
  PointerOffsets <- MCPointerOffsets
  NumTemps = 0
  NumLocals = 2
  MaxAllocations = 2
  MaxCollections = 1
INVARIANTS
  PassivePagesSuffice
