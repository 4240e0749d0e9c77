SPECIFICATION Spec
CONSTANTS
  star = star
  starStar = starStar
  starStarInt = starStarInt
  raw8 = raw8
  raw48 = raw48
  NONE = NONE
  NULL = NULL
  DATA = DATA
  BITS_PER_PAGE = 2
  HeapSize = 96
  GC_threshold = 40
  Layouts = {star}
  RawSizes = {raw8}
  ObjectSize <- MCObjectSize
  PointerOffsets <- MCPointerOffsets
  NumTemps = 0
  NumLocals = 1
  MaxAllocations = 1
  MaxCollections = 1
PROPERTIES
  CopiesWholeObjects
