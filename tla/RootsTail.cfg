SPECIFICATION Spec
CONSTANTS
  star = star
  starStar = starStar
  starStarInt = starStarInt
  raw8 = raw8
  raw48 = raw48
  NONE = NONE
  NULL = NULL
  DATA = DATA
  BITS_PER_PAGE = 4
  HeapSize = 128
  GC_threshold = 60
  Layouts = {star}
  RawSizes = {}
  ObjectSize <- MCObjectSize
  PointerOffsets <- MCPointerOffsets
  NumTemps = 0
  NumLocals = 2
  MaxAllocations = 2
  MaxCollections = 1
  SIZEOF_PAGE = 24
INVARIANTS
  ObjectsRecognised
