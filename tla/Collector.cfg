SPECIFICATION MCSpec
CONSTANTS
  star = star
  starStar = starStar
  starStarInt = starStarInt
  raw8 = raw8
  raw48 = raw48
  NONE = NONE
  NULL = NULL
  DATA = DATA
  BITS_PER_PAGE = 3
  HeapSize = 144
  GC_threshold = 20
  Layouts = {starStar}
  RawSizes = {}
  ObjectSize <- MCObjectSize
  PointerOffsets <- MCPointerOffsets
  NumTemps = 1
  NumLocals = 2
  MaxAllocations = 2
  MaxCollections = 3
INVARIANTS
  CompactingTypeOK
  NothingLostByMove
  NoPointerForgotten
  CollectorIInv
PROPERTIES
  RefinesManagedHeap
