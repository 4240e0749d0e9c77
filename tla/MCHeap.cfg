SPECIFICATION HeapSpec
CONSTANTS
  star = star
  starInt = starInt
  starStarStar = starStarStar
  raw3 = raw3
  raw40 = raw40
  NONE = NONE
  BITS_PER_PAGE = 4
  HeapSize = 255
  GC_threshold = 60
  Layouts <- MCLayouts
  RawSizes <- MCRawSizes
  SIZEOF_PAGE = 24
  ObjectSize <- MCObjectSize
INVARIANTS
  HeapTypeOK
  PageAccounting
  ActiveIffUsed
  EvacuatedPagesReleased
  SlotsRecognised
  AcceptedNearAllocation
PROPERTIES
  EvacuatedPagesFrozen
