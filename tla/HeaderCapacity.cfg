SPECIFICATION Spec
CONSTANTS
  Layouts <- MCLayouts
  RawSizes = {}
  Types = {"*", "l"}
  MaxFields = 8
  HEADER_BITS = 12
  INT_LIMIT = 256
  SIZE_LIMIT = 1024
  PAGE_SIZE = 128
INVARIANT
  LayoutsDescribed
