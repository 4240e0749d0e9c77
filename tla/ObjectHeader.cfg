SPECIFICATION Spec
CONSTANTS
  Layouts <- MCLayouts
  RawSizes <- MCRawSizes
  Types = {"*", "l", "i"}
  MaxFields = 5
  HEADER_BITS = 12
  INT_LIMIT = 128
  SIZE_LIMIT = 1024
  PAGE_SIZE = 64
INVARIANTS
  HeaderTypeOK
  InterpretsLayout
  WithinArray
  RequestHonoured
