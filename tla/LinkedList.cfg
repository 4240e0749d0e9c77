SPECIFICATION FairSpec
CONSTANTS
  Nodes = {n1, n2, n3, n4}
  Value = {0, 1}
  MaxLength = 3
  NULL = NULL
  NoCall = NoCall
  NoAnswer = NoAnswer
  NoList = NoList
  Indices <- MCIndices
  Predicates <- MCPredicates
  Updates <- MCUpdates
  equal_func <- MCEqualFunc
INVARIANTS
  ListTypeOK
  PathIntact
  MemorySafe
PROPERTIES
  RefinesAbstractList
  CallsReturn
