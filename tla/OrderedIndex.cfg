CONSTANTS
  r = r
  s = s
  NoAlias = NoAlias
  None = None
  Values <- MCValues
  Ids <- MCIds
  KeyMaps <- MCKeyMaps
  KeyModulus = 8
  BlockSize = 1
  RangeBlockSize = 2
  MaxEntries = 5
SPECIFICATION Spec
SYMMETRY MCSymmetry
CHECK_DEADLOCK FALSE
INVARIANTS
  Layout
  AccountingCurrent
  SearchesAgree
  EstimateSound
  NoFalseNegatives
  EqualityComplete
  ExactUntilMerged
PROPERTIES
  ImplementsBoundary
