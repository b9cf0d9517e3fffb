CONSTANTS
  Keys = {a, b}
  Unmatched = {b}
  NoKey = NoKey
  SeenGrowth = 1
  MissModulus = 8
  Workers = {v, w}
  Contexts = {c1, c2}
  NoContext = NoContext
  SampleEvery = 2
  MaxOpened = 4
  MaxSearches = 3
  MaxSnapshots = 2
SYMMETRY Symmetry
SPECIFICATION Spec
INVARIANTS TypeOK ContextExclusive PoolsApart ColdPools Conserved CountersLawful
PROPERTY SnapshotsMonotonic
CHECK_DEADLOCK FALSE
