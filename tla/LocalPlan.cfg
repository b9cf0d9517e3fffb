CONSTANTS
  k1 = k1
  k2 = k2
  k3 = k3
  Keys = {k1, k2, k3}
  NoKey = NoKey
  SeenGrowth = 1
  MissModulus = 2
  Holder = g
  Goroutines = {g}
  Ids = {1, 2, 3, 4, 5, 6}
  Width = 3
  Queries <- MCQueries
  Key <- MCKey
  Indexes <- CrossingIndexes
  NoQuery = NoQuery
  ScanLimit = 1
  ArrayLimit = 9
  ResultSlots = 2
  MaxClock = 3
SPECIFICATION Spec
INVARIANT AnswersExact
