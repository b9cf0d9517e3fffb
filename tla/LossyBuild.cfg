CONSTANTS
  None = None
  Missing = Missing
  Values <- MCValues
  MaxIds = 3
  Hash <- MCHash
  Schemas <- MCSchemas
  Terminal = 2
  HashBits = 2
  ArrayLimit = 2
  Header = 1
  KeyBytes = 16
  HashBytes = 17
  Interval = 1
  MaxEntries = 3
SPECIFICATION Spec
INVARIANTS
  TypeOK
  NoMatchLost
  PreparedCurrent
  WithinLimits
  Relieved
  FailsOnlyWhenSpent
PROPERTIES
  FittingShrinks
  ExactKept
