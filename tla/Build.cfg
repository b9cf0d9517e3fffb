CONSTANTS
  Missing = Missing
  Kind <- MCKind
  SchemaOf <- MCSchemaOf
  Schemas <- MCSchemas
  StateOf <- SchemaState
  InspectorsOf <- SchemaInspectors
  Below <- SchemaBelow
  Constraints <- MCConstraints
  Queries <- MCQueries
  BitmapLimit = 1
  ExternalIds = {a, b, c, d}
  Capacity = 3
  MaxEntries = 4
  MaxBuilds = 2
SPECIFICATION Spec
INVARIANTS TypeOK IdsDense SearchesExact ObserversKept SnapshotsFollowHints InnerNotOlder
PROPERTY BuildReturns
CHECK_DEADLOCK FALSE
