SPECIFICATION Spec
CONSTANTS
  Engines = {"postgres", "timescaledb", "mysql", "sqlite", "rqlite", "cassandra"}
  Specs <- MCSpecs
  MaxEdits = 2
  MaxWrites = 2
  MaxInterrupts = 1
INVARIANTS TypeOK  SpecReached ReplanIsEmpty SeedsArrive GeneratedInSync
PROPERTIES RowsKept WantedNeverDropped UnmanagedPoliciesKept
CHECK_DEADLOCK FALSE
