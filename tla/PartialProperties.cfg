SPECIFICATION Spec
CONSTANTS
  Engines = {"cassandra"}
  Specs <- PartialSpecs
  MaxEdits = 1
  MaxWrites = 0
  MaxInterrupts = 0
INVARIANT PlanApplies
CHECK_DEADLOCK FALSE
