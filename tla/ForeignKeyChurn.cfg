SPECIFICATION Spec
CONSTANTS
  Engines = {"postgres"}
  Specs <- ForeignKeySpecs
  MaxEdits = 1
  MaxWrites = 0
  MaxInterrupts = 0
INVARIANT ReplanIsEmpty
CHECK_DEADLOCK FALSE
