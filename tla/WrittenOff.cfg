SPECIFICATION Spec
CONSTANTS
    o1 = o1
    NumColumns = 2
    Specs <- TwoSpecs
    FirstSpec <- SpecA
    PlanTable <- BuildColumnStatements
    Operators = {o1}
    ImmediateDeploy = FALSE
    StatusAnswers = {"notFound"}
    MaxEdits = 1
    MaxCommands = 3
    MaxFaults = 0
INVARIANTS
    ApprovedIsNotWrittenOff
