SPECIFICATION Spec
CONSTANTS
    o1 = o1
    NumColumns = 1
    Specs <- NoneOrOdd
    FirstSpec <- SpecOdd
    PlanTable <- BuildColumnStatements
    Operators = {o1}
    ImmediateDeploy = FALSE
    StatusAnswers = {"ok", "notFound"}
    MaxEdits = 1
    MaxCommands = 2
    MaxFaults = 1
INVARIANTS
    TypeOK
    ExecutedPhaseIsTrue
    RecordedMeansPlanned
    RejectedNeverApplied
PROPERTIES
    OnlyApprovedRuns
    ImplementsGate
