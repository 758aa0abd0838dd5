SPECIFICATION FairSpec
CONSTANTS
    o1 = o1
    NumColumns = 1
    Specs <- NoneOrOdd
    FirstSpec <- SpecOdd
    PlanTable <- BuildColumnStatements
    Operators = {o1}
    ImmediateDeploy = FALSE
    StatusAnswers = {"notFound"}
    MaxEdits = 1
    MaxCommands = 1
    MaxFaults = 1
PROPERTIES
    PlanKeepsUp
    ApprovedProceeds
