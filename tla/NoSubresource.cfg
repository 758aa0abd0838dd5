SPECIFICATION FairSpec
CONSTANTS
    o1 = o1
    NumColumns = 1
    Specs <- OneColumnSpecs
    FirstSpec <- SpecA
    PlanTable <- BuildColumnStatements
    Operators = {o1}
    ImmediateDeploy = FALSE
    StatusAnswers = {"notFound"}
    MaxEdits = 0
    MaxCommands = 0
    MaxFaults = 0
PROPERTIES
    SpecEventuallyRecorded
