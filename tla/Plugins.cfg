SPECIFICATION FairSpec
CONSTANTS
    Callers = {"c1", "c2"}
    Engines = {"rqlite"}
    Drivers = {"rqlite"}
    SupportedEngines <- OwnEngine
    knownEngines <- OwnEngine
    normalize <- OwnName
    Given = {"default", "seed"}
    MaxCalls = 3
    MaxFaults = 1
    MaxRestarts = 1
INVARIANTS
    TypeOK
    OnlyWholeBinariesStart
    OnceTellsTheTruth
    ConnectionsAreTheCallers
    NobodyIsCutOff
    ProcessesAreBounded
    PlannedAsWritten
PROPERTIES
    EveryCallReturns
CHECK_DEADLOCK FALSE
