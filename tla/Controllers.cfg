SPECIFICATION FairSpec
CONSTANTS
    Databases = {"orders", "users"}
    Target = "orders"
    Kinds = {"function", "extension", "view", "database"}
    BodiesOf <- MCBodiesOf
    DatabaseSpecs <- MCSpecs
    FirstSpec <- Plain
    DefaultCollation <- MCDefaultCollation
    CharsetOf <- MCCharsetOf
    MaxChanges <- MCMaxChanges
    MaxFaults <- MCMaxFaults
INVARIANTS
    TypeOK
    RemovedMeansDropped
PROPERTIES
    ManagersRun
    SettingsConverge
    ObjectsConverge
    DeletionEnds
CHECK_DEADLOCK FALSE
