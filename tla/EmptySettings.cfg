SPECIFICATION FairSpec
CONSTANTS
    Databases = {"orders", "users"}
    Target = "orders"
    Kinds = {"database"}
    BodiesOf <- MCBodiesOf
    DatabaseSpecs <- MCSpecs
    FirstSpec <- Plain
    DefaultCollation <- MCDefaultCollation
    CharsetOf <- MCCharsetOf
    MaxChanges <- MCMaxChanges
    MaxFaults <- MCMaxFaults
PROPERTIES
    EmptyMeansServerDefault
CHECK_DEADLOCK FALSE
