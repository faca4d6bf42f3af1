SPECIFICATION Spec
CONSTANTS
    Types = {"placed", "withdrawn"}
    Keys = {"order", "product"}
    Values = {"1"}
    TagKeys <- MCTagKeys
    CrossPartitionKeys = {}
    EmptyTypesMatchAny = TRUE
    place = place
    withdraw = withdraw
    import = import
    bulk = bulk
    Writers = {place, withdraw, import}
    Conditional = {place, withdraw}
    QueryOf <- EntityQueryOf
    EventsOf <- EntityEventsOf
    PartitionKey <- MCPartitionKey
    Composite = {"order", "product"}
    Width = 3
    Limit = 5
    Skew = 0
    MaxRetries = 0
    MaxFaults = 0
INVARIANT ImportsAreSeen
CHECK_DEADLOCK FALSE
