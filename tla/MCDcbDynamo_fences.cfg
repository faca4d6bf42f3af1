SPECIFICATION Spec
CONSTANTS
    Types = {"placed", "withdrawn"}
    Keys = {"order", "product", "shop"}
    Values = {"1"}
    TagKeys <- MCTagKeys
    CrossPartitionKeys = {"shop"}
    EmptyTypesMatchAny = TRUE
    place = place
    withdraw = withdraw
    import = import
    bulk = bulk
    Writers = {place, withdraw, import, bulk}
    Conditional = {place, withdraw}
    QueryOf <- MCQueryOf
    EventsOf <- MCEventsOf
    PartitionKey <- MCPartitionKey
    Composite = {}
    Width = 3
    Limit = 5
    Skew = 1
    MaxRetries = 1
    MaxFaults = 1
INVARIANTS MissesOnlyBehind IndInv
PROPERTY RefusalsHeal
CHECK_DEADLOCK FALSE
