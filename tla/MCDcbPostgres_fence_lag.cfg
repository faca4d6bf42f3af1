SPECIFICATION Spec
CONSTANTS
    Types = {"placed", "disabled"}
    Keys = {"product", "shop"}
    Values = {"p"}
    TagKeys <- MCTagKeys
    CrossPartitionKeys = {}
    EmptyTypesMatchAny = TRUE
    place = place
    disable = disable
    retire = retire
    import = import
    Writers = {place, disable}
    QueryOf <- MCQueryOf
    EventsOf <- MCEventsOf
    Conditional = {place, disable}
    Hash <- MCHash
    Strategy = "advisory"
    Free = Free
    PageSize = 1
    MaxRetries = 1
    MaxXid = 1
    MaxFaults = 0
PROPERTY LagSelfHeals
CHECK_DEADLOCK FALSE
