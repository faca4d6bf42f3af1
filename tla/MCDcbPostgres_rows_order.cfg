SPECIFICATION Spec
CONSTANTS
    Types = {"placed", "disabled"}
    Keys = {"product", "shop"}
    Values = {"p"}
    TagKeys <- MCTagKeys
    CrossPartitionKeys = {}
    EmptyTypesMatchAny = TRUE
    place = place
    disable = disable
    retire = retire
    import = import
    Writers = {place, disable}
    QueryOf <- MCQueryOf
    EventsOf <- MCEventsOf
    Conditional = {place, disable}
    Hash <- MCHash
    Strategy = "rows"
    Free = Free
    PageSize = 1
    MaxRetries = 0
    MaxXid = 0
    MaxFaults = 0
INVARIANT DecidedOnItsPast
CHECK_DEADLOCK FALSE
