SPECIFICATION FairSpec
CONSTANTS
    Types = {"placed", "disabled"}
    Keys = {"product", "shop"}
    Values = {"p"}
    TagKeys <- MCTagKeys
    CrossPartitionKeys = {}
    EmptyTypesMatchAny = TRUE
    place = place
    disable = disable
    retire = retire
    import = import
    Writers = {disable, retire, import}
    QueryOf <- MCQueryOf
    EventsOf <- MCEventsOf
    Conditional = {disable, retire}
    Hash <- MCHash
    Strategy = "rows"
    Free = Free
    PageSize = 1
    MaxRetries = 1
    MaxXid = 1
    MaxFaults = 1
INVARIANT NoCircularWait
PROPERTY AppendsEnd
CHECK_DEADLOCK FALSE
