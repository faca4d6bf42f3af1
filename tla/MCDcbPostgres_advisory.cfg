SPECIFICATION Spec
CONSTANTS
    Types = {"placed", "disabled"}
    Keys = {"product", "shop"}
    Values = {"p"}
    TagKeys <- MCTagKeys
    CrossPartitionKeys = {}
    EmptyTypesMatchAny = TRUE
    place = place
    disable = disable
    retire = retire
    import = import
    Writers = {place, disable, retire, import}
    QueryOf <- MCQueryOf
    EventsOf <- MCEventsOf
    Conditional = {place, disable, retire}
    Hash <- MCHash
    Strategy = "advisory"
    Free = Free
    PageSize = 1
    MaxRetries = 1
    MaxXid = 2
    MaxFaults = 1
INVARIANTS NoneSlipsIn DecidedOnItsPast IndInv
PROPERTIES KeepsContract
CHECK_DEADLOCK FALSE
