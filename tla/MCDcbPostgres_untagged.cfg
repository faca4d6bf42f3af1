SPECIFICATION Spec
CONSTANTS
    Types = {"placed", "disabled"}
    Keys = {"product", "shop"}
    Values = {"p"}
    TagKeys <- MCTagKeys
    CrossPartitionKeys = {}
    EmptyTypesMatchAny = TRUE
    place = place
    disable = disable
    retire = retire
    import = import
    Writers = {place, disable}
    QueryOf <- UntaggedQueryOf
    EventsOf <- UntaggedEventsOf
    Conditional = {place, disable}
    Hash <- MCHash
    Strategy = "advisory"
    Free = Free
    PageSize = 1
    MaxRetries = 1
    MaxXid = 0
    MaxFaults = 0
INVARIANT NoneSlipsIn
CHECK_DEADLOCK FALSE
