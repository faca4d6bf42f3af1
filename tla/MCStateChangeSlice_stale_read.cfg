SPECIFICATION Spec
CONSTANTS
    h1 = h1
    h2 = h2
    c1 = c1
    c2 = c2
    open = open
    enrollA = enrollA
    enrollB = enrollB
    Types = {"opened", "enrolled"}
    Keys = {"course", "student"}
    Values = {"x", "a", "b"}
    TagKeys <- MCTagKeys
    CrossPartitionKeys = {"course"}
    EmptyTypesMatchAny = TRUE
    Slices = {"Open", "Trial", "Enroll"}
    Commands = {open, enrollA, enrollB}
    Containers = {c1}
    Handlers = {h1, h2}
    Home <- OneHome
    SliceOf <- OfCommands
    Consumed <- MCConsumed
    Produced <- MCProduced
    Stable = {enrollA}
    CommandTags <- MCCommandTags
    Expanded = {}
    Events <- MCEvents
    Decide <- MCDecide
    Refuses <- MCRefuses
    Rejected = Rejected
    NoEntry = NoEntry
    ReadConsistency = "EscalateOnRetry"
    MaxRetries = 1
    MaxReceive = 2
    MaxFaults = 0
PROPERTIES
    RejectionSeesStored
CHECK_DEADLOCK FALSE
