SPECIFICATION Spec
CONSTANTS
    h1 = h1
    h2 = h2
    c1 = c1
    c2 = c2
    pay = pay
    draw = draw
    sweep = sweep
    peek = peek
    Containers = {c1}
    Handlers = {h1, h2}
    Home <- OneHome
    Commands = {pay, sweep}
    Stable = {pay}
    Events = {"paid", "drawn"}
    Decide <- MCDecide
    Rejected = Rejected
    NoEntry = NoEntry
    MaxConflictRetries = 1
    SnapshotInterval = 2
    MaxBatch = 2
    MaxReceive = 2
    MaxFaults = 1
INVARIANTS DecidedOnItsPast MemosArePrefixes StableDecidedOnce IndInv
CHECK_DEADLOCK FALSE
