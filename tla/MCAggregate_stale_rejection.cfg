SPECIFICATION Spec
CONSTANTS
    h1 = h1
    h2 = h2
    c1 = c1
    c2 = c2
    pay = pay
    draw = draw
    sweep = sweep
    peek = peek
    Containers = {c1, c2}
    Handlers = {h1, h2}
    Home <- TwoHomes
    Commands = {pay, draw, peek}
    Stable = {}
    Events = {"paid", "drawn"}
    Decide <- MCDecide
    Rejected = Rejected
    NoEntry = NoEntry
    MaxConflictRetries = 1
    SnapshotInterval = 0
    MaxBatch = 1
    MaxReceive = 2
    MaxFaults = 0
PROPERTIES
    RejectionSeesAccepted
CHECK_DEADLOCK FALSE
