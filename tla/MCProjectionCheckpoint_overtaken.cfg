SPECIFICATION Spec
CONSTANTS
    h1 = h1
    h2 = h2
    Handlers = {h1}
    Axes = {"Aggregate"}
    Rank <- RankDef
    MaxRows <- Two
    MaxBatch = 1
    MaxCrashes = 2
    MaxThrows = 0
INVARIANT HonestDuringCatchup
CHECK_DEADLOCK FALSE
