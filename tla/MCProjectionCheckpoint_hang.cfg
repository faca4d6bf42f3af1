SPECIFICATION FairSpec
CONSTANTS
    h1 = h1
    h2 = h2
    Handlers = {h1}
    Axes = {"Aggregate"}
    Rank <- RankDef
    MaxRows <- Two
    MaxBatch = 1
    MaxCrashes = 0
    MaxThrows = 1
PROPERTY PublishEnds
CHECK_DEADLOCK FALSE
