SPECIFICATION FairSpec
CONSTANTS
    h1 = h1
    h2 = h2
    Handlers = {h1}
    Axes = {"Aggregate", "Dcb"}
    Rank <- RankDef
    MaxRows <- OneAndTwo
    MaxBatch = 2
    MaxCrashes = 1
    MaxThrows = 1
INVARIANTS IndInv HonestUndisturbed
PROPERTIES MissedEventsReplayed PublishEndsUnlessLost
CHECK_DEADLOCK FALSE
