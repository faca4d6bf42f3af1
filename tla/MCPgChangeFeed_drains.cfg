SPECIFICATION FairSpec
CONSTANTS
    Drains = {d1, d2}
    PageSize = 2
    MaxXid = 3
    MaxRows = 3
    MaxFaults = 1
INVARIANTS NothingSkipped IndInv
PROPERTIES EveryEventHandled CursorsAreStable
CHECK_DEADLOCK FALSE
