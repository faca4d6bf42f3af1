SPECIFICATION FairSpec
CONSTANTS
    payment = payment
    reminder = reminder
    c1 = c1
    c2 = c2
    Items = {payment}
    Passes = {c1, c2}
    DictOf <- OwnDict
    Restores = TRUE
    Detached = FALSE
    MaxTries = 2
    Natures <- Steady
    StoredBefore <- MCStoredBefore
    MaxFaults = 1
INVARIANTS BudgetPerLifetime AbandonedIsAnnounced IndInv
PROPERTIES CompletedStays EveryItemEndsUnlessStranded
CHECK_DEADLOCK FALSE
