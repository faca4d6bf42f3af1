SPECIFICATION Spec
CONSTANTS
    payment = payment
    reminder = reminder
    c1 = c1
    c2 = c2
    Items = {payment, reminder}
    Passes = {c1}
    DictOf <- OwnDict
    Restores = TRUE
    Detached = FALSE
    MaxTries = 2
    Natures <- Changing
    StoredBefore <- MCStoredBefore
    MaxFaults = 2
INVARIANTS BudgetPerLifetime AbandonedIsAnnounced
PROPERTY CompletedStays
CHECK_DEADLOCK FALSE
