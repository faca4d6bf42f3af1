SPECIFICATION Spec
CONSTANTS
    payment = payment
    reminder = reminder
    c1 = c1
    c2 = c2
    Items = {payment}
    Passes = {c1, c2}
    DictOf <- OwnDict
    Restores = TRUE
    Detached = FALSE
    MaxTries = 2
    Natures <- Sendable
    StoredBefore <- NothingStored
    MaxFaults = 0
INVARIANT AnswerIsHeard
CHECK_DEADLOCK FALSE
