SPECIFICATION Spec
CONSTANTS
    s1 = s1
    s2 = s2
    r1 = r1
    r2 = r2
    name = name
    total = total
    Sources = {s1, s2}
    Ids = {r1, r2}
    Fields = {name, total}
    Values = {0, 1, 2}
    NoRow = NoRow
    Unread = Unread
    MaxBatch = 3
    MaxFaults = 1
    Views <- Merging
INVARIANT FailuresAreNotAcked
CHECK_DEADLOCK FALSE
