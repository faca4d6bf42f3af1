SPECIFICATION InlineSpec
CONSTANTS
    c1 = c1
    c2 = c2
    c3 = c3
    Calls = {c1, c2, c3}
    MaxRunning = 3
    MaxEvents = 1
SYMMETRY Symmetry
INVARIANTS InlineIndInv OnlyLossMisleads
CHECK_DEADLOCK FALSE
