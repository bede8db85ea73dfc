SPECIFICATION Spec
CONSTANTS
    often = often
    seldom = seldom
    rare = rare
    empty = empty
    Ids = {s1, s2}
    Clients = {q1}
    Loop = loop
    Exprs = {rare, empty}
    Matches <- Calendar
    Empty = empty
    Horizon = 2
    DiskFails = TRUE
    MaxTime = 2
    MaxEdits = 2
    MaxCancels = 1
    MaxCrashes = 1
    None = none
    Torn = torn
SYMMETRY Symmetry
INVARIANT SchedulerInv
PROPERTY StaysDeleted
CHECK_DEADLOCK FALSE
