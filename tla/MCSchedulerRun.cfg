SPECIFICATION FairSpec
CONSTANTS
    often = often
    seldom = seldom
    rare = rare
    empty = empty
    Ids = {s1, s2}
    Clients = {q1}
    Loop = loop
    Exprs = {often, seldom, rare}
    Matches <- Calendar
    Empty = empty
    Horizon = 3
    DiskFails = FALSE
    MaxTime = 6
    MaxEdits = 0
    MaxCancels = 0
    MaxCrashes = 2
    None = none
    Torn = torn
PROPERTIES
    FiresOncePerMatch
    DueIsRun
CHECK_DEADLOCK FALSE
