SPECIFICATION MCSpec
CONSTANTS
    u1 = u1
    u2 = u2
    k1 = k1
    k2 = k2
    k3 = k3
    Reqs = {q1, q2}
    Users = {u1, u2}
    Keys = {k1, k2, k3}
    KindOf <- MCKindOf
    OwnerOf <- MCOwnerOf
    Rows = {1, 2}
    Values = {"text", "blob"}
    Saved = {k1, k2}
    First <- MCFirst
    Printed <- MCPrinted
    MaxDepth = 2
    MaxWrites = 1
    MaxCalls = 2
    MaxCrashes = 1
    MaxText = 5
    TagLen = 2
    Block = 3
    PubLen = 2
    SaltLen = 1
    Word = 2
    Base = 3
    MaxRsa = 2
    Batch = 2
    MaxPerPage = 2
    DefaultPerPage = 2
    FirstRows = 3
    Plans <- MCPlans
INVARIANTS ColumnInv  
CHECK_DEADLOCK FALSE
