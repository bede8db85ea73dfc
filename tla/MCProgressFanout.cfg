SPECIFICATION MCSpec
CONSTANTS
    c1 = c1
    c2 = c2
    c3 = c3
    Watchers = {w1, w2, w3}
    Buffer = 1
    MaxEvents = 2
    None = none
    Clients = {c1, c2, c3}
    Workers = {g1}
    ConnOf <- MCConnOf
    Budgets <- MCBudgets
    Nobody = nobody
INVARIANTS
    FanoutInv
    HubInv
PROPERTY NobodyHeldUp
CHECK_DEADLOCK FALSE
