SPECIFICATION MCSpec
CONSTANTS
    Reqs = {r1, r2}
    PubAdmins = {"hermes"}
    NewNames = {"admin", "bob"}
    NewPwds = {"p1", "admin"}
    MaxCalls = 3
    MaxCrashes = 1
    MaxNow = 1
    Logins = {r1, r2}
    Users = {"admin"}
    Ips = {"ip"}
    Roles = {"admin", "user"}
    Threshold = 2
    Duration = 1
    Life = 1
    Budgets <- MCBudgets
    MaxTime = 3
SYMMETRY Symmetry
INVARIANTS LoginInv  SerialChangesKept
CHECK_DEADLOCK FALSE
