SPECIFICATION MCSpec
CONSTANTS
    p1 = p1
    p2 = p2
    q1 = q1
    q2 = q2
    q3 = q3
    c1 = c1
    c2 = c2
    r1 = r1
    r2 = r2
    Procs = {p1, p2}
    Chats = {q1, q2, q3}
    ProcOf <- MCProcOf
    Conns = {c1, c2}
    ScopeOf <- MCScopeOf
    Sessions = {s1}
    MaxHistory = 2
    MaxMemory = 2
    MaxChats = 2
    MaxWipes = 1
    MaxCrashes = 1
    MaxFaults = 1
    McpReqs = {r1, r2}
    McpConns = {c1, c2}
    CallerOf <- MCCallerOf
    HeaderOf <- MCHeaderOf
    MaxMcp = 3
    FreeModels <- MCFreeModels
    Paid = "paid"
    Deadline = 6
    LocalTry = 1
    ClientTimeout = 3
    Buffer = 2
    MaxTokens = 4
INVARIANTS ChatInv  
PROPERTY WorkEnds
CHECK_DEADLOCK FALSE
