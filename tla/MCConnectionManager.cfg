SPECIFICATION MCSpec
CONSTANTS
    Ids = {c1, c2}
    Requests = {r1, r2}
    Checker = checker
    None = none
    pg = pg
    my = my
    redis = redis
    Dbs = {pg, my, redis}
    KindOf <- MCKindOf
    Nobody = nobody
    Worlds <- MCWorlds
INVARIANTS
    IInv
    
PROPERTIES
    NoResurrection
    HealthyArePinged
    EveryoneReturns
