SPECIFICATION FairSpec
CONSTANTS
    t1 = t1
    t2 = t2
    Jobs = {j1}
    Tables = {t1, t2}
    Content <- LongAndShort
    Keyed = {t1}
    Ignores = FALSE
    BatchSizes = {0, 1}
    DefaultBatch = 2
    Modes = {"error", "skip", "overwrite"}
    DryRuns = {FALSE, TRUE}
    MaxDeletes = 2
INVARIANTS
    ControlInv
    
    LateBounded
PROPERTIES
    KeepsPromise
    EveryJobEnds
