SPECIFICATION Spec
CONSTANTS
    t1 = t1
    t2 = t2
    Jobs = {j1}
    Tables = {t1}
    Content <- Two
    Keyed = {t1}
    Ignores = FALSE
    BatchSizes = {1}
    DefaultBatch = 2
    Modes = {"error"}
    DryRuns = {FALSE}
    MaxDeletes = 0
INVARIANT CancelSticks
