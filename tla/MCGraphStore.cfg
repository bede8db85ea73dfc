SPECIFICATION FairSpec
CONSTANTS
    Objects = {g1, g2}
    Browsers = {b}
    Editors = {e1, e2}
    FirstFile <- RingFile
    NewEdges <- ShortCut
    Mingle = FALSE
    Starts = {1}
    Depths = {2}
    MaxWrites = 2
    MaxCrashes = 1
    Torn = torn
    None = none
INVARIANTS
    GraphInv
PROPERTIES
    KnownNotOverwritten
    TraverseExact
    ReadersReturn
CHECK_DEADLOCK FALSE
