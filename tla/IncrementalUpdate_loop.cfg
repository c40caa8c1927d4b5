SPECIFICATION FairSpec
CONSTANTS
    n = n
    nty = nty
    m = m
    f = f
    g = g
    T = T
    c = c
    s1 = s1
    s2 = s2
    Units = {n, nty, m, f, g, T, c}
    Sources = {s1, s2}
    NoUnit = NoUnit
    KindOf <- MCKindOf
    ValueOf <- MCValueOf
    SourceOf <- MCSourceOf
    OwnerOf <- MCOwnerOf
    Instances = {g}
    MayUse <- MCMayUse
    IesLoops = TRUE
CHECK_DEADLOCK FALSE
INVARIANTS
    LoopHasChoice
