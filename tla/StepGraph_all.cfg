SPECIFICATION FairSpec
CONSTANTS
    lib = lib
    gen = gen
    app = app
    doc = doc
    w1 = w1
    w2 = w2
    Steps = {lib, gen, app, doc}
    Workers = {w1, w2}
    NoStep = NoStep
    Projects <- MCProjects
    MaxBuilds = 2
CHECK_DEADLOCK FALSE
INVARIANTS
    GraphBuilt
    MadeOnce
    DepsFirst
    MemoryBudget
    NothingForgotten
PROPERTIES
    BuildEnds
