SPECIFICATION Spec
CONSTANTS
    f1 = f1
    f2 = f2
    f3 = f3
    LinkFuncs = {f1, f3}
    OtherTasks = {n1}
    PrelinkItems = {p1}
    CmdLine = CmdLine
    NoTask = NoTask
    MaxAirBytes = 4
    AirBytes <- MCAirBytes
    AllocMayFail = TRUE
INVARIANTS
    SingleLinkThread
    NoLostMir
    MirOwnership
    QueueAsserts
    WaitGroupExact
    FlushReady
PROPERTIES
    ImplementsPipeline
