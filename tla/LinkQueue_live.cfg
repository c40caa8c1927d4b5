SPECIFICATION FairSpec
CONSTANTS
    f1 = f1
    f2 = f2
    f3 = f3
    LinkFuncs = {f1, f3}
    OtherTasks = {}
    PrelinkItems = {p1}
    CmdLine = CmdLine
    NoTask = NoTask
    MaxAirBytes = 4
    AirBytes <- MCAirBytes
    AllocMayFail = FALSE
INVARIANTS
    AirAccounting
    AirBound
PROPERTIES
    ImplementsFairPipeline
    UpdateEnds
