SPECIFICATION FairSpec
CONSTANTS
    w1 = w1
    w2 = w2
    k1 = k1
    k2 = k2
    Workers = {w1, w2}
    Main = Main
    Manager = Manager
    NoTask = NoTask
    Tasks = {k1, k2}
    Kinds = {"wgid", "plain"}
    TrackIds = TRUE
    ManagerSpawns = TRUE
    Oom = TRUE
CHECK_DEADLOCK FALSE
INVARIANTS
    EachTaskOnce
    PoolOutlivesTasks
    GroupsExact
    NobodyStuck
PROPERTIES
    QueuedRuns
    WaitsReturn
