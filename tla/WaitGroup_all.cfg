SPECIFICATION FairSpec
CONSTANTS
    k1 = k1
    k2 = k2
    k3 = k3
    Tasks = {k1, k2, k3}
    MaxRounds = 3
    Timed = TRUE
CHECK_DEADLOCK FALSE
INVARIANTS
    NoUseAfterWait
PROPERTIES
    WaitsForAll
    WaitReturns
