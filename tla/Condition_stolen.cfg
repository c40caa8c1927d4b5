SPECIFICATION FairSpec
CONSTANTS
    w1 = w1
    w2 = w2
    s1 = s1
    Waiters = {w1, w2}
    Signalers = {s1}
    Outside = FALSE
    Timed = TRUE
    SpuriousWakes = FALSE
    MaxCalls = 1
    TrackDebts = TRUE
    NoOne = NoOne
CHECK_DEADLOCK FALSE
PROPERTIES
    WakeupsArrive
