SPECIFICATION FairSpec
CONSTANTS
    w1 = w1
    w2 = w2
    s1 = s1
    Waiters = {w1, w2}
    Signalers = {s1}
    Outside = TRUE
    Timed = TRUE
    SpuriousWakes = TRUE
    MaxCalls = 2
    TrackDebts = TRUE
    NoOne = NoOne
CHECK_DEADLOCK FALSE
INVARIANTS
    SignalsCounted
    SignalsReach
PROPERTIES
    ImplementsCondition
    NoWakeupLost
