SPECIFICATION FairSpec
CONSTANTS
    t1 = t1
    t2 = t2
    t3 = t3
    Threads = {t1, t2, t3}
    X86 = FALSE
    MaxPermits = 1
    NoOne = NoOne
INVARIANTS
    Exclusive
    PermitsMatch
PROPERTIES
    LetIn
