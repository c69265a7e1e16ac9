SPECIFICATION FairSpec
CONSTANTS
    Threads = {t1, t2, t3}
    NoThread = NoThread
    Ttls = {2, 5}
    MinRemaining = 1
    KeyLifetime = 3
    MaxTime = 2
INVARIANTS
    TypeOK
    SasWithinKey
PROPERTIES
    KeyLivesLonger
    LockIsGivenBack
