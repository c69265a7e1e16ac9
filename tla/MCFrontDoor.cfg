SPECIFICATION FairSpec
CONSTANTS
    Deployments <- MCDeployments
    Visitors = {v1}
    LoginWindow = 1
    LoginMaxAttempts = 2
    SessionTtl = 2
    ProxyTimeout = 1
    MaxPausing = 2
    MaxRequests = 2
    MaxRestarts = 1
INVARIANTS
    TypeOK
    AnswersAreTrue
    FailsClosed
    LimitIsKept
PROPERTIES
    LockoutEnds
    RequestEnds
CHECK_DEADLOCK FALSE
