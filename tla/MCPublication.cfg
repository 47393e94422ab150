CONSTANTS
    w1 = w1
    w2 = w2
    u1 = u1
    u2 = u2
    o1 = o1
    o2 = o2
    NoWorker = NoWorker
    Worker = {w1, w2}
    Unreliable = {w1}
    User = {u1, u2}
    Visitor = {u2}
    Op = {o1, o2}
    MaxVersion = 2
    Environments <- Mixtures
SPECIFICATION FairSpec
CHECK_DEADLOCK FALSE
INVARIANTS
    LiveIsKnown
PROPERTIES
    LiveAsApproved
    RequestsResolve
