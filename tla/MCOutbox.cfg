CONSTANTS
    w1 = w1
    w2 = w2
    p1 = p1
    p2 = p2
    p3 = p3
    e1 = e1
    u1 = u1
    u2 = u2
    NoWorker = NoWorker
    NoEvent = NoEvent
    NoUser = NoUser
    Worker = {w1, w2}
    Poll = {p1, p2, p3}
    WorkerOf <- Overlapping
    Event = {e1}
    User = {u1, u2}
    Wants = {u1, u2}
    Audience <- ToAll
    MaxAttempts = 2
    FaultSets <- SomeFaults
SPECIFICATION FairSpec
CHECK_DEADLOCK FALSE
INVARIANTS
    NoDuplicateEmail
PROPERTIES
    KeepsPromise
    EventsSettle
