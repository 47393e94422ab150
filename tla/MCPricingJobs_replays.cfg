CONSTANTS
    w1 = w1
    w2 = w2
    a1 = a1
    a2 = a2
    j1 = j1
    j2 = j2
    i1 = i1
    i2 = i2
    i3 = i3
    p1 = p1
    p2 = p2
    NoInstance = NoInstance
    NoItem = NoItem
    Instance = {w1, w2}
    Part = {p1, p2}
    Job = {j1}
    Item = {i1}
    JobOf <- SoleJobOf
    PartOf <- SolePartOf
    Mortal = {}
    Admin = {a1,a2}
    MaxAttempts = 1
    SlowHeartbeats = TRUE
    DrainTimeout = FALSE
    DbErrors = TRUE
SPECIFICATION Spec
CHECK_DEADLOCK FALSE
SYMMETRY Symmetry
INVARIANTS
    TypeOK
    FailedItemsAreListed
    RequeuedItemsArePending
    CompletedItemsHaveEvidence
