CONSTANTS
    w1 = w1
    w2 = w2
    j1 = j1
    j2 = j2
    i1 = i1
    i2 = i2
    r1 = r1
    a1 = a1
    NoInstance = NoInstance
    NoItem = NoItem
    NoJob = NoJob
    Instance = {w1, w2}
    Unreliable = {w1}
    Job = {j1, j2}
    Item = {i1, i2}
    Reviewer = {r1}
    Admin = {a1}
    MaxAttempts = 1
    Environments <- Some
SPECIFICATION FairSpec
CHECK_DEADLOCK FALSE
INVARIANTS
    FailedItemsAreListed
    ReviewsHaveCandidates
    DoneMeansReviewed
PROPERTIES
    ApprovalsAreFinal
    ItemsSettle
