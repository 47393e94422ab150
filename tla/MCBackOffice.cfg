CONSTANTS
    a1 = a1
    a2 = a2
    d1 = d1
    d2 = d2
    u1 = u1
    u2 = u2
    k1 = k1
    Actor = {a1, a2}
    Data = {d1, d2}
    User = {u1, u2}
    Founder = u1
    MaxInvitations <- Invited
    Step = {1, 2}
    RecoveryCode = {k1}
    MaxFailures = 2
    MaxAttempts = 2
    MaxLinks = 2
    MaxChallenges = 1
    MaxSessions = 2
    MaxSets = 1
    MaxResets = 2
    UseSets <- SetsOfUses
    MaxVersions = 3
    MaxRevisions = 2
    MaxProposals = 2
    Topics = {"price", "fitment", "catalog"}
    Process = {k1}
    ImportRows = 2
    MaxCrashes = 1
    Run = {1, 2}
    MaxFaults = 2
    Entry = {1, 2}
    Sites = 2
    MaxStarts = 4
    MaxChanges = 1
    MaxStates = 3
    MaxEvents = 1
    PricedRow = {1, 2}
    Costs <- CostsOfRows
    Submissions <- Formula
    Edits = {777}
    Uses <- TabsAndCalls
    MaxTokens = 4
    MaxWrites = 1
SPECIFICATION OfficeSpec
SYMMETRY Symmetry
CHECK_DEADLOCK FALSE
INVARIANTS
    Types
    LiveMeansCurrent
    OwnerRemains
    OneDefault
    DisconnectedIsBare
    OnePartPerRow
    AppliedIsReported
    RefreshIsFaithful
    RowsEarnTheirTarget
    ShownIsStored
    TokensLastTheirSession
    CacheFollowsWrites
PROPERTIES
    WorksOnce
