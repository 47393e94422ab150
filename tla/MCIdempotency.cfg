CONSTANTS
    r1 = r1
    r2 = r2
    r3 = r3
    r4 = r4
    k1 = k1
    b1 = b1
    b2 = b2
    NoKey = NoKey
    NoRecord = NoRecord
    Request = {r1, r2, r3, r4}
    Key = {k1}
    KeyOf <- Keys
    BodyOf <- Bodies
    Mortal = {r1, r2}
    CommandErrors = TRUE
    Expiry = TRUE
    FaultSets <- AllOrNone
SPECIFICATION FairSpec
CHECK_DEADLOCK FALSE
INVARIANTS
    TypeOK
    AnswersAreBacked
PROPERTIES
    OncePerKey
    ReservationsSettle
