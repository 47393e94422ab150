CONSTANTS
    r1 = r1
    c1 = c1
    c2 = c2
    Request <- MCRequest
    Seller <- MCSeller
    MaxStates = 2
    MaxEvents = 0
SPECIFICATION Spec
CHECK_DEADLOCK FALSE
PROPERTY DisconnectRemoves
