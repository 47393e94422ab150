CONSTANTS
    w1 = w1
    w2 = w2
    p1 = p1
    j1 = j1
    j2 = j2
    i1 = i1
    i2 = i2
    i3 = i3
    NoItem = NoItem
    Worker = {w1, w2}
    Api = {p1}
    Mortal = {w1}
    Job = {j1, j2}
    Item = {i1, i2, i3}
    JobOf <- Sheets
    Scenarios <- Paused
SPECIFICATION Spec
CHECK_DEADLOCK FALSE
PROPERTY
    PausedWaits
