SPECIFICATION Spec
CONSTANTS
    Id = {i, j}
    Address = {a, b}
    MaxRows = 3
    High = high
    Low = low
    Registered <- Packaged
INVARIANT TypeOK
INVARIANT NothingLost
PROPERTY StatementsKeepToTheirObject
CHECK_DEADLOCK FALSE
