SPECIFICATION Spec
CONSTANTS
    Message = {"a", "c"}
    Size <- MCSize
    ZeroHash = {}
    HeaderSize = 2
    SizeLimit = 4
    GarbageSize = {0, 2, 3}
    MaxPackages = 3
    MaxReconnects = 1
    MaxEvents = 2
INVARIANT LoopAdvances
CHECK_DEADLOCK FALSE
