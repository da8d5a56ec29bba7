SPECIFICATION FairSpec
CONSTANTS
    Message = {"a", "b", "c", "big", "zero"}
    Size <- MCSize
    ZeroHash = {"zero"}
    HeaderSize = 3
    SizeLimit = 4
    GarbageSize = {0, 2, 3}
    MaxPackages = 3
    MaxReconnects = 1
    MaxEvents = 2
INVARIANT TypeOK
INVARIANT BufferBounds
PROPERTY ImplementsDelivery
CHECK_DEADLOCK FALSE
