CONSTANTS
    Caller = {c1}
    Item = {i}
    Query = {q}
    List = List
    None = None
    MaxRequests = 2
SPECIFICATION Spec
CHECK_DEADLOCK FALSE
INVARIANT HandlerInvoked
