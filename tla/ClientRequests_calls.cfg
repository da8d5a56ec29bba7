\* Two threads and three requests of all: equal requests, a call that is lost
\* and a sync after it, two syncs at once.
CONSTANTS
    Caller = {c1, c2}
    Item = {i, j}
    Query = {q, p}
    List = List
    None = None
    MaxRequests = 3
SPECIFICATION FairSpec
CHECK_DEADLOCK FALSE
INVARIANT HandlerRunsOnce
INVARIANT ListsAgree
PROPERTY CallsEnd
