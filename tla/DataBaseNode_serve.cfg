SPECIFICATION FairSpec
CONSTANTS
    Member = {m1}
    Guest = guest
    Object = {o, n}
    System = {n}
    Worker = {w1, w2}
    MaxRequests = 3
    MaxRuns = 2
    Grant <- SomeGrants
INVARIANT TypeOK
INVARIANT Mirror
INVARIANT ToldAreSubscribed
INVARIANT DbOutlivesWork
INVARIANT NoOrphan
PROPERTY RequestsEnd
CHECK_DEADLOCK FALSE
