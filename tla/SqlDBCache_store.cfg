SPECIFICATION FairSpec
CONSTANTS
    Caller = {c1, c2}
    CachedCaller = {c1}
    Member = {m}
    Row = {r}
    Value = {v1, v2}
    None = None
    Kind = {"SqlDB", "SqlDBCache"}
    MaxCalls = 3
INVARIANT TypeOK
PROPERTY ImplementsStore
PROPERTY CallsReturn
