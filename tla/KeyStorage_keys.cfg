SPECIFICATION FairSpec
CONSTANTS
    Caller = {c1}
    AccessKey = {k, l}
    Listed = {l}
    Genesis = {}
    RandomPair = {r1, r2}
    PoolSize = {0, 1}
    Rand = Rand
    Empty = Empty
    Failed = Failed
    None = None
INVARIANT TypeOK
INVARIANT Unshared
INVARIANT StablePair
PROPERTY WholePair
PROPERTY TaskRemovedDone
PROPERTY RetriedTaskDone
CHECK_DEADLOCK FALSE
