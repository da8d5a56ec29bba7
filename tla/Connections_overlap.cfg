SPECIFICATION Spec
CONSTANTS
    Local = {n}
    Remote = {p}
    Socket = {s1}
    Worker = {w1}
    None = None
    MaxConnections = 1
    Penalty = {}
    FreshPeers = TRUE
    NodeKind = {"AbstractNode"}
    PackageKind = {"processed", "ping"}
    Preemptive = TRUE
    UserCall = {}
    MaxCalls = 0
    MaxPackages = 1
INVARIANT NoUseAfterFree
CHECK_DEADLOCK FALSE
