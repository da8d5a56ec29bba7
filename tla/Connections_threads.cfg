SPECIFICATION FairSpec
CONSTANTS
    Local = {}
    Remote = {p, q}
    Socket = {s1, s2}
    Worker = {w1}
    None = None
    MaxConnections = 1
    Penalty = {}
    FreshPeers = TRUE
    NodeKind = {"AbstractNode"}
    PackageKind = {"processed", "closeConnection"}
    Preemptive = TRUE
    UserCall = {}
    MaxCalls = 0
    MaxPackages = 1
INVARIANT TypeOK
INVARIANT SctAlive
INVARIANT NoLostSocket
INVARIANT ConnectionLimit
PROPERTY UnconfirmedRemoved
CHECK_DEADLOCK FALSE
