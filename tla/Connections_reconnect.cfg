SPECIFICATION Spec
CONSTANTS
    Local = {n}
    Remote = {p}
    Socket = {s1, s2}
    Worker = {w1}
    None = None
    MaxConnections = 2
    Penalty = {50}
    FreshPeers = FALSE
    NodeKind = {"AbstractNode", "DataBaseNode"}
    PackageKind = {"processed", "ping", "closeConnection", "notProcessed", "badRequest"}
    Preemptive = FALSE
    UserCall = {"remove", "ban", "unBan"}
    MaxCalls = 1
    MaxPackages = 1
SYMMETRY SocketSymmetry
INVARIANT NoLostSocket
INVARIANT StatusAgreesWithSocket
INVARIANT HeardStatus
CHECK_DEADLOCK FALSE
