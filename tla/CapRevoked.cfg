CONSTANTS
    Secrets = {"k1"}
    Names = {n1, n2}
    Ports = {}
    Sessions = {s1, s2}
    Requests <- RandomRequests
    PortStart = 0
    PortEnd = 0
    MaxTunnels = 1
    RateLimited = FALSE
    AuthMode = "store"
    StaticSecret = "k1"
    OperatorOps = {"create", "revoke"}
    NoName = NoName
    BadName = BadName
    BothNames = BothNames
    NoSession = NoSession
SPECIFICATION Spec
INVARIANTS
    CapPerAuthtoken
