CONSTANTS
    Secrets = {"k1", "k2"}
    Names = {}
    Ports = {1}
    Sessions = {s1, s2}
    Requests <- TCPRequests
    PortStart = 1
    PortEnd = 1
    MaxTunnels = 1
    RateLimited = FALSE
    AuthMode = "store"
    StaticSecret = "k1"
    OperatorOps = {"create", "revoke"}
    NoName = NoName
    BadName = BadName
    BothNames = BothNames
    NoSession = NoSession
SPECIFICATION Spec
PROPERTIES
    PortReservationsEnforced
