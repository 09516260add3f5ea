CONSTANTS
    Secrets = {"k1"}
    Names = {n1}
    Ports = {1, 2}
    Sessions = {s1, s2}
    Requests <- MixedRequests
    PortStart = 1
    PortEnd = 1
    MaxTunnels = 1
    RateLimited = TRUE
    AuthMode = "store"
    StaticSecret = "k1"
    OperatorOps = {"create", "revoke"}
    NoName = NoName
    BadName = BadName
    BothNames = BothNames
    NoSession = NoSession
SPECIFICATION FairSpec
INVARIANTS
    TypeOK
    GaugesAgree
    SlotAccountingChecked
    TunnelCap
PROPERTIES
    ImplementsLeases
    ClosedSessionReleases
