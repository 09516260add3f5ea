CONSTANTS
    Secrets = {"k1", "k2"}
    Names = {n1}
    Ports = {1}
    Sessions = {s1, s2}
    Requests <- ClaimRequests
    PortStart = 1
    PortEnd = 1
    MaxTunnels = 0
    RateLimited = FALSE
    AuthMode = "store"
    StaticSecret = "k1"
    OperatorOps = {"create", "revoke", "reserve", "unreserve"}
    NoName = NoName
    BadName = BadName
    BothNames = BothNames
    NoSession = NoSession
SPECIFICATION Spec
SYMMETRY SessionSymmetry
INVARIANTS
    RegistryOwned
    ListenerOwned
    ClaimsAreReserved
    IdsNameOneSecret
PROPERTIES
    RevocationIsPermanent
    ReservationsAreNotStolen
