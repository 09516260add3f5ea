CONSTANTS
    Addrs = {"ip1", "ip2"}
    Creds = {"c1"}
    Methods = {"GET", "POST"}
    Base = "base"
    OtherHost = "other"
    None = None
    Names = {"n1"}
    Sessions = {s1, s2}
    Visitors = {v1}
    Policies <- SomePolicies
    Visits <- SomeVisits
    HasMetrics = TRUE
    HasAdmin = TRUE
SPECIFICATION FairSpec
INVARIANTS
    StreamsObeyTheirTunnel
    JudgedAddressIsShown
    AskIsHonest
PROPERTIES
    StrandedRequestsEnd
