CONSTANTS
    Handles = {h1, h2, h3, h4}
    Publics = {p1, p2}
    None = None
SPECIFICATION FairSpec
INVARIANTS
    ServesItsPublicName
    OneOpenSession
    FinishedLeavesNothing
    EndIsExplained

    
    
CHECK_DEADLOCK FALSE
