CONSTANTS
    N = 2
    Tunnels = {1, 2}
    TunnelIDs = {i1, i2}
    MaxEntries = 1
    MaxRequests = 2
    None = None
SPECIFICATION FairSpec
INVARIANTS
    StoreHoldsNewest
    ReplayRunsWhatWasShown
    ExitIsExplained
    CapturesCanBeReplayed
 
CHECK_DEADLOCK FALSE
