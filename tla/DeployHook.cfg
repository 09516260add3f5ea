CONSTANTS
    Runs = {1, 2}
    MaxAttempts = 2
    NoStatus = NoStatus
SPECIFICATION FairSpec
INVARIANTS
    OneDeployAtATime
    StatusIsTruthful
PROPERTY DeployEnds
