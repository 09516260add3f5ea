CONSTANTS
    Tokens = {1, 2}
    Limit = 2
    MaxForward = 75
    ClockSteps = {15, 31}
SPECIFICATION Spec
INVARIANTS
    GrantsBounded
