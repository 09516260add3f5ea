CONSTANTS
    Handles = {h1, h2, h3, h4}
    Publics = {p1, p2}
    None = None
SPECIFICATION FairSpec
PROPERTY CloseEndsWait
CHECK_DEADLOCK FALSE
