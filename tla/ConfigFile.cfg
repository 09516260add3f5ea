SPECIFICATION Spec
CONSTANTS
    Commands = {c1, c2, c3}
    Others = {o1}
    Torn = Torn
    Broken = Broken
    None = None
INVARIANTS
    TypeOK
    FileIsWhole
    LostByOverlapOnly
CHECK_DEADLOCK FALSE
