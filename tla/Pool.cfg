SPECIFICATION FairSpec
CONSTANTS
    Requests = {r1, r2, r3}
    Connections = {c1, c2, c3}
    Rows = {1}
    NONE = NONE
INVARIANTS TypeOK SomeoneMoves
PROPERTY EveryRequestEnds
CHECK_DEADLOCK FALSE
