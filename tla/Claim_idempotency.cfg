CONSTANTS
    Attempts = {a1, a2}
    Keys = {k1}
    Inputs = {x1}
    NONE = NONE
SPECIFICATION Spec
INVARIANT ChangedOnce
CHECK_DEADLOCK FALSE
