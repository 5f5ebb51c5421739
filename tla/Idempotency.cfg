CONSTANTS
    Attempts = {a1, a2, a3, a4}
    Keys = {k1}
    Inputs = {x1, x2}
    NONE = NONE
SPECIFICATION Spec
SYMMETRY Symmetry
INVARIANTS TypeOK ReplayFits ReplaysAgree NoRepeatAfterSave
CHECK_DEADLOCK FALSE
