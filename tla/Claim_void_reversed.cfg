CONSTANTS
    Requests = {r1, r2}
    Invoices = {}
    Entries = {e1, e2}
    Periods = {p1}
    Sizes = {1}
    BalancedPrefix <- NoPrefix
    ManualSources = {NONE}
    ExplicitNos = {}
    FaultyReads = FALSE
    MayAbort = FALSE
    NONE = NONE
SPECIFICATION Spec
INVARIANT PostedVoidIsReversed
