CONSTANTS
    Requests = {r1, r2}
    Invoices = {}
    Entries = {e1, e2, e3}
    Periods = {p1}
    Sizes = {2}
    BalancedPrefix <- NoPrefix
    ManualSources = {NONE}
    ExplicitNos = {}
    FaultyReads = FALSE
    MayAbort = FALSE
    NONE = NONE
SPECIFICATION Spec
SYMMETRY Symmetry
INVARIANTS ReversalsMatch VouchersDense PostedComplete
