CONSTANTS
    Requests = {r1, r2}
    Invoices = {}
    Entries = {e1}
    Periods = {p1}
    Sizes = {4}
    BalancedPrefix <- TwoOfFour
    ManualSources = {NONE}
    ExplicitNos = {}
    FaultyReads = FALSE
    MayAbort = FALSE
    NONE = NONE
SPECIFICATION Spec
INVARIANT PostedBalances
