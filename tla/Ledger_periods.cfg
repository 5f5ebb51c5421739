CONSTANTS
    Requests = {r1, r2}
    Invoices = {i1}
    Entries = {e1}
    Periods = {p1}
    Sizes = {1}
    BalancedPrefix <- NoPrefix
    ManualSources = {NONE}
    ExplicitNos = {}
    FaultyReads = FALSE
    MayAbort = FALSE
    NONE = NONE
SPECIFICATION FairSpec
INVARIANTS OneCloser OnlyStragglersWrite CloseOverlooksNothing
PROPERTY ClosingEnds
