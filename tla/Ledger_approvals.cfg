CONSTANTS
    Requests = {r1, r2}
    Invoices = {i1}
    Entries = {e1, e2}
    Periods = {p1}
    Sizes = {1}
    BalancedPrefix <- NoPrefix
    ManualSources = {i1}
    ExplicitNos = {}
    FaultyReads = FALSE
    MayAbort = TRUE
    NONE = NONE
SPECIFICATION Spec
SYMMETRY Symmetry
INVARIANTS TypeOK OneDraftPerApproval PostedInvoiceBacked
PROPERTY KeepsContract
