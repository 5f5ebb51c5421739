SPECIFICATION BackOfficeSpec

CONSTANTS
    Amounts <- MCAmounts
    Salaries <- MCSalaries
    Profits <- MCProfits
    Expenses <- MCExpenses
    Places = {1, 2, 3, 4, 5}
    Filings <- MCFilings
    Suppliers = {s1, s2, s3}
    Purchases <- MCPurchases
    MaxPurchases = 30
    Compared <- MCCompared
    InvoiceIds <- MCInvoiceIds
    Deals <- MCDeals
    ManualEntries <- MCManualEntries
    MaxVouchers = 3
    ListLimit = 2
    AllBooks = {b1, b2, b3}
    Switchers = {w1, w2}
    Seed = b1
    NoBook = NoBook
    Senders = {c1, c2}
    Ids <- MCIds
    Batches <- MCBatches
    MaxFresh = 2
    NoId = NoId
    Invoices = {i1, i2}
    Transactions = {t1, t2, t3}
    Clerks = {k1, k2}
    MaxShipments = 1
    a1 = a1
    a2 = a2

SYMMETRY MCSymmetry

INVARIANTS
    BackOfficeTypeOK
    BracketsMarginal
    WithholdingTracksYear
    QuartersSettle
    RunsMaximal
    ConcentrationOrderFree
    BooksBalance
    VATMatchesLedger
    CrossCheckComplete
    ReturnMatchesEngine
    StatementsAddUp
    StatementsCountOnce
    ProfitsReconcile
    PostedBooksPassOnlyUnread
    DangerIsNotLow
    OneDefault
    DefaultServes
    BatchStoredOnce
    DoublePaymentNeedsOldSummary

PROPERTIES
    MoreBaseMoreTax
    LevelFollowsDistance

CHECK_DEADLOCK FALSE
