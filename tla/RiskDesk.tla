------------------------------- MODULE RiskDesk -------------------------------
(***************************************************************************)
(* The callers of the risk detectors: filings that are listed, reported    *)
(* and corrected month by month in any order, purchases that are booked to *)
(* suppliers, and comparisons that are asked one after another.            *)
(***************************************************************************)
EXTENDS RiskEngine

CONSTANTS
    Places,       \* months (or years) of filings, a set of numbers
    Filings,      \* amounts filed: tax payable or profit
    Suppliers,
    Purchases,    \* amounts of one purchase
    MaxPurchases, \* bounds the purchases
    Compared      \* amounts put into comparisons

ASSUME RiskAssumption ==
    /\ Places \subseteq Nat /\ IsFiniteSet(Places)
    /\ Filings \subseteq Int
    /\ Purchases \subseteq Nat
    /\ Compared \subseteq Nat
    /\ MaxPurchases \in Nat
    /\ IsFiniteSet(Suppliers)

VARIABLES
    filing,    \* what the caller lists and knows
    bought,    \* per supplier, what was bought
    compared   \* the last comparison: what, how far apart, the level

riskVars == <<filing, bought, compared>>

NoFiling == [listed |-> {}, known |-> {}, amount |-> [p \in Places |-> 0]]
Uncompared == [asked |-> <<"nothing">>, distance |-> 0, rank |-> 1]

RiskInit ==
    /\ filing = NoFiling
    /\ bought = [s \in Suppliers |-> 0]
    /\ compared = Uncompared

-----------------------------------------------------------------------------
ListPlace == \E p \in Places \ filing.listed :
    /\ filing' = [filing EXCEPT !.listed = @ \cup {p}]
    /\ UNCHANGED <<bought, compared>>

\* A first filing or a correction.
File == \E p \in Places, v \in Filings :
    /\ filing' = [filing EXCEPT !.known = @ \cup {p}, !.amount[p] = v]
    /\ UNCHANGED <<bought, compared>>

Purchase == \E s \in Suppliers, v \in Purchases :
    /\ SumFunction(bought) + v <= MaxPurchases
    /\ bought' = [bought EXCEPT ![s] = @ + v]
    /\ UNCHANGED <<filing, compared>>

Compare(asked, distance, level) ==
    /\ compared.asked \in {Uncompared.asked, asked}  \* bound: one question, of any figures
    /\ compared' = [asked |-> asked, distance |-> distance, rank |-> Rank(level)]
    /\ UNCHANGED <<filing, bought>>

CompareInvoiced == \E i, d \in Compared :
    Compare(<<"invoiced", d>>, Magnitude(i - d), DetectInvoiceRevenueMismatch(i, d))
CompareExpense == \E e, r \in Compared, ind \in {"manufacturing", "wholesale", "other"} :
    Compare(<<"expense", r, ind>>, e, DetectExpenseToRevenueRatio(e, r, ind))
CompareRevenue == \E c, p \in Compared :
    Compare(<<"revenue", p>>, Magnitude(c - p), DetectSuddenRevenueChange(c, p))
CompareBurden == \E b \in Compared, ind \in {"manufacturing", "services", "other"}, small \in BOOLEAN :
    Compare(<<"burden", ind, small>>, -b, CalcTaxBurdenBenchmark(b, ind, small))
CompareSources == \E a, b \in Compared :
    \/ Compare(<<"vat", a, a < b>>, Magnitude(a - b),
               IF CheckInvoiceToVAT(b, 0, a, 0) THEN "none" ELSE "warning")
    \/ Compare(<<"cit", a, a < b>>, Magnitude(a - b),
               IF CheckVATToCITRevenue(a, b) THEN "none" ELSE "warning")
    \/ Compare(<<"bank", a, a < b>>, Magnitude(a - b),
               IF CheckJournalToBank(a, b) THEN "none" ELSE "warning")

FilingNext   == ListPlace \/ File
PurchaseNext == Purchase
CompareNext  == CompareInvoiced \/ CompareExpense \/ CompareRevenue \/ CompareBurden \/ CompareSources

RiskSpec == RiskInit /\ [][FilingNext \/ PurchaseNext \/ CompareNext]_riskVars

-----------------------------------------------------------------------------
RiskTypeOK ==
    /\ filing.listed \subseteq Places /\ filing.known \subseteq Places
    /\ filing.amount \in [Places -> Int]
    /\ bought \in [Suppliers -> Nat]
    /\ compared.distance \in Int /\ compared.rank \in 1..4

\* All runs of at least two flagged neighbours that no neighbour extends.
MaximalRuns(places, flagged) ==
    { SubSeq(places, k[1], k[2]) :
        k \in {k \in (1..Len(places)) \X (1..Len(places)) :
                 /\ k[1] < k[2]
                 /\ \A j \in k[1]..k[2] : places[j] \in flagged
                 /\ k[1] = 1 \/ places[k[1] - 1] \notin flagged
                 /\ k[2] = Len(places) \/ places[k[2] + 1] \notin flagged} }

Exactly(found, runs) ==
    /\ {r.places : r \in ToSet(found)} = runs
    /\ Len(found) = Cardinality(runs)
    /\ \A r \in ToSet(found) : (r.level = "danger") = (Len(r.places) >= 3)

\* DetectZeroFiling and DetectConsecutiveLosses report each maximal run of
\* zero or negative filings once, whatever order the filings came in, and a
\* listed month without data ends a run.
RunsMaximal ==
    LET places == Ascending(filing.listed)
        Zero == {p \in filing.known : filing.amount[p] = 0}
        Loss == {p \in filing.known : filing.amount[p] < 0} IN
    /\ Exactly(DetectZeroFiling(filing.listed, filing.known, filing.amount), MaximalRuns(places, Zero))
    /\ Exactly(DetectConsecutiveLosses(filing.listed, filing.known, filing.amount), MaximalRuns(places, Loss))

\* DetectSupplierConcentration ranges over a Go map: the order is different
\* in every call, the level must not be.
ConcentrationOrderFree ==
    \A l, m \in {DetectSupplierConcentration(o, bought) : o \in SetToSeqs(Suppliers)} : l = m

\* The further two figures are apart, the graver the finding, across every
\* threshold and tolerance of risk.go and consistency.go.  A tax burden of
\* zero is the exception: CalcTaxBurdenBenchmark answers nil for it.
LevelFollowsDistance ==
    [][ /\ compared'.asked = compared.asked
        /\ compared'.distance >= compared.distance
        /\ ~(compared'.asked[1] = "burden" /\ compared'.distance = 0)
        => compared'.rank >= compared.rank ]_compared
==============================================================================
