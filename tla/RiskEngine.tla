------------------------------ MODULE RiskEngine ------------------------------
(***************************************************************************)
(* The detectors of internal/engine/risk.go, the score of their findings   *)
(* and the comparisons of internal/engine/consistency.go.                  *)
(*                                                                         *)
(* Amounts are integers, in cents.  A ratio is an integer percentage, the  *)
(* two decimals that round2 leaves of a quotient.                          *)
(***************************************************************************)
EXTENDS TaxEngine, SequencesExt

Magnitude(x)  == IF x < 0 THEN -x ELSE x
Greater(a, b) == IF a >= b THEN a ELSE b

\* round2(a / b) in percent, for b > 0, half away from zero.
Percent(a, b) ==
    LET q == (200 * Magnitude(a) + b) \div (2 * b) IN IF a < 0 THEN -q ELSE q

\* Severities from silence to the worst; "blocking" is only scored.
Severity == <<"none", "info", "warning", "danger">>
Rank(level) == CHOOSE k \in 1..4 : Severity[k] = level

-----------------------------------------------------------------------------
(* Runs of consecutive filings *)

RunLevel(n) == IF n >= 3 THEN "danger" ELSE "warning"

\* A run of at least two is reported, with the places it covers.
Flush(scan) ==
    IF Len(scan.run) >= 2
    THEN Append(scan.found, [places |-> scan.run, level |-> RunLevel(Len(scan.run))])
    ELSE scan.found

ScanStep(scan, place, inRun) ==
    IF inRun THEN [scan EXCEPT !.run = Append(@, place)]
               ELSE [run |-> <<>>, found |-> Flush(scan)]

\* Mutant: the run that reaches the last filing is forgotten.
RunsWithoutTail(places, flagged) ==
    FoldLeft(LAMBDA scan, p : ScanStep(scan, p, p \in flagged),
             [run |-> <<>>, found |-> <<>>], places).found

\* One pass over the sorted places, and a last flush behind it.
Runs(places, flagged) ==
    Flush(FoldLeft(LAMBDA scan, p : ScanStep(scan, p, p \in flagged),
                   [run |-> <<>>, found |-> <<>>], places))

\* What sort.Strings and sort.Ints leave of a list without repetitions: the k-th
\* has k - 1 smaller ones.
Ascending(listed) ==
    [k \in 1..Cardinality(listed) |->
        CHOOSE p \in listed : Cardinality({q \in listed : q < p}) = k - 1]

\* Both detectors sort what the caller lists; amount[p] is a number for the
\* listed places it has data of, and the others break a run.
DetectZeroFiling(listed, known, amount) ==
    Runs(Ascending(listed), {p \in known : amount[p] = 0})
DetectConsecutiveLosses(listed, known, amount) ==
    Runs(Ascending(listed), {p \in known : amount[p] < 0})

-----------------------------------------------------------------------------
(* Deviations *)

\* Average burden, in 1/10,000 of the revenue; half for small-scale taxpayers.
IndustryBurden(industry, small) ==
    LET avg == CASE industry = "manufacturing" -> 300 [] industry = "wholesale" -> 80
                 [] industry = "services" -> 250 [] OTHER -> 200
    IN IF small THEN avg \div 2 ELSE avg

\* A burden of zero is not compared.
CalcTaxBurdenBenchmark(burden, industry, small) ==
    LET ratio == Percent(burden, IndustryBurden(industry, small)) IN
    IF burden <= 0 \/ ratio >= 60 THEN "none" ELSE IF ratio < 40 THEN "danger" ELSE "warning"

\* Mutant: the sign of the deviation is kept.
DetectInvoiceRevenueMismatchSigned(invoiced, declared) ==
    LET rate == Percent(invoiced - declared, declared) IN
    IF declared <= 0 THEN "none"
    ELSE CASE rate <= 5 -> "none" [] rate > 15 -> "danger" [] OTHER -> "warning"

\* The same for declared <= 0, where the code answers nil before it divides.
DetectInvoiceRevenueMismatch(invoiced, declared) ==
    LET rate == Magnitude(Percent(invoiced - declared, declared)) IN
    IF declared <= 0 THEN "none"
    ELSE CASE rate <= 5 -> "none" [] rate > 15 -> "danger" [] OTHER -> "warning"

ExpenseShare(industry) ==
    CASE industry = "manufacturing" -> 75 [] industry = "wholesale" -> 92
      [] industry = "construction" -> 80 [] OTHER -> 85

DetectExpenseToRevenueRatio(expense, revenue, industry) ==
    LET ratio == Percent(expense, revenue) IN
    IF revenue <= 0 THEN "none"
    ELSE CASE ratio <= ExpenseShare(industry) -> "none"
           [] ratio > 100 -> "danger" [] OTHER -> "warning"

DetectSuddenRevenueChange(current, previous) ==
    LET change == Magnitude(Percent(current - previous, previous)) IN
    IF previous <= 0 THEN "none"
    ELSE CASE change <= 50 -> "none" [] change > 100 -> "danger" [] OTHER -> "warning"

\* Round multiples of 10,000 from 50,000 on.
IsLargeRound(amount) == amount >= 50000 * YUAN /\ amount % (10000 * YUAN) = 0

-----------------------------------------------------------------------------
(* Supplier concentration: one pass over a Go map, in whatever order.         *)

\* Mutant: the share is taken of the sum met so far.
ConcentrationSoFar(order, amount) ==
    LET seen == FoldLeft(LAMBDA t, s :
                    [top |-> IF amount[s] > t.top THEN amount[s] ELSE t.top,
                     total |-> IF amount[s] > t.top THEN t.sum + amount[s] ELSE t.total,
                     sum |-> t.sum + amount[s]],
                    [top |-> 0, total |-> 0, sum |-> 0], order)
        share == Percent(seen.top, seen.total) IN
    IF seen.total <= 0 \/ share < 50 THEN "none"
    ELSE IF share > 70 THEN "danger" ELSE "warning"

DetectSupplierConcentration(order, amount) ==
    LET seen  == FoldLeft(LAMBDA t, s : [top |-> Greater(t.top, amount[s]), total |-> t.total + amount[s]],
                          [top |-> 0, total |-> 0], order)
        share == Percent(seen.top, seen.total) IN
    IF seen.total <= 0 \/ seen.top <= 0 \/ share < 50 THEN "none"
    ELSE IF share > 70 THEN "danger" ELSE "warning"

-----------------------------------------------------------------------------
(* Score *)

Points(severity) ==
    CASE severity = "blocking" -> 25 [] severity = "danger" -> 15
      [] severity = "warning" -> 5 [] OTHER -> 1

ScoreLevel(total) ==
    IF total > 50 THEN "critical" ELSE IF total > 30 THEN "high"
    ELSE IF total > 10 THEN "medium" ELSE "low"

\* Over the severities of the findings, in their order.
ScoreRiskFindings(severities) ==
    LET total == SumFunction([k \in DOMAIN severities |-> Points(severities[k])]) IN
    [total |-> total, level |-> ScoreLevel(total)]

-----------------------------------------------------------------------------
(* Consistency checks: do two sources agree? *)

CheckInvoiceToVAT(invOut, invIn, vatOut, vatIn) ==
    Magnitude(invOut - vatOut) + Magnitude(invIn - vatIn)
        <= Greater(Share(Greater(vatOut, vatIn), 1, 100), 100)

CheckInvoiceToJournal(approvedCount, journalCount, approvedAmount, journalAmount) ==
    approvedCount = journalCount /\ Magnitude(approvedAmount - journalAmount) < 2

CheckVATToCITRevenue(vat, cit) ==
    Magnitude(vat - cit) <= Greater(Share(Greater(Magnitude(vat), Magnitude(cit)), 5, 100), 100)

CheckJournalToBank(journal, bank) ==
    Magnitude(journal - bank) <= Greater(Share(Greater(Magnitude(journal), Magnitude(bank)), 1, 100), 2)
==============================================================================
