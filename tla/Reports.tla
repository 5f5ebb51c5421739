-------------------------------- MODULE Reports --------------------------------
(***************************************************************************)
(* The reports of one book and period: pure functions of the posted lines  *)
(* and the posted invoices that the SELECTs of a report return.            *)
(*                                                                         *)
(* A line is [account, dir, debit, credit, key], an invoice is [direction, *)
(* net, tax, gross, seller, key]; key makes equal rows distinct.  Amounts  *)
(* are in cents.  An account code is the sequence of its digits, so that a *)
(* prefix of the code is a prefix of the sequence.  Where the code ignores *)
(* the error of a SELECT and goes on, the operator has an argument failed, *)
(* the SELECTs that fail.                                                  *)
(***************************************************************************)
EXTENDS RiskEngine

CONSTANT ListLimit  \* rows a list of the consistency check returns, 1000 in the code

ASSUME ListLimitAssumption == ListLimit \in Nat \ {0}

-----------------------------------------------------------------------------
(* Balances *)

\* Rows by account; codes carry one name here.
TrialBalance(lines) ==
    [a \in {l.account : l \in lines} |->
        [debit  |-> SumFunction([l \in {l \in lines : l.account = a} |-> l.debit]),
         credit |-> SumFunction([l \in {l \in lines : l.account = a} |-> l.credit])]]

IsBalanced(rows) ==
    SumFunction([a \in DOMAIN rows |-> rows[a].debit])
    = SumFunction([a \in DOMAIN rows |-> rows[a].credit])

\* The ending balance is on the debit or on the credit side.
AccountBalance(lines) ==
    LET rows == TrialBalance(lines) IN
    [a \in DOMAIN rows |->
        [debit |-> rows[a].debit, credit |-> rows[a].credit,
         endingDebit  |-> AtLeast0(rows[a].debit - rows[a].credit),
         endingCredit |-> AtLeast0(rows[a].credit - rows[a].debit)]]

-----------------------------------------------------------------------------
(* Value added tax *)

Direction(invoices, d) == {i \in invoices : i.direction = d}

\* Everything that is not output counts as input.
VATSummary(invoices) ==
    LET out == Direction(invoices, "output")  in == invoices \ out IN
    [outputCount |-> Cardinality(out), outputNet |-> SumFunction([i \in out |-> i.net]),
     outputTax |-> SumFunction([i \in out |-> i.tax]),
     inputCount |-> Cardinality(in), inputNet |-> SumFunction([i \in in |-> i.net]),
     inputTax |-> SumFunction([i \in in |-> i.tax])]

\* The rate is not the invoice's own but computed, to whole percents.
RateOf(i) == IF i.net > 0 THEN Percent(i.tax, i.net) ELSE 0

\* Mutant: rows by rate only.
RateKeyOfRate(i) == <<RateOf(i), "output">>

RateKey(i) == <<RateOf(i), i.direction>>

VATCrossCheck(invoices) ==
    LET keys == {RateKey(i) : i \in invoices}
        rows == [k \in keys |->
                    [count |-> Cardinality({i \in invoices : RateKey(i) = k}),
                     net |-> SumFunction([i \in {i \in invoices : RateKey(i) = k} |-> i.net]),
                     tax |-> SumFunction([i \in {i \in invoices : RateKey(i) = k} |-> i.tax])]]
        out  == {k \in keys : k[2] = "output"}
        in   == keys \ out
    IN [rows |-> rows,
        outputTotal |-> SumFunction([k \in out |-> rows[k].tax]),
        inputTotal  |-> SumFunction([k \in in |-> rows[k].tax]),
        net |-> SumFunction([k \in out |-> rows[k].tax]) - SumFunction([k \in in |-> rows[k].tax]),
        warnings |-> {k \in in : \A o \in out : o[1] # k[1]}]

\* Mutant: the return is filled in with the rate of a town.
VATReturnTown(invoices) ==
    LET cc == VATCrossCheck(invoices) IN
    [payable |-> cc.net,
     burden |-> cc.net + Share(cc.net, 5, 100) + Share(cc.net, 3, 100) + Share(cc.net, 2, 100)]

\* The surcharges are those of a city, and follow a negative net.
VATReturn(invoices) ==
    LET cc == VATCrossCheck(invoices) IN
    [payable |-> cc.net,
     burden |-> cc.net + Share(cc.net, 7, 100) + Share(cc.net, 3, 100) + Share(cc.net, 2, 100)]

\* What an account balance credits to the accounts 6...
CreditedRevenue(ab) == SumFunction([a \in {a \in DOMAIN ab : IsPrefix(<<6>>, a)} |-> ab[a].credit])

\* VAT sales against what was credited to revenue accounts.
CrossTaxValidation(lines, invoices) ==
    LET revenue == CreditedRevenue(AccountBalance(lines))
        diff    == VATSummary(invoices).outputNet - revenue
        rate    == IF revenue > 0 THEN Percent(diff, revenue) ELSE 0
    IN [difference |-> diff, consistent |-> Magnitude(rate) <= 5]

-----------------------------------------------------------------------------
(* Profit statement and balance sheet: rows selected by prefixes of the       *)
(* account code, and subtotals evaluated in display order.                    *)

Row(code, prefixes)     == [code |-> code, prefixes |-> prefixes, formula |-> <<>>]
Subtotal(code, formula) == [code |-> code, prefixes |-> {}, formula |-> formula]
Plus(code)  == <<1, code>>
Minus(code) == <<-1, code>>

\* The seeds of migration 018.
ProfitMapping ==
    << Row("revenue", {<<6>>}), Row("cost", {<<5,4,0,1>>, <<5,4,0,2>>}),
       Row("tax_and_surcharge", {<<5,4,0,3>>}), Row("selling_expense", {<<5,6,0,1>>}),
       Row("admin_expense", {<<5,6,0,2>>}), Row("finance_expense", {<<5,6,0,3>>}),
       Row("investment_income", {<<6,1,1,1>>}),
       Subtotal("operating_profit",
           << Plus("revenue"), Minus("cost"), Minus("tax_and_surcharge"), Minus("selling_expense"),
              Minus("admin_expense"), Minus("finance_expense"), Plus("investment_income") >>),
       Row("non_op_income", {<<6,3,0,1>>}), Row("non_op_expense", {<<6,7,1,1>>}),
       Subtotal("total_profit",
           << Plus("operating_profit"), Plus("non_op_income"), Minus("non_op_expense") >>),
       Row("income_tax", {<<6,8,0,1>>}),
       Subtotal("net_profit", << Plus("total_profit"), Minus("income_tax") >>) >>

BalanceMapping ==
    << Row("monetary_funds", {<<1,0,0,1>>, <<1,0,0,2>>}),
       Row("accounts_receivable", {<<1,1,2,2>>, <<1,1,3,1>>, <<1,1,3,2>>}),
       Row("prepayments", {<<1,1,2,3>>}), Row("other_receivables", {<<1,2,2,1>>}),
       Row("inventory", {<<1,4,0,3>>, <<1,4,0,5>>, <<1,4,1,1>>}),
       Subtotal("current_assets",
           << Plus("monetary_funds"), Plus("accounts_receivable"), Plus("prepayments"),
              Plus("other_receivables"), Plus("inventory") >>),
       Row("fixed_assets", {<<1,6,0,1>>}), Row("intangible_assets", {<<1,7,0,1>>}),
       Subtotal("non_current_assets", << Plus("fixed_assets"), Plus("intangible_assets") >>),
       Subtotal("total_assets", << Plus("current_assets"), Plus("non_current_assets") >>),
       Row("short_term_borrow", {<<2,0,0,1>>}), Row("accounts_payable", {<<2,2,0,2>>}),
       Row("advance_receipts", {<<2,2,0,3>>}), Row("payroll_payable", {<<2,2,1,1>>}),
       Row("taxes_payable", {<<2,2,2,1>>}),
       Subtotal("current_liabilities",
           << Plus("short_term_borrow"), Plus("accounts_payable"), Plus("advance_receipts"),
              Plus("payroll_payable"), Plus("taxes_payable") >>),
       Row("long_term_borrow", {<<2,5,0,1>>}),
       Subtotal("non_current_liab", << Plus("long_term_borrow") >>),
       Subtotal("total_liabilities", << Plus("current_liabilities"), Plus("non_current_liab") >>),
       Row("paid_in_capital", {<<4,0,0,1>>}), Row("capital_reserve", {<<4,0,0,2>>}),
       Row("surplus_reserve", {<<4,1,0,1>>}), Row("retained_earnings", {<<4,1,0,4>>}),
       Subtotal("total_equity",
           << Plus("paid_in_capital"), Plus("capital_reserve"), Plus("surplus_reserve"),
              Plus("retained_earnings") >>),
       Subtotal("total_liab_equity", << Plus("total_liabilities"), Plus("total_equity") >>) >>

IsSubtotal(row) == row.formula # <<>>

\* Mutant: the code must be one of the prefixes.
MatchesExactly(account, row) == account \in row.prefixes

\* matchSelector; the seeds select by prefixes alone.
MatchSelector(account, row) == \E p \in row.prefixes : IsPrefix(p, account)

\* The amount of the side the line says it is on, positive on either side.
ReportAmount(l) == IF l.dir = "debit" THEN l.debit ELSE l.credit

RowAmount(row, lines) ==
    SumFunction([l \in {l \in lines : MatchSelector(l.account, row)} |-> ReportAmount(l)])

\* A code that has no amount yet counts as 0.
EvalFormula(formula, amounts) ==
    SumFunction([k \in DOMAIN formula |->
        formula[k][1] * (IF formula[k][2] \in DOMAIN amounts THEN amounts[formula[k][2]] ELSE 0)])

WithAmount(amounts, code, x) ==
    [c \in DOMAIN amounts \cup {code} |-> IF c = code THEN x ELSE amounts[c]]

\* Mutant: subtotals see the rows only, not the subtotals above them.
StatementFlat(mapping, lines) ==
    LET rows == {k \in DOMAIN mapping : ~IsSubtotal(mapping[k])}
        base == [c \in {mapping[k].code : k \in rows} |->
                    RowAmount(mapping[CHOOSE k \in rows : mapping[k].code = c], lines)]
    IN [c \in {mapping[k].code : k \in DOMAIN mapping} |->
          LET row == mapping[CHOOSE k \in DOMAIN mapping : mapping[k].code = c] IN
          IF IsSubtotal(row) THEN EvalFormula(row.formula, base) ELSE base[c]]

\* All rows first, then the subtotals from the top down.
Statement(mapping, lines) ==
    LET rows == {k \in DOMAIN mapping : ~IsSubtotal(mapping[k])}
        base == [c \in {mapping[k].code : k \in rows} |->
                    RowAmount(mapping[CHOOSE k \in rows : mapping[k].code = c], lines)]
    IN FoldLeft(LAMBDA amounts, row : IF IsSubtotal(row)
                    THEN WithAmount(amounts, row.code, EvalFormula(row.formula, amounts)) ELSE amounts,
                base, mapping)

\* The codes that have a field of their own in the answer.  The seeds call the
\* surcharges otherwise, and have no row for two others: these stay 0.
ProfitFields ==
    {"revenue", "cost", "tax_surcharge", "selling_expense", "admin_expense", "finance_expense",
     "asset_impairment", "fair_value_gain", "investment_income", "operating_profit",
     "non_op_income", "non_op_expense", "total_profit", "income_tax", "net_profit"}

\* Every row of the mapping is listed; the fields are what the exports show.
BuildProfitStatement(lines) ==
    LET amounts == Statement(ProfitMapping, lines) IN
    [rows   |-> amounts,
     fields |-> [c \in ProfitFields |-> IF c \in DOMAIN amounts THEN amounts[c] ELSE 0]]

\* sectionOrder: the codes that are shown, by section.
SectionOrder ==
    [assets |-> {"cash", "receivables", "prepayments", "other_receivables", "inventory",
                 "fixed_assets_net", "intangibles_net", "total_assets"},
     liabilities |-> {"short_term_loans", "payables", "advance_receipts", "employee_payable",
                      "tax_payable", "other_payables", "total_liabilities"},
     equity |-> {"paid_in_capital", "capital_reserve", "surplus_reserve", "retained_earnings",
                 "total_equity", "total_liab_equity"}]

\* A row of another code counts in the totals and is shown nowhere.
BuildBalanceSheet(lines) ==
    LET amounts == Statement(BalanceMapping, lines)
        Section(codes) == [c \in codes \cap DOMAIN amounts |-> amounts[c]] IN
    [assets           |-> Section(SectionOrder.assets),
     liabilities      |-> Section(SectionOrder.liabilities),
     equity           |-> Section(SectionOrder.equity),
     totalAssets      |-> amounts["total_assets"],
     totalLiabilities |-> amounts["total_liabilities"],
     totalEquity      |-> amounts["total_equity"],
     totalLiabEquity  |-> amounts["total_liab_equity"]]

\* The amounts on accounts with one of the prefixes, and on the accounts alone.
AmountUnder(prefixes, lines) == RowAmount(Row("", prefixes), lines)
AmountAt(accounts, lines) ==
    SumFunction([l \in {l \in lines : l.account \in accounts} |-> ReportAmount(l)])

\* Mutant: the finance expense is left out.
FallbackProfitTwoExpenses(lines) ==
    AmountUnder({<<6>>}, lines)
    - AmountAt({<<5,4,0,1>>, <<5,4,0,2>>}, lines) - AmountAt({<<5,4,0,3>>}, lines)
    - AmountUnder({<<5,6,0,1>>, <<5,6,0,2>>}, lines)

\* Without mappings: revenue and expenses by prefix, costs and surcharges by
\* their code alone, and no rows below the operating profit.
FallbackProfit(lines) ==
    AmountUnder({<<6>>}, lines)
    - AmountAt({<<5,4,0,1>>, <<5,4,0,2>>}, lines) - AmountAt({<<5,4,0,3>>}, lines)
    - AmountUnder({<<5,6,0,1>>, <<5,6,0,2>>, <<5,6,0,3>>}, lines)

-----------------------------------------------------------------------------
(* Corporate income tax, from the account balances of the year.  Prepayments  *)
(* are not looked up: the settlement is computed with 0.                      *)

GenerateCITReport(lines, adjustments, small) ==
    LET ab == AccountBalance(lines)
        revenue == CreditedRevenue(ab)
        cost    == SumFunction([a \in DOMAIN ab \cap {<<5,4,0,1>>, <<5,4,0,2>>} |-> ab[a].debit])
        expense == SumFunction([a \in {a \in DOMAIN ab : IsPrefix(<<5,6>>, a)} |-> ab[a].debit])
    IN [profit |-> revenue - cost - expense,
        settlement |-> CalcAnnualSettlement(revenue - cost - expense, adjustments, 25, 0, small)]

-----------------------------------------------------------------------------
(* Risks, by severity: <<rule, about, severity>> *)

\* The three SELECTs of a scan: each lists the posted invoices once more.
ScanReads == {"cross_check", "burden", "engine"}

\* More input than output tax; of no output tax the ratio is infinite, of a
\* negative one it is less than any limit.
ExcessCredit(cc) ==
    IF cc.inputTotal > cc.outputTotal
    THEN {<<"excess_credit", <<>>,
            IF cc.outputTotal >= 0 /\ cc.inputTotal >= 3 * cc.outputTotal
            THEN "danger" ELSE "warning">>}
    ELSE {}

\* Without the cross check there is no report; without the invoices there are
\* no findings on the burden.
TaxRisk(invoices, failed) ==
    LET cc == VATCrossCheck(invoices) IN
    IF "cross_check" \in failed THEN {}
    ELSE {<<"rate_mismatch", k, "warning">> : k \in cc.warnings} \cup ExcessCredit(cc)
         \cup (IF "burden" \in failed THEN {}
               ELSE {<<"tax_burden", i.key, "warning">> :
                         i \in {i \in invoices : i.net > 0 /\ 20 * i.tax < i.net}})

SellerAmounts(invoices) ==
    LET in == Direction(invoices, "input") IN
    [s \in {i.seller : i \in in} |-> SumFunction([i \in {i \in in : i.seller = s} |-> i.gross])]

EngineRisk(invoices, failed) ==
    LET sellers == SellerAmounts(invoices)
        level   == DetectSupplierConcentration(SetToSeq(DOMAIN sellers), sellers) IN
    IF "engine" \in failed THEN {}
    ELSE {<<"large_round", i.key, "info">> : i \in {i \in invoices : IsLargeRound(i.gross)}}
         \cup (IF level = "none" THEN {} ELSE {<<"concentration", <<>>, level>>})

\* A half whose SELECT fails is left out, and the scan goes on.
RiskScan(invoices, failed) == TaxRisk(invoices, failed) \cup EngineRisk(invoices, failed)

\* Mutant: the scan is scored before the findings of the engine are added.
RunRiskScanEarly(invoices, failed) ==
    LET findings == SetToSeq(TaxRisk(invoices, failed)) IN
    ScoreRiskFindings([k \in DOMAIN findings |-> findings[k][3]])

RunRiskScanPersistent(invoices, failed) ==
    LET findings == SetToSeq(RiskScan(invoices, failed)) IN
    ScoreRiskFindings([k \in DOMAIN findings |-> findings[k][3]])

-----------------------------------------------------------------------------
(* Consistency.  approved are the invoices approved but not posted, entries   *)
(* the numbers of the posted entries, lines those of their lines that could   *)
(* be read, unmatched is the sum of bank transactions.                        *)

ConsistencyReads == {"cross_check", "approved", "entries", "bank"}

\* The newest rows, and none when the list fails: numbers and keys are in the
\* order of creation.
ListedInvoices(approved, failed) ==
    {i \in approved : /\ "approved" \notin failed
                      /\ Cardinality({j \in approved : j.key > i.key}) < ListLimit}
ListedEntries(entries, failed) ==
    {v \in entries : /\ "entries" \notin failed
                     /\ Cardinality({w \in entries : w > v}) < ListLimit}

\* Mutant: the numbers of invoices and of entries are not compared.
RunConsistencyCheckUncounted(invoices, approved, entries, lines, unmatched, failed) ==
    LET cc      == VATCrossCheck(invoices)
        listed  == ListedEntries(entries, failed)
        journal == SumFunction([l \in {l \in lines : l.key[1] \in listed} |-> l.debit]) IN
    /\ "cross_check" \in failed
       \/ CheckInvoiceToVAT(cc.outputTotal, cc.inputTotal, cc.outputTotal, cc.inputTotal)
    /\ CheckJournalToBank(journal, IF "bank" \in failed THEN 0 ELSE unmatched)

\* The first comparison is of the totals of the cross check with themselves.
RunConsistencyCheck(invoices, approved, entries, lines, unmatched, failed) ==
    LET cc      == VATCrossCheck(invoices)
        waiting == ListedInvoices(approved, failed)
        listed  == ListedEntries(entries, failed)
        journal == SumFunction([l \in {l \in lines : l.key[1] \in listed} |-> l.debit]) IN
    /\ "cross_check" \in failed
       \/ CheckInvoiceToVAT(cc.outputTotal, cc.inputTotal, cc.outputTotal, cc.inputTotal)
    /\ CheckInvoiceToJournal(Cardinality(waiting), Cardinality(listed),
                             SumFunction([i \in waiting |-> i.gross]), journal)
    /\ CheckJournalToBank(journal, IF "bank" \in failed THEN 0 ELSE unmatched)
==============================================================================
