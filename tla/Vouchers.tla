------------------------------- MODULE Vouchers -------------------------------
(***************************************************************************)
(* Invoices and vouchers with their amounts, in one book and period, and   *)
(* the reports over them.  FinanceLedger models how the methods interleave *)
(* and leaves the amounts out; here a method is one step, and what its     *)
(* lines add up to is the point.  The exception is UpdateInvoiceDraft,     *)
(* whose UPDATE does not repeat the test of the status and so is a step of *)
(* its own.                                                                *)
(***************************************************************************)
EXTENDS Reports

CONSTANTS
    InvoiceIds,     \* invoices of the period
    Deals,          \* what an invoice may say
    ManualEntries,  \* lines of the entries clients write, a set of sequences
    MaxVouchers     \* bounds the vouchers

\* The words in type and seller that decide, by what they stand for.
Goods == {"equipment", "software", "stock", "other"}

ASSUME VoucherAssumption ==
    /\ MaxVouchers \in Nat /\ InvoiceIds \subseteq Nat \ {0}
    /\ Deals \subseteq [direction : {"input", "output"}, net : Int, tax : Int, gross : Int,
                        goods : Goods, seller : STRING]
    /\ \A lines \in ManualEntries : lines \in
          Seq([account : Seq(Nat), dir : {"debit", "credit"}, debit : Int, credit : Int])

VARIABLES
    bill,      \* the invoices
    voucher,   \* the entries, in the order of their numbers
    updating,  \* per invoice, what an UpdateInvoiceDraft is about to write
    drifted    \* history: invoices whose amounts changed after their approval

voucherVars == <<bill, voucher, updating, drifted>>

NoDeal == [direction |-> "input", net |-> 0, tax |-> 0, gross |-> 0,
           goods |-> "other", seller |-> "none"]
NoBill == [status |-> "absent", deal |-> NoDeal, of |-> 0]

VoucherInit ==
    /\ bill = [i \in InvoiceIds |-> NoBill]
    /\ voucher = <<>>
    /\ updating = [i \in InvoiceIds |-> NoDeal]
    /\ drifted = {}

-----------------------------------------------------------------------------
(* Lines *)

Bank       == <<1,0,0,2>>
Receivable == <<1,1,2,2>>
InputVAT   == <<2,2,2,1,0,1>>
OutputVAT  == <<2,2,2,1,0,2>>
Revenue    == <<6,0,0,1>>

Debit(account, x)  == [account |-> account, dir |-> "debit", debit |-> x, credit |-> 0]
Credit(account, x) == [account |-> account, dir |-> "credit", debit |-> 0, credit |-> x]

ResolveInputAccount(goods) ==
    CASE goods = "equipment" -> <<1,6,0,1>> [] goods = "software" -> <<1,7,0,1>>
      [] goods = "stock" -> <<1,4,0,5>> [] OTHER -> <<5,6,0,2>>

InputLines(d) ==
    << Debit(ResolveInputAccount(d.goods), d.net), Debit(InputVAT, d.tax), Credit(Bank, d.gross) >>

OutputLines(d) ==
    << Debit(Receivable, d.gross), Credit(Revenue, d.net), Credit(OutputVAT, d.tax) >>

BuildJournalLines(d) == IF d.direction = "output" THEN OutputLines(d) ELSE InputLines(d)

\* Mutant: the tolerance of Validate.
MoneyEqualLoose(a, b) == Magnitude(a - b) <= 2

\* |a - b| < 0.005 after rounding: equal to the cent.
MoneyEqual(a, b) == a = b

Debits(lines)  == SumFunction([k \in DOMAIN lines |-> lines[k].debit])
Credits(lines) == SumFunction([k \in DOMAIN lines |-> lines[k].credit])
ValidateBalanced(lines) == MoneyEqual(Debits(lines), Credits(lines))

\* Debit and credit change sides.
ReversedLines(lines) ==
    [k \in DOMAIN lines |->
        [account |-> lines[k].account, dir |-> IF lines[k].dir = "debit" THEN "credit" ELSE "debit",
         debit |-> lines[k].credit, credit |-> lines[k].debit]]

-----------------------------------------------------------------------------
(* Invoices *)

\* Validate tolerates two cents.
Valid(d) == Magnitude(d.gross - d.net - d.tax) <= 2

SetBill(i, row) == bill' = [bill EXCEPT ![i] = row]

\* Bound: ids are used in their order.
InTurn(i) == \A j \in InvoiceIds : j < i => bill[j].status # "absent"

CreateInvoice == \E i \in InvoiceIds, d \in Deals :
    /\ bill[i].status = "absent" /\ Valid(d) /\ InTurn(i)
    /\ SetBill(i, [status |-> "pending_review", deal |-> d, of |-> 0])
    /\ UNCHANGED <<voucher, updating, drifted>>

\* Its number is the original's with a suffix, so there is one per original.
\* reverseDirection turns any direction of an invoice into "debit".
CreateRedLetterInvoice == \E i, j \in InvoiceIds :
    /\ bill[i].status = "posted" /\ bill[j].status = "absent" /\ InTurn(j)
    /\ \A k \in InvoiceIds : bill[k].of # i
    /\ SetBill(j, [status |-> "pending_review", of |-> i,
                   deal |-> [bill[i].deal EXCEPT !.direction = "debit",
                                !.net = -@, !.tax = -@, !.gross = -@]])
    /\ UNCHANGED <<voucher, updating, drifted>>

RejectInvoice == \E i \in InvoiceIds :
    /\ bill[i].status = "pending_review"
    /\ SetBill(i, [bill[i] EXCEPT !.status = "rejected"])
    /\ UNCHANGED <<voucher, updating, drifted>>

Draftable(d) ==
    /\ d.net >= 0 /\ d.tax >= 0 /\ d.gross >= 0
    /\ MoneyEqual(d.net + d.tax, d.gross)

AddVoucher(status, kind, src, lines) ==
    voucher' = Append(voucher, [status |-> status, kind |-> kind, src |-> src, lines |-> lines])

ApproveInvoice == \E i \in InvoiceIds :
    /\ bill[i].status = "pending_review" /\ Draftable(bill[i].deal)
    /\ Len(voucher) < MaxVouchers
    /\ ValidateBalanced(BuildJournalLines(bill[i].deal))
    /\ AddVoucher("draft", "approval", i, BuildJournalLines(bill[i].deal))
    /\ SetBill(i, [bill[i] EXCEPT !.status = "approved"])
    /\ UNCHANGED <<updating, drifted>>

\* UpdateInvoiceDraft reads the status, and then writes by id alone.
UpdateInvoiceDraftRead == \E i \in InvoiceIds : \E d \in Deals \ {bill[i].deal} :
    /\ bill[i].status = "pending_review"
    /\ \A j \in InvoiceIds : updating[j] = NoDeal  \* bound: one at a time
    /\ updating' = [updating EXCEPT ![i] = d]
    /\ UNCHANGED <<bill, voucher, drifted>>

UpdateInvoiceDraftWrite == \E i \in InvoiceIds :
    /\ updating[i] # NoDeal
    /\ SetBill(i, [bill[i] EXCEPT !.deal = updating[i]])
    /\ updating' = [updating EXCEPT ![i] = NoDeal]
    /\ drifted' = IF bill[i].status \in {"approved", "posted"} /\ bill[i].deal # updating[i]
                  THEN drifted \cup {i} ELSE drifted
    /\ UNCHANGED voucher

-----------------------------------------------------------------------------
(* Vouchers *)

CreateJournalDraft == \E lines \in ManualEntries :
    /\ Len(voucher) < MaxVouchers /\ ValidateBalanced(lines)
    /\ \A v \in DOMAIN voucher : voucher[v].kind # "manual"  \* bound: one of them
    /\ AddVoucher("draft", "manual", 0, lines)
    /\ UNCHANGED <<bill, updating, drifted>>

\* Mutant: posting leaves the invoice approved.
PostJournalEntryAlone == \E v \in DOMAIN voucher :
    /\ voucher[v].status = "draft" /\ ValidateBalanced(voucher[v].lines)
    /\ voucher' = [voucher EXCEPT ![v].status = "posted"]
    /\ UNCHANGED <<bill, updating, drifted>>

\* MarkPostedTx takes the invoice from "approved" to "posted".
PostJournalEntry == \E v \in DOMAIN voucher :
    LET i == voucher[v].src IN
    /\ voucher[v].status = "draft" /\ ValidateBalanced(voucher[v].lines)
    /\ voucher' = [voucher EXCEPT ![v].status = "posted"]
    /\ bill' = IF i \in InvoiceIds /\ bill[i].status = "approved"
               THEN [bill EXCEPT ![i].status = "posted"] ELSE bill
    /\ UNCHANGED <<updating, drifted>>

\* A draft is voided, a posted entry is voided and reversed.
VoidDraft == \E v \in DOMAIN voucher :
    /\ voucher[v].status = "draft"
    /\ voucher' = [voucher EXCEPT ![v].status = "voided"]
    /\ UNCHANGED <<bill, updating, drifted>>

VoidPosted == \E v \in DOMAIN voucher :
    /\ voucher[v].status = "posted" /\ Len(voucher) < MaxVouchers
    /\ voucher' = Append([voucher EXCEPT ![v].status = "voided"],
                         [status |-> "posted", kind |-> "reversal", src |-> voucher[v].src,
                          lines |-> ReversedLines(voucher[v].lines)])
    /\ UNCHANGED <<bill, updating, drifted>>

VoucherNext ==
    \/ CreateInvoice \/ CreateRedLetterInvoice \/ RejectInvoice \/ ApproveInvoice
    \/ UpdateInvoiceDraftRead \/ UpdateInvoiceDraftWrite
    \/ CreateJournalDraft \/ PostJournalEntry \/ VoidDraft \/ VoidPosted

VoucherSpec == VoucherInit /\ [][VoucherNext]_voucherVars

-----------------------------------------------------------------------------
(* What the reports read *)

\* ListPostedLines
PostedLines ==
    UNION { {[account |-> voucher[v].lines[k].account, dir |-> voucher[v].lines[k].dir,
              debit |-> voucher[v].lines[k].debit, credit |-> voucher[v].lines[k].credit,
              key |-> <<v, k>>] : k \in DOMAIN voucher[v].lines}
            : v \in {v \in DOMAIN voucher : voucher[v].status = "posted"} }

InvoicesIn(status) ==
    { [direction |-> bill[i].deal.direction, net |-> bill[i].deal.net, tax |-> bill[i].deal.tax,
       gross |-> bill[i].deal.gross, seller |-> bill[i].deal.seller, key |-> i]
      : i \in {i \in InvoiceIds : bill[i].status = status} }

\* ListPostedByPeriod
PostedInvoices == InvoicesIn("posted")
PostedEntries  == {v \in DOMAIN voucher : voucher[v].status = "posted"}

-----------------------------------------------------------------------------
VoucherTypeOK ==
    /\ \A i \in InvoiceIds :
          /\ bill[i].status \in {"absent", "pending_review", "approved", "rejected", "posted"}
          /\ bill[i].of \in InvoiceIds \cup {0}
    /\ \A v \in DOMAIN voucher :
          /\ voucher[v].status \in {"draft", "posted", "voided"}
          /\ voucher[v].src \in InvoiceIds \cup {0}
    /\ Len(voucher) <= MaxVouchers
    /\ drifted \subseteq InvoiceIds

\* TrialBalance always balances: what Validate lets through with two cents of
\* difference never reaches the ledger, because buildJournalDraft and every
\* other writer compare to the cent.
BooksBalance == IsBalanced(TrialBalance(PostedLines))

\* What VATReturn declares, from the invoices, is what the VAT accounts carry,
\* from the vouchers, and CrossTaxValidation finds the sales booked as revenue:
\* posting an entry and marking its invoice go together.
\* Two things come between them: a posted voucher that was voided (its invoice
\* stays "posted"), and an UpdateInvoiceDraft that read the invoice before it
\* was approved.  Entries that clients write may touch these accounts as well
\* and are left out.
NetOn(account) ==
    SumFunction([l \in {l \in PostedLines : l.account = account} |-> l.credit - l.debit])
ManualApart(account) ==
    \A v \in DOMAIN voucher : voucher[v].kind = "manual" /\ voucher[v].status = "posted" =>
        \A k \in DOMAIN voucher[v].lines : ~IsPrefix(account, voucher[v].lines[k].account)
VATMatchesLedger ==
    drifted = {} /\ (\A v \in DOMAIN voucher : voucher[v].kind # "reversal") =>
        /\ ManualApart(OutputVAT) => VATSummary(PostedInvoices).outputTax = NetOn(OutputVAT)
        /\ ManualApart(InputVAT) => VATSummary(PostedInvoices).inputTax = -NetOn(InputVAT)
        /\ ManualApart(OutputVAT) /\ ManualApart(InputVAT) =>
              VATReturn(PostedInvoices).payable = NetOn(OutputVAT) + NetOn(InputVAT)
        /\ ManualApart(<<6>>) =>
              CrossTaxValidation(PostedLines, PostedInvoices).difference = 0

\* VATCrossCheck groups by computed rate and direction, VATSummary by direction
\* only: they agree on counts and totals.
CrossCheckComplete ==
    LET cc == VATCrossCheck(PostedInvoices)  sum == VATSummary(PostedInvoices)
        Rows(d) == {k \in DOMAIN cc.rows : (k[2] = "output") = d} IN
    /\ SumFunction([k \in Rows(TRUE) |-> cc.rows[k].count]) = sum.outputCount
    /\ SumFunction([k \in Rows(FALSE) |-> cc.rows[k].count]) = sum.inputCount
    /\ SumFunction([k \in Rows(TRUE) |-> cc.rows[k].net]) = sum.outputNet
    /\ SumFunction([k \in Rows(FALSE) |-> cc.rows[k].net]) = sum.inputNet
    /\ cc.outputTotal = sum.outputTax /\ cc.inputTotal = sum.inputTax

\* VATReturn computes the surcharges itself.  For a net to be paid it comes to
\* what the tax engine says of the same totals in a city.  For a credit the
\* engine says 0, and the return declares the credit and 12% of it besides as
\* a negative burden, each surcharge rounded to the cent.
ReturnMatchesEngine ==
    LET sum == VATSummary(PostedInvoices)
        return == VATReturn(PostedInvoices)
        engine == CalculateWithLocation([type |-> "general", output |-> sum.outputTax,
                      input |-> sum.inputTax, sales |-> 0, levy |-> 0], "city") IN
    IF return.payable >= 0 THEN return.burden = engine.total
    ELSE /\ engine.total = 0
         /\ Magnitude(100 * return.burden - 112 * return.payable) <= 150

\* The totals of the two statements, evaluated in display order through
\* subtotals of subtotals, against the rows the answers show.  The net profit
\* is the signed sum of the fields but for the surcharges, whose field stays 0.
\* The balance sheet does not show the rows whose codes sectionOrder lacks, so
\* its totals are those of the rows it shows and of what was posted to the
\* accounts of the rows it does not.
SumOf(amounts, codes) == SumFunction([c \in codes |-> amounts[c]])
PostedUnder(prefixes) == AmountUnder(prefixes, PostedLines)
StatementsAddUp ==
    LET p == BuildProfitStatement(PostedLines)  b == BuildBalanceSheet(PostedLines) IN
    /\ p.fields["net_profit"] =
          SumOf(p.fields, {"revenue", "investment_income", "non_op_income"})
          - SumOf(p.fields, {"cost", "tax_surcharge", "selling_expense", "admin_expense",
                             "finance_expense", "non_op_expense", "income_tax"})
          - p.rows["tax_and_surcharge"]
    /\ b.totalAssets =
          SumOf(b.assets, {"prepayments", "other_receivables", "inventory"})
          + PostedUnder({<<1,0,0,1>>, <<1,0,0,2>>})
          + PostedUnder({<<1,1,2,2>>, <<1,1,3,1>>, <<1,1,3,2>>})
          + PostedUnder({<<1,6,0,1>>}) + PostedUnder({<<1,7,0,1>>})
    /\ b.totalLiabilities =
          b.liabilities["advance_receipts"]
          + PostedUnder({<<2,0,0,1>>}) + PostedUnder({<<2,2,0,2>>}) + PostedUnder({<<2,2,1,1>>})
          + PostedUnder({<<2,2,2,1>>}) + PostedUnder({<<2,5,0,1>>})
    /\ b.totalEquity = SumOf(b.equity, {"paid_in_capital", "capital_reserve", "surplus_reserve",
                                        "retained_earnings"})
    /\ b.totalLiabEquity = b.totalLiabilities + b.totalEquity

\* While all that is posted comes from approvals, the two statements together
\* count every amount once: what the rows of the profit statement and the two
\* totals of the balance sheet come to is what was posted.
ProfitRowCodes ==
    {"revenue", "cost", "tax_and_surcharge", "selling_expense", "admin_expense",
     "finance_expense", "investment_income", "non_op_income", "non_op_expense", "income_tax"}
StatementsCountOnce ==
    LET p == BuildProfitStatement(PostedLines)  b == BuildBalanceSheet(PostedLines) IN
    (\A v \in PostedEntries : voucher[v].kind = "approval") =>
        SumFunction([l \in PostedLines |-> ReportAmount(l)])
        = SumOf(p.rows, ProfitRowCodes) + b.totalAssets + b.totalLiabEquity

\* Three computations of one profit differ by just this.  The statement of
\* engine/report.go counts the items with rows of their own a second time,
\* since the prefix "6" covers them (and so takes the expenses among them off
\* what it has added), and takes off what is booked below 5401 to 5403, which
\* fallbackProfitStatement compares as whole codes.  GenerateCITReport leaves
\* out 5403 and takes off all of 56, where the fallback stops at 5603; it reads
\* one column of an account, so this holds while nobody books on the contra
\* side, as a reversal does.
ProfitsReconcile ==
    LET fallback == FallbackProfit(PostedLines)
        At(accounts) == AmountAt(accounts, PostedLines)
        Below(accounts) == PostedUnder(accounts) - At(accounts) IN
    /\ BuildProfitStatement(PostedLines).fields["net_profit"] =
          fallback + PostedUnder({<<6,1,1,1>>}) + PostedUnder({<<6,3,0,1>>})
          - PostedUnder({<<6,7,1,1>>}) - PostedUnder({<<6,8,0,1>>})
          - Below({<<5,4,0,1>>, <<5,4,0,2>>}) - Below({<<5,4,0,3>>})
    /\ (\A l \in PostedLines : /\ IsPrefix(<<6>>, l.account) => l.dir = "credit"
                               /\ IsPrefix(<<5>>, l.account) => l.dir = "debit")
       => GenerateCITReport(PostedLines, 0, FALSE).profit =
             fallback + At({<<5,4,0,3>>})
             - (PostedUnder({<<5,6>>}) - PostedUnder({<<5,6,0,1>>, <<5,6,0,2>>, <<5,6,0,3>>}))

\* RunConsistencyCheck compares the invoices that are approved and not posted
\* with the entries that are posted.  Once every invoice is posted, which is
\* what closing a period is for, its comparisons let the enhanced close check
\* pass in one case only, and then blindly: the list of entries failed, its
\* error was dropped, and no money is open at the bank or that list failed as
\* well.
PostedBooksPassOnlyUnread ==
    InvoicesIn("approved") = {} /\ PostedEntries # {} =>
        \A failed \in SUBSET ConsistencyReads, read \in SUBSET PostedEntries :
        \A unmatched \in {0, SumFunction([l \in PostedLines |-> l.debit])} :
            RunConsistencyCheck(PostedInvoices, InvoicesIn("approved"), PostedEntries,
                                {l \in PostedLines : l.key[1] \in read}, unmatched, failed)
            <=> /\ "entries" \in failed
                /\ "bank" \in failed \/ CheckJournalToBank(0, unmatched)

\* RunRiskScanPersistent scores the findings of both halves of the scan, and a
\* SELECT that fails silently takes away its own findings alone: with a finding
\* of severity "danger" in a half that was read the level is never "low".
DangerIsNotLow ==
    \A failed \in SUBSET ScanReads :
        (\/ "cross_check" \notin failed /\ \E f \in TaxRisk(PostedInvoices, {}) : f[3] = "danger"
         \/ "engine" \notin failed /\ \E f \in EngineRisk(PostedInvoices, {}) : f[3] = "danger")
        => RunRiskScanPersistent(PostedInvoices, failed).level # "low"
==============================================================================
