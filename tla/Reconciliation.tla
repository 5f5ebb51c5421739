----------------------------- MODULE Reconciliation -----------------------------
(***************************************************************************)
(* Bank transactions, shipments and the invoices of one period.  Clerks    *)
(* read the three-way match and then match a transaction they know to an   *)
(* invoice that the summary shows without a payment.  The UPDATE of the    *)
(* match tests neither the invoice nor what the transaction was matched to.*)
(***************************************************************************)
EXTENDS Naturals

CONSTANTS
    Invoices,
    Transactions,  \* ids of bank transactions, those not recorded yet included
    Clerks,
    MaxShipments   \* bounds the logistics records of an invoice

ASSUME ReconciliationAssumption == MaxShipments \in Nat

VARIABLES
    stage,     \* the status of an invoice; one journal entry exists from "approved" on
    recorded,  \* rows of bank_transactions
    matched,   \* <<transaction, invoice>>: their column matched_invoice_id
    shipments, \* per invoice, its logistics records
    view,      \* per clerk, the invoices the last summary showed without a payment
    outdated,  \* history: clerks whose summary is older than another's match
    doubtful   \* history: invoices matched from such a summary

reconciliationVars == <<stage, recorded, matched, shipments, view, outdated, doubtful>>

\* What a row says of the payment; the columns of the shipment are left out.
MatchRow(i, t) == [invoice |-> i, paid |-> t]

ReconciliationInit ==
    /\ stage = [i \in Invoices |-> "pending_review"]
    /\ recorded = {} /\ matched = {}
    /\ shipments = [i \in Invoices |-> 0]
    /\ view = [c \in Clerks |-> {}]
    /\ outdated = {} /\ doubtful = {}

-----------------------------------------------------------------------------
\* Approval and posting, as the ledger does them.
Review == \E i \in Invoices :
    /\ \/ stage[i] = "pending_review" /\ stage' = [stage EXCEPT ![i] = "approved"]
       \/ stage[i] = "approved" /\ stage' = [stage EXCEPT ![i] = "posted"]
    /\ UNCHANGED <<recorded, matched, shipments, view, outdated, doubtful>>

\* The handler passes no id: every call inserts, a retry inserts again.
UpsertLogistics == \E i \in Invoices :
    /\ shipments[i] < MaxShipments
    /\ shipments' = [shipments EXCEPT ![i] = @ + 1]
    /\ UNCHANGED <<stage, recorded, matched, view, outdated, doubtful>>

UpsertBankTransaction == \E t \in Transactions \ recorded :
    /\ recorded' = recorded \cup {t}
    /\ UNCHANGED <<stage, matched, shipments, view, outdated, doubtful>>

PaymentsOf(i) == {p[1] : p \in {p \in matched : p[2] = i}}
Listed        == {i \in Invoices : stage[i] = "approved"}
Unpaid(rows)  == {r.invoice : r \in {r \in rows : r.paid = {}}}

\* Mutant: the second LEFT JOIN asks for the shipment as well.
ThreeWayRowsByShipment ==
    UNION { IF shipments[i] = 0 \/ PaymentsOf(i) = {} THEN {MatchRow(i, {})}
            ELSE {MatchRow(i, {t}) : t \in PaymentsOf(i)} : i \in Listed }

\* The two LEFT JOINs: a row per payment, or one without.  Several shipments
\* of an invoice repeat its rows.
ThreeWayRows ==
    UNION { IF PaymentsOf(i) = {} THEN {MatchRow(i, {})}
            ELSE {MatchRow(i, {t}) : t \in PaymentsOf(i)} : i \in Listed }

ThreeWayMatch == \E c \in Clerks :
    /\ view' = [view EXCEPT ![c] = Unpaid(ThreeWayRows)]
    /\ outdated' = outdated \ {c}
    /\ UNCHANGED <<stage, recorded, matched, shipments, doubtful>>

MatchBankToInvoice == \E c \in Clerks, t \in recorded : \E i \in view[c] :
    /\ matched' = {p \in matched : p[1] # t} \cup {<<t, i>>}
    /\ view' = [view EXCEPT ![c] = {}]
    /\ outdated' = (outdated \ {c}) \cup {d \in Clerks \ {c} : view[d] # {}}
    /\ doubtful' = IF c \in outdated THEN doubtful \cup {i} ELSE doubtful
    /\ UNCHANGED <<stage, recorded, shipments>>

UnmatchBankFromInvoice == \E t \in recorded :
    /\ matched' = {p \in matched : p[1] # t}
    /\ UNCHANGED <<stage, recorded, shipments, view, outdated, doubtful>>

ReconciliationNext ==
    \/ Review \/ UpsertLogistics \/ UpsertBankTransaction
    \/ ThreeWayMatch \/ MatchBankToInvoice \/ UnmatchBankFromInvoice

ReconciliationSpec == ReconciliationInit /\ [][ReconciliationNext]_reconciliationVars

-----------------------------------------------------------------------------
ReconciliationTypeOK ==
    /\ stage \in [Invoices -> {"pending_review", "approved", "posted"}]
    /\ recorded \subseteq Transactions
    /\ matched \subseteq recorded \X Invoices
    /\ shipments \in [Invoices -> 0..MaxShipments]
    /\ outdated \subseteq Clerks /\ doubtful \subseteq Invoices

\* Two transactions are matched to one invoice only after a clerk used a
\* summary that another clerk's match had overtaken: the UPDATE of
\* MatchBankToInvoice would not notice, but whoever reads the three-way match
\* before every match, alone, is never shown a paid invoice as unpaid.
DoublePaymentNeedsOldSummary ==
    \A p, q \in matched : p[2] = q[2] /\ p[1] # q[1] => p[2] \in doubtful
==============================================================================
