---------------------------- MODULE BookContract ----------------------------
(***************************************************************************)
(* What a book promises about the life of its documents, as atomic steps.  *)
(* FinanceLedger, where every step is a chain of statements of concurrent  *)
(* requests, is shown to implement this specification.                     *)
(***************************************************************************)
CONSTANTS Invoices, Entries, Periods

VARIABLES
    inv,  \* the status of each invoice
    ent,  \* the status of each journal entry
    per   \* the status of each period

contractVars == <<inv, ent, per>>

ContractInit ==
    /\ inv = [i \in Invoices |-> "absent"]
    /\ ent = [e \in Entries |-> "absent"]
    /\ per \in [Periods -> {"absent", "open"}]

Move(f, x, from, to) == f[x] = from /\ f' = [f EXCEPT ![x] = to]

SubmitInvoice == \E i \in Invoices : Move(inv, i, "absent", "pending_review")
RejectInvoice == \E i \in Invoices : Move(inv, i, "pending_review", "rejected")

\* An invoice is approved in the step that writes its journal draft.
ApproveInvoice ==
    /\ \E i \in Invoices : Move(inv, i, "pending_review", "approved")
    /\ \E e \in Entries : Move(ent, e, "absent", "draft")

DraftEntry == \E e \in Entries : Move(ent, e, "absent", "draft")
PostEntry  == \E e \in Entries : Move(ent, e, "draft", "posted")

\* An invoice counts as posted from the step that posts an entry.
PostInvoice ==
    /\ PostEntry
    /\ \E i \in Invoices : Move(inv, i, "approved", "posted")

VoidEntry ==
    \E e \in Entries : Move(ent, e, "draft", "voided") \/ Move(ent, e, "posted", "voided")

\* A posted entry is voided together with the posting of its reversal.
ReverseEntry ==
    \E e, v \in Entries :
        /\ ent[e] = "posted" /\ ent[v] = "absent"
        /\ ent' = [ent EXCEPT ![e] = "voided", ![v] = "posted"]

\* A locked period is locked for good.
PeriodStep ==
    \E p \in Periods :
        \/ Move(per, p, "open", "closing")
        \/ Move(per, p, "closing", "open")
        \/ Move(per, p, "closing", "closed")
        \/ Move(per, p, "closed", "open")
        \/ Move(per, p, "closed", "locked")

ContractNext ==
    \/ (SubmitInvoice \/ RejectInvoice) /\ UNCHANGED <<ent, per>>
    \/ ApproveInvoice /\ UNCHANGED per
    \/ (DraftEntry \/ PostEntry \/ VoidEntry \/ ReverseEntry) /\ UNCHANGED <<inv, per>>
    \/ PostInvoice /\ UNCHANGED per
    \/ PeriodStep /\ UNCHANGED <<inv, ent>>

ContractSpec == ContractInit /\ [][ContractNext]_contractVars
==============================================================================
