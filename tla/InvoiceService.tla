--------------------------- MODULE InvoiceService ---------------------------
(***************************************************************************)
(* The invoice operations of service.go: create_draft, import_einvoice,    *)
(* approve and reject.  Each action is one committed statement (or one     *)
(* transaction) of the method; a request that fails before it wrote        *)
(* anything just returns.                                                  *)
(***************************************************************************)
EXTENDS LedgerState

\* CreateInvoiceDraft, first statement: the period check.
InvoiceCheck(r) ==
    \E i \in Invoices, p \in Periods, sound \in BOOLEAN :
        /\ At(r, "idle")
        /\ PassesCheck(p)
        /\ Start(r, [Idle EXCEPT !.at = "invoice_find", !.inv = i, !.per = p,
                                 !.sound = sound])
        /\ UNCHANGED <<invoice, entry, period, late>>

\* FindByInvoiceNo: an existing invoice of that number is returned as it is.
InvoiceFind(r) ==
    /\ At(r, "invoice_find")
    /\ IF invoice[req[r].inv].status # "absent"
       THEN Return(r)
       ELSE Continue(r, [req[r] EXCEPT !.at = "invoice_insert"])
    /\ UNCHANGED <<invoice, entry, period, late>>

\* ImportEInvoice looks for the digital number only and never asks for the
\* period: an invoice with another or no digital number is not found.
ImportFind(r) ==
    \E i \in Invoices, p \in Periods, sound \in BOOLEAN :
        /\ At(r, "idle")
        /\ Start(r, [Idle EXCEPT !.at = "import_insert", !.inv = i, !.per = p,
                                 !.sound = sound])
        /\ UNCHANGED <<invoice, entry, period, late>>

\* InvoiceStore.Create; the unique invoice number refuses a second row.
InvoiceInsert(r) ==
    LET i == req[r].inv  p == req[r].per IN
    /\ At(r, "invoice_insert") \/ At(r, "import_insert")
    /\ IF invoice[i].status # "absent"
       THEN UNCHANGED <<invoice, late>>
       ELSE /\ invoice' = [invoice EXCEPT ![i] = [status |-> "pending_review",
                                                  per |-> p, sound |-> req[r].sound]]
            /\ NoteLate(i, p)
    /\ Return(r)
    /\ UNCHANGED <<entry, period>>

-----------------------------------------------------------------------------
\* ApproveInvoice reads the invoice (its period), then the period's status.
ApproveGet(r) ==
    \E i \in Invoices :
        /\ At(r, "idle")
        /\ invoice[i].status # "absent"
        /\ Start(r, [Idle EXCEPT !.at = "approve_check", !.inv = i,
                                 !.per = invoice[i].per, !.sound = invoice[i].sound])
        /\ UNCHANGED <<invoice, entry, period, late>>

ApproveCheck(r) ==
    /\ At(r, "approve_check")
    /\ \/ IsClosed(req[r].per) /\ Return(r)
       \/ /\ PassesCheck(req[r].per)
          /\ Continue(r, [req[r] EXCEPT !.at = "approve_begin"])
    /\ UNCHANGED <<invoice, entry, period, late>>

\* Mutant: ApproveTx without its condition on the status.
ApprovableAlways(i) == TRUE

Approvable(i) == invoice[i].status = "pending_review"

\* In the transaction: ApproveTx (WHERE status = 'pending_review') takes the
\* row lock, buildJournalDraft refuses unsound amounts and reads the voucher
\* number through the pool.  Any error rolls back.
ApproveBegin(r) ==
    LET i == req[r].inv IN
    /\ At(r, "approve_begin")
    /\ ~RowLocked(i)
    /\ IF ~Approvable(i) \/ ~req[r].sound
       THEN Return(r)
       ELSE \E n \in VoucherNoRead(req[r].per) :
               Continue(r, [req[r] EXCEPT !.at = "approve_commit", !.no = n])
    /\ UNCHANGED <<invoice, entry, period, late>>

\* CreateTx and Commit: the approval and its journal draft appear together,
\* or neither does.
ApproveCommit(r) ==
    LET i == req[r].inv  p == req[r].per IN
    /\ At(r, "approve_commit")
    /\ IF Refused(p, req[r].no)
       THEN UNCHANGED <<invoice, entry, late>>
       ELSE \E e \in FreeEntries :
               /\ invoice' = [invoice EXCEPT ![i].status = "approved"]
               /\ entry' = [entry EXCEPT ![e] =
                     [NoEntry EXCEPT !.status = "draft", !.per = p, !.src = i,
                                     !.no = req[r].no, !.lines = InvoiceSize,
                                     !.size = InvoiceSize, !.kind = "approval"]]
               /\ NoteLate(e, p)
    /\ Return(r)
    /\ UNCHANGED period

\* RejectInvoice: one conditional UPDATE, and no look at the period.
RejectInvoice(r) ==
    \E i \in Invoices :
        /\ At(r, "idle")
        /\ ~RowLocked(i)
        /\ invoice[i].status = "pending_review"
        /\ invoice' = [invoice EXCEPT ![i].status = "rejected"]
        /\ Start(r, Idle)
        /\ UNCHANGED <<entry, period, late>>

InvoiceNext(r) ==
    \/ InvoiceCheck(r) \/ InvoiceFind(r) \/ ImportFind(r) \/ InvoiceInsert(r)
    \/ ApproveGet(r) \/ ApproveCheck(r) \/ ApproveBegin(r) \/ ApproveCommit(r)
    \/ RejectInvoice(r)
==============================================================================
