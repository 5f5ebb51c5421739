---------------------------- MODULE FinanceLedger ----------------------------
(***************************************************************************)
(* Invoices, journal entries and periods of one book under concurrent      *)
(* requests: the composition of InvoiceService, JournalService and         *)
(* PeriodService over LedgerState, and what must hold of it.               *)
(***************************************************************************)
EXTENDS InvoiceService, JournalService, PeriodService

Init == LedgerInit

Handle(r) == InvoiceNext(r) \/ JournalNext(r) \/ PeriodNext(r)

Next == \E r \in Requests : Handle(r) \/ Abort(r)

Spec == Init /\ [][Next]_vars

\* A request that has begun runs on by itself: its goroutine is scheduled and
\* its statements are answered.
FairSpec == Spec /\ \A r \in Requests : WF_vars(~At(r, "idle") /\ Handle(r))

TypeOK ==
    /\ invoice \in [Invoices -> InvoiceRow]
    /\ entry \in [Entries -> EntryRow]
    /\ period \in [Periods -> PeriodStatus]
    /\ req \in [Requests -> RequestState]
    /\ stale \subseteq Requests \X Periods
    /\ late \subseteq Invoices \cup Entries

-----------------------------------------------------------------------------
(* Invoices and their entries *)

ApprovalsOf(i) == {e \in Entries : entry[e].kind = "approval" /\ entry[e].src = i}

\* ApproveInvoice: an invoice that was approved has exactly one journal draft
\* built from it, in its own period, and no other invoice has any, however
\* many requests approve, reject or abort at the same time.
OneDraftPerApproval ==
    \A i \in Invoices :
        /\ invoice[i].status \in {"approved", "posted"} <=> ApprovalsOf(i) # {}
        /\ \A d, e \in ApprovalsOf(i) : d = e
        /\ \A e \in ApprovalsOf(i) : entry[e].per = invoice[i].per

\* MarkPostedTx: an invoice is shown as posted only if an entry that names it
\* as its source was posted.
PostedInvoiceBacked ==
    \A i \in Invoices : invoice[i].status = "posted" =>
        \E e \in Entries : entry[e].src = i /\ entry[e].stamped

\* VoidJournalEntry: a reversal belongs to one posted entry that is now voided,
\* carries its lines, period and source, and no entry is reversed twice.
ReversalsMatch ==
    \A v \in Entries : entry[v].kind = "reversal" =>
        LET e == entry[v].of IN
        /\ e \in Entries \ {v}
        /\ entry[e].status = "voided" /\ entry[e].stamped
        /\ entry[v].lines = entry[e].lines
        /\ entry[v].per = entry[e].per /\ entry[v].src = entry[e].src
        /\ \A w \in Entries : entry[w].of = e => w = v

\* PostJournalEntry: an entry is posted with all its lines stored, although the
\* writer stores them one by one and may be overtaken or die in between.
PostedComplete ==
    \A e \in Entries : entry[e].stamped => entry[e].lines = entry[e].size

\* NextVoucherNo and the unique key: the vouchers of a period are numbered from
\* 1 without a gap and without a duplicate.
VouchersDense ==
    \A p \in Periods :
        {entry[e].no : e \in EntriesOf(p)} = 1..Cardinality(EntriesOf(p))

-----------------------------------------------------------------------------
(* Periods *)

Closing == {"close_invoices", "close_drafts", "close_balance", "close_finish"}

\* ClosePeriod: the "closing" status is a lock.  Only one request is between
\* its two updates of a period, and the period is "closing" all that time.
OneCloser ==
    \A r \in Requests : req[r].at \in Closing =>
        /\ period[req[r].per] = "closing"
        /\ \A q \in Requests :
              req[q].at \in Closing /\ req[q].per = req[r].per => q = r

Shut(p) == period[p] \in {"closed", "locked"}

\* The statements that follow a successful period check.
Checked ==
    {"invoice_find", "invoice_insert", "approve_begin", "approve_commit",
     "insert_header", "post_commit", "void_simple", "void_number", "void_commit"}

\* IsClosed in create, approve, post and void: whoever still writes into a
\* closed or locked period was already under way when it was closed.
OnlyStragglersWrite ==
    \A r \in Requests :
        (req[r].at \in Checked /\ Shut(req[r].per)) => <<r, req[r].per>> \in stale

\* CloseCheck: an invoice under review or a draft entry found in a closed or
\* locked period was inserted after closing began; the close overlooked none.
CloseOverlooksNothing ==
    \A p \in Periods : Shut(p) => Pending(p) \cup Drafts(p) \subseteq late

\* ClosePeriod: without crashes a period never stays in "closing", the status
\* no other operation leaves.
ClosingEnds == \A p \in Periods : period[p] = "closing" ~> period[p] # "closing"

-----------------------------------------------------------------------------
\* Every step of the service is one step of the contract of a book, or none.
Contract == INSTANCE BookContract WITH
    inv <- [i \in Invoices |-> invoice[i].status],
    ent <- [e \in Entries |-> entry[e].status],
    per <- period

\* FinanceLedger implements BookContract: approvals, postings and reversals
\* are atomic and no document or period moves along an edge of its own.
KeepsContract == Contract!ContractSpec
==============================================================================
