----------------------------- MODULE LedgerState -----------------------------
(***************************************************************************)
(* The rows the finance provider keeps for one accounting book, and the    *)
(* statements its stores run against them.                                 *)
(*                                                                         *)
(* Every service method is a sequence of SQL statements.  A statement on   *)
(* the pool commits by itself, a transaction becomes visible when it       *)
(* commits (PostgreSQL, READ COMMITTED), and the goroutines of concurrent  *)
(* HTTP requests interleave between statements.  A request is therefore a  *)
(* process: req[r].at is the statement it runs next, the other fields are  *)
(* the local variables the rest of the method still uses.                  *)
(*                                                                         *)
(* The modules InvoiceService, JournalService and PeriodService hold the   *)
(* methods; FinanceLedger composes them.                                   *)
(***************************************************************************)
EXTENDS Naturals, FiniteSets

CONSTANTS
    Requests,        \* HTTP requests that can be in flight at the same time
    Invoices,        \* invoice numbers (unique per book: migration 003)
    Entries,         \* ids of journal entries; bounds the journal table
    Periods,         \* accounting periods of the book
    Sizes,           \* numbers of lines a client's entry may have
    BalancedPrefix,  \* <<k, n>>: the first k lines of n happen to balance
    ManualSources,   \* source_id values clients put on their own entries
    ExplicitNos,     \* voucher numbers clients choose themselves
    FaultyReads,     \* whether a SELECT whose error is ignored can fail
    MayAbort,        \* whether requests can be cut off (crash, lost client)
    NONE             \* no invoice, entry, period or value

InvoiceSize == 3     \* inputLines and outputLines build three lines

ASSUME LedgerAssumption ==
    /\ NONE \notin Invoices \cup Entries \cup Periods
    /\ Invoices \cap Entries = {}
    /\ IsFiniteSet(Entries)
    /\ Sizes \subseteq Nat \ {0}
    /\ BalancedPrefix \subseteq Nat \X Nat
    /\ ManualSources \subseteq Invoices \cup {NONE}
    /\ ExplicitNos \subseteq Nat
    /\ FaultyReads \in BOOLEAN
    /\ MayAbort \in BOOLEAN

VARIABLES
    invoice,  \* the invoices table
    entry,    \* journal_entries with the number of stored journal_lines
    period,   \* the status column of accounting_periods
    req,      \* the requests in flight
    stale,    \* history: <<r, p>> if r was under way when p was last closed
    late      \* history: documents inserted after closing of their period began

vars == <<invoice, entry, period, req, stale, late>>

-----------------------------------------------------------------------------
(* Rows *)

InvoiceStatus == {"absent", "pending_review", "approved", "rejected", "posted"}
EntryStatus   == {"absent", "draft", "posted", "voided"}
PeriodStatus  == {"absent", "open", "closing", "closed", "locked"}

\* sound: amounts are non-negative and add up to the cent, which Validate
\* does not ask for (it tolerates 0.02 and negative amounts) but
\* buildJournalDraft does.
InvoiceRow == [status : InvoiceStatus, per : Periods \cup {NONE}, sound : BOOLEAN]
NoInvoice  == [status |-> "absent", per |-> NONE, sound |-> FALSE]

\* stamped is "posted_at is not null"; size is the number of lines the writer
\* sets out to store and lines the number stored so far.  kind and of record
\* which method built the entry and, for a reversal, of which entry.
EntryRow ==
    [status : EntryStatus, per : Periods \cup {NONE}, src : Invoices \cup {NONE},
     no : Nat, stamped : BOOLEAN, lines : Nat, size : Nat,
     kind : {"none", "manual", "approval", "reversal"}, of : Entries \cup {NONE}]
NoEntry ==
    [status |-> "absent", per |-> NONE, src |-> NONE, no |-> 0, stamped |-> FALSE,
     lines |-> 0, size |-> 0, kind |-> "none", of |-> NONE]

Stored(e)        == entry[e].status # "absent"
FreeEntries      == {e \in Entries : ~Stored(e)}
EntriesOf(p)     == {e \in Entries : Stored(e) /\ entry[e].per = p}
DocumentsOf(p)   == {i \in Invoices : invoice[i].per = p} \cup EntriesOf(p)
Pending(p)       == {i \in Invoices : invoice[i].status = "pending_review"
                                      /\ invoice[i].per = p}
Drafts(p)        == {e \in Entries : entry[e].status = "draft" /\ entry[e].per = p}

-----------------------------------------------------------------------------
(* Requests *)

Steps ==
    {"idle",
     "invoice_find", "invoice_insert", "import_insert",
     "approve_check", "approve_begin", "approve_commit",
     "journal_check", "insert_header", "insert_lines",
     "post_check", "post_commit",
     "void_check", "void_simple", "void_number", "void_commit",
     "update_void", "update_insert",
     "close_invoices", "close_drafts", "close_balance", "close_finish"}

RequestState ==
    [at : Steps, inv : Invoices \cup {NONE}, ent : Entries \cup {NONE},
     per : Periods \cup {NONE}, src : Invoices \cup {NONE}, no : Nat, size : Nat,
     seen : EntryStatus, lines : Nat, ok : BOOLEAN, sound : BOOLEAN]
Idle ==
    [at |-> "idle", inv |-> NONE, ent |-> NONE, per |-> NONE, src |-> NONE,
     no |-> 0, size |-> 0, seen |-> "absent", lines |-> 0, ok |-> FALSE,
     sound |-> FALSE]

At(r, step) == req[r].at = step

\* The first statement of a request: what it knew of closed periods is gone.
Start(r, local) ==
    /\ req' = [req EXCEPT ![r] = local]
    /\ stale' = {s \in stale : s[1] # r}

\* A later statement, and the last one (the method returns).
Continue(r, local) ==
    /\ req' = [req EXCEPT ![r] = local]
    /\ UNCHANGED stale
Return(r) == Continue(r, Idle)

-----------------------------------------------------------------------------
(* Statements of the stores *)

\* Mutant: a test for "closed" that forgets "locked".
IsClosedNotLocked(p) == period[p] = "closed"

\* PeriodStore.IsClosed: a missing row and a "closing" row are not closed.
IsClosed(p) == period[p] \in {"closed", "locked"}

\* Callers write "closed, _ :=", so a failed SELECT reads as FALSE too.
PassesCheck(p) == ~IsClosed(p) \/ FaultyReads

\* JournalStore.NextVoucherNo counts the rows of the period, voided ones too.
NextVoucherNo(p) == Cardinality(EntriesOf(p)) + 1

\* buildJournalDraft and buildReversal ignore its error and keep "" (0 here).
VoucherNoRead(p) == {NextVoucherNo(p)} \cup (IF FaultyReads THEN {0} ELSE {})

\* Mutant: a schema without the unique key.
TakenNever(p, n) == FALSE

\* UNIQUE (entity_id, book_id, period, voucher_no) refuses the INSERT, and so
\* does the bound on the table.
Taken(p, n)   == \E e \in EntriesOf(p) : entry[e].no = n
Refused(p, n) == Taken(p, n) \/ FreeEntries = {}

\* Mutant: postings without the balance check.
BalancedAlways(k, n) == TRUE

\* validateBalanced over the first k of an entry's n lines.
Balanced(k, n) == k = n \/ <<k, n>> \in BalancedPrefix

\* Mutant: ApproveTx run on the pool instead of the transaction.
RowLockedNever(i) == FALSE

\* A request between ApproveTx and Commit holds the invoice's row lock; other
\* UPDATEs of the row wait for it.
RowLocked(i) == \E q \in Requests : At(q, "approve_commit") /\ req[q].inv = i

\* History: a document that enters a period which is being closed or is closed.
NoteLate(doc, p) ==
    late' = IF period[p] \in {"absent", "open"} THEN late ELSE late \cup {doc}

LedgerInit ==
    /\ invoice = [i \in Invoices |-> NoInvoice]
    /\ entry = [e \in Entries |-> NoEntry]
    /\ period \in [Periods -> {"absent", "open"}]
    /\ req = [r \in Requests |-> Idle]
    /\ stale = {}
    /\ late = {}

\* The request is cut off: its context is cancelled or the process dies.  An
\* open transaction rolls back; what earlier statements committed stays.
Abort(r) ==
    /\ MayAbort
    /\ ~At(r, "idle")
    /\ Return(r)
    /\ UNCHANGED <<invoice, entry, period, late>>
==============================================================================
