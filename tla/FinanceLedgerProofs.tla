------------------------- MODULE FinanceLedgerProofs -------------------------
(***************************************************************************)
(* Theorems about FinanceLedger for all sets of requests, invoices,        *)
(* entries and periods: types, the closing of a period, and the invoices.  *)
(* An approved invoice has exactly one journal draft                       *)
(* (OneDraftPerApproval), and an invoice is shown as posted only when an   *)
(* entry that names it was posted (PostedInvoiceBacked).                   *)
(***************************************************************************)
EXTENDS FinanceLedger, FiniteSetTheorems, TLAPS

-----------------------------------------------------------------------------
(* Type correctness.  TypeOK alone is not inductive: the statements that   *)
(* write a row need the row their request names.                           *)

RowsOK ==
    /\ invoice \in [Invoices -> InvoiceRow]
    /\ entry \in [Entries -> EntryRow]
    /\ period \in [Periods -> PeriodStatus]
    /\ late \subseteq Invoices \cup Entries

LocalOK(local) ==
    /\ local \in RequestState
    /\ local.at \in Closing => local.per \in Periods
    /\ local.at \in {"invoice_find", "invoice_insert", "import_insert"} =>
          local.inv \in Invoices

RequestsOK ==
    /\ req \in [Requests -> RequestState]
    /\ stale \subseteq Requests \X Periods
    /\ \A r \in Requests : LocalOK(req[r])

TypeInv == RowsOK /\ RequestsOK

LEMMA TypeInvImpliesTypeOK == TypeInv => TypeOK
  BY DEF TypeInv, RowsOK, RequestsOK, TypeOK

\* NextVoucherNo is a number: a table has finitely many rows.
LEMMA VoucherNoType ==
    ASSUME NEW p
    PROVE  NextVoucherNo(p) \in Nat /\ VoucherNoRead(p) \subseteq Nat
<1>1. IsFiniteSet(EntriesOf(p))
  <2>1. EntriesOf(p) \subseteq Entries  BY DEF EntriesOf
  <2>2. IsFiniteSet(Entries)            BY LedgerAssumption DEF LedgerAssumption
  <2> QED  BY <2>1, <2>2, FS_Subset
<1>2. Cardinality(EntriesOf(p)) \in Nat  BY <1>1, FS_CardinalityType
<1>3. NextVoucherNo(p) \in Nat           BY <1>2 DEF NextVoucherNo
<1> QED  BY <1>3 DEF VoucherNoRead

LEMMA IdleType == LocalOK(Idle)
  BY DEF LocalOK, Closing, Idle, RequestState, Steps, EntryStatus

\* The three ways a statement leaves the request: its locals stay well-formed
\* if the new ones are.
LEMMA StartOK ==
    ASSUME TypeInv, NEW r \in Requests, NEW local, LocalOK(local), Start(r, local)
    PROVE  RequestsOK'
  BY DEF TypeInv, RequestsOK, Start, LocalOK

LEMMA ContinueOK ==
    ASSUME TypeInv, NEW r \in Requests, NEW local, LocalOK(local), Continue(r, local)
    PROVE  RequestsOK'
  BY DEF TypeInv, RequestsOK, Continue, LocalOK

LEMMA ReturnOK ==
    ASSUME TypeInv, NEW r \in Requests, Return(r)
    PROVE  RequestsOK'
  BY ContinueOK, IdleType DEF Return

LEMMA NoteLateOK ==
    ASSUME TypeInv, NEW doc \in Invoices \cup Entries, NEW p, NoteLate(doc, p)
    PROVE  late' \subseteq Invoices \cup Entries
  BY DEF TypeInv, RowsOK, NoteLate

LEMMA LocalOfRequest ==
    ASSUME TypeInv, NEW r \in Requests
    PROVE  LocalOK(req[r]) /\ req[r] \in RequestState
  BY DEF TypeInv, RequestsOK

LEMMA SameRows ==
    ASSUME TypeInv, UNCHANGED <<invoice, entry, period, late>>
    PROVE  RowsOK'
  BY DEF TypeInv, RowsOK

LEMMA InvoiceTypes ==
    ASSUME TypeInv, NEW r \in Requests, InvoiceNext(r)
    PROVE  TypeInv'
<1> SUFFICES RowsOK' /\ RequestsOK'  BY DEF TypeInv
<1>1. CASE InvoiceCheck(r)
  <2>1. PICK i \in Invoices, p \in Periods, sound \in BOOLEAN :
           Start(r, [Idle EXCEPT !.at = "invoice_find", !.inv = i, !.per = p,
                                 !.sound = sound])
        BY <1>1 DEF InvoiceCheck
  <2>2. LocalOK([Idle EXCEPT !.at = "invoice_find", !.inv = i, !.per = p,
                             !.sound = sound])
        BY DEF LocalOK, Closing, Idle, RequestState, Steps, EntryStatus
  <2> QED  BY <1>1, <2>1, <2>2, StartOK, SameRows DEF InvoiceCheck
<1>2. CASE InvoiceFind(r)
  <2>1. At(r, "invoice_find") => LocalOK([req[r] EXCEPT !.at = "invoice_insert"])
        BY LocalOfRequest DEF At, LocalOK, Closing, RequestState, Steps
  <2> QED  BY <1>2, <2>1, ReturnOK, ContinueOK, SameRows DEF InvoiceFind
<1>3. CASE ImportFind(r)
  <2>1. PICK i \in Invoices, p \in Periods, sound \in BOOLEAN :
           Start(r, [Idle EXCEPT !.at = "import_insert", !.inv = i, !.per = p,
                                 !.sound = sound])
        BY <1>3 DEF ImportFind
  <2>2. LocalOK([Idle EXCEPT !.at = "import_insert", !.inv = i, !.per = p,
                             !.sound = sound])
        BY DEF LocalOK, Closing, Idle, RequestState, Steps, EntryStatus
  <2> QED  BY <1>3, <2>1, <2>2, StartOK, SameRows DEF ImportFind
<1>4. CASE InvoiceInsert(r)
  <2>1. RequestsOK'  BY <1>4, ReturnOK DEF InvoiceInsert
  <2>2. req[r].inv \in Invoices /\ req[r].per \in Periods \cup {NONE}
           /\ req[r].sound \in BOOLEAN
        BY <1>4, LocalOfRequest DEF InvoiceInsert, At, LocalOK, RequestState
  <2>3. [status |-> "pending_review", per |-> req[r].per, sound |-> req[r].sound]
           \in InvoiceRow
        BY <2>2 DEF InvoiceRow, InvoiceStatus
  <2>4. invoice' \in [Invoices -> InvoiceRow]
        BY <1>4, <2>3 DEF InvoiceInsert, TypeInv, RowsOK
  <2>5. late' \subseteq Invoices \cup Entries
        BY <1>4, <2>2, NoteLateOK DEF InvoiceInsert, TypeInv, RowsOK
  <2> QED  BY <1>4, <2>1, <2>4, <2>5 DEF InvoiceInsert, TypeInv, RowsOK
<1>5. CASE ApproveGet(r)
  <2>1. PICK i \in Invoices :
           Start(r, [Idle EXCEPT !.at = "approve_check", !.inv = i,
                        !.per = invoice[i].per, !.sound = invoice[i].sound])
        BY <1>5 DEF ApproveGet
  <2>2. invoice[i].per \in Periods \cup {NONE} /\ invoice[i].sound \in BOOLEAN
        BY DEF TypeInv, RowsOK, InvoiceRow
  <2>3. LocalOK([Idle EXCEPT !.at = "approve_check", !.inv = i,
                   !.per = invoice[i].per, !.sound = invoice[i].sound])
        BY <2>2 DEF LocalOK, Closing, Idle, RequestState, Steps, EntryStatus
  <2> QED  BY <1>5, <2>1, <2>3, StartOK, SameRows DEF ApproveGet
<1>6. CASE ApproveCheck(r)
  <2>1. LocalOK([req[r] EXCEPT !.at = "approve_begin"])
        BY LocalOfRequest DEF LocalOK, Closing, RequestState, Steps
  <2> QED  BY <1>6, <2>1, ReturnOK, ContinueOK, SameRows DEF ApproveCheck
<1>7. CASE ApproveBegin(r)
  <2>1. ASSUME NEW n \in VoucherNoRead(req[r].per)
        PROVE  LocalOK([req[r] EXCEPT !.at = "approve_commit", !.no = n])
        BY LocalOfRequest, VoucherNoType DEF LocalOK, Closing, RequestState, Steps
  <2> QED  BY <1>7, <2>1, ReturnOK, ContinueOK, SameRows DEF ApproveBegin
<1>8. CASE ApproveCommit(r)
  <2>1. RequestsOK'  BY <1>8, ReturnOK DEF ApproveCommit
  <2> DEFINE i == req[r].inv
             draft == [NoEntry EXCEPT !.status = "draft", !.per = req[r].per,
                          !.src = i, !.no = req[r].no, !.lines = InvoiceSize,
                          !.size = InvoiceSize, !.kind = "approval"]
  <2>2. draft \in EntryRow
        BY LocalOfRequest DEF RequestState, EntryRow, EntryStatus, NoEntry, InvoiceSize
  <2>3. CASE UNCHANGED <<invoice, entry, late>>
        BY <1>8, <2>1, <2>3, SameRows DEF ApproveCommit
  <2>4. ASSUME NEW e \in FreeEntries,
               invoice' = [invoice EXCEPT ![i].status = "approved"],
               entry' = [entry EXCEPT ![e] = draft], NoteLate(e, req[r].per)
        PROVE  RowsOK'
    <3>1. e \in Entries  BY DEF FreeEntries
    <3>2. invoice' \in [Invoices -> InvoiceRow]
          BY <2>4 DEF TypeInv, RowsOK, InvoiceRow, InvoiceStatus
    <3>3. entry' \in [Entries -> EntryRow]  BY <2>2, <2>4 DEF TypeInv, RowsOK
    <3>4. late' \subseteq Invoices \cup Entries  BY <2>4, <3>1, NoteLateOK
    <3> QED  BY <1>8, <3>2, <3>3, <3>4 DEF ApproveCommit, TypeInv, RowsOK
  <2> QED  BY <1>8, <2>1, <2>3, <2>4 DEF ApproveCommit
<1>9. CASE RejectInvoice(r)
  <2>1. invoice' \in [Invoices -> InvoiceRow]
        BY <1>9 DEF RejectInvoice, TypeInv, RowsOK, InvoiceRow, InvoiceStatus
  <2>2. RequestsOK'  BY <1>9, StartOK, IdleType DEF RejectInvoice
  <2> QED  BY <1>9, <2>1, <2>2 DEF RejectInvoice, TypeInv, RowsOK
<1> QED
    BY <1>1, <1>2, <1>3, <1>4, <1>5, <1>6, <1>7, <1>8, <1>9 DEF InvoiceNext

LEMMA SnapshotOK ==
    ASSUME TypeInv, NEW e \in Entries,
           NEW step \in {"post_check", "void_check", "update_void"}
    PROVE  LocalOK(Snapshot(e, step))
<1>1. entry[e] \in EntryRow  BY DEF TypeInv, RowsOK
<1>2. /\ entry[e].per \in Periods \cup {NONE} /\ entry[e].src \in Invoices \cup {NONE}
      /\ entry[e].no \in Nat /\ entry[e].size \in Nat /\ entry[e].lines \in Nat
      /\ entry[e].status \in EntryStatus
      BY <1>1 DEF EntryRow
<1> QED
    BY <1>2 DEF Snapshot, LocalOK, Closing, Idle, RequestState, Steps, EntryStatus

\* An UPDATE of one column of an entry, whether or not the entry exists.
LEMMA ColumnUpdates ==
    ASSUME TypeInv, NEW e
    PROVE  /\ [entry EXCEPT ![e].status = "voided"] \in [Entries -> EntryRow]
           /\ [entry EXCEPT ![e].lines = entry[e].lines + 1] \in [Entries -> EntryRow]
<1>1. entry \in [Entries -> EntryRow]  BY DEF TypeInv, RowsOK
<1>2. CASE e \in Entries
  <2>1. entry[e] \in EntryRow  BY <1>1, <1>2
  <2>2. entry[e].lines + 1 \in Nat  BY <2>1 DEF EntryRow
  <2>3. [entry[e] EXCEPT !.status = "voided"] \in EntryRow
        BY <2>1 DEF EntryRow, EntryStatus
  <2>4. [entry[e] EXCEPT !.lines = entry[e].lines + 1] \in EntryRow
        BY <2>1, <2>2 DEF EntryRow
  <2> QED  BY <1>1, <2>3, <2>4
<1>3. CASE e \notin Entries
  BY <1>1, <1>3
<1> QED  BY <1>2, <1>3

LEMMA JournalTypes ==
    ASSUME TypeInv, NEW r \in Requests, JournalNext(r)
    PROVE  TypeInv'
<1> SUFFICES RowsOK' /\ RequestsOK'  BY DEF TypeInv
<1> DEFINE to(step) == [req[r] EXCEPT !.at = step]
<1>0. /\ LocalOK(to("insert_header")) /\ LocalOK(to("post_commit"))
      /\ LocalOK(to("void_number"))   /\ LocalOK(to("void_simple"))
      /\ LocalOK(to("update_insert"))
      BY LocalOfRequest DEF LocalOK, Closing, RequestState, Steps
<1>1. CASE JournalNumber(r)
  <2>1. PICK p \in Periods, s \in ManualSources, size \in Sizes :
           \E n \in {NextVoucherNo(p)} \cup ExplicitNos :
              Start(r, [Idle EXCEPT !.at = "journal_check", !.per = p, !.src = s,
                                    !.size = size, !.no = n])
        BY <1>1 DEF JournalNumber
  <2>2. PICK n \in {NextVoucherNo(p)} \cup ExplicitNos :
           Start(r, [Idle EXCEPT !.at = "journal_check", !.per = p, !.src = s,
                                 !.size = size, !.no = n])
        BY <2>1
  <2>3. s \in Invoices \cup {NONE} /\ size \in Nat /\ n \in Nat
        BY VoucherNoType, LedgerAssumption DEF LedgerAssumption
  <2>4. LocalOK([Idle EXCEPT !.at = "journal_check", !.per = p, !.src = s,
                             !.size = size, !.no = n])
        BY <2>3 DEF LocalOK, Closing, Idle, RequestState, Steps, EntryStatus
  <2> QED  BY <1>1, <2>2, <2>4, StartOK, SameRows DEF JournalNumber
<1>2. CASE JournalCheck(r)
  BY <1>0, <1>2, ReturnOK, ContinueOK, SameRows DEF JournalCheck
<1>3. CASE InsertHeader(r)
  <2> DEFINE header == [NoEntry EXCEPT !.status = "draft", !.per = req[r].per,
                           !.src = req[r].src, !.no = req[r].no,
                           !.size = req[r].size, !.kind = "manual"]
  <2>1. header \in EntryRow
        BY LocalOfRequest DEF RequestState, EntryRow, EntryStatus, NoEntry
  <2>2. CASE Return(r) /\ UNCHANGED <<entry, late>>
        BY <1>3, <2>2, ReturnOK, SameRows DEF InsertHeader
  <2>3. ASSUME NEW e \in FreeEntries, entry' = [entry EXCEPT ![e] = header],
               NoteLate(e, req[r].per),
               Continue(r, [Idle EXCEPT !.at = "insert_lines", !.ent = e])
        PROVE  RowsOK' /\ RequestsOK'
    <3>1. e \in Entries  BY DEF FreeEntries
    <3>2. entry' \in [Entries -> EntryRow]  BY <2>1, <2>3 DEF TypeInv, RowsOK
    <3>3. late' \subseteq Invoices \cup Entries  BY <2>3, <3>1, NoteLateOK
    <3>4. LocalOK([Idle EXCEPT !.at = "insert_lines", !.ent = e])
          BY <3>1 DEF LocalOK, Closing, Idle, RequestState, Steps, EntryStatus
    <3>5. RequestsOK'  BY <2>3, <3>4, ContinueOK
    <3> QED  BY <1>3, <3>2, <3>3, <3>5 DEF InsertHeader, TypeInv, RowsOK
  <2> QED  BY <1>3, <2>2, <2>3 DEF InsertHeader
<1>4. CASE InsertLine(r)
  <2>1. entry' \in [Entries -> EntryRow]
        BY <1>4, ColumnUpdates DEF InsertLine
  <2>2. RequestsOK'
        BY <1>4, ReturnOK DEF InsertLine, TypeInv, RequestsOK
  <2> QED  BY <1>4, <2>1, <2>2 DEF InsertLine, TypeInv, RowsOK
<1>5. CASE PostGet(r)
  BY <1>5, SnapshotOK, StartOK, SameRows DEF PostGet
<1>6. CASE PostCheck(r)
  BY <1>0, <1>6, ReturnOK, ContinueOK, SameRows DEF PostCheck
<1>7. CASE PostCommit(r)
  <2>1. entry' \in [Entries -> EntryRow]
        BY <1>7 DEF PostCommit, TypeInv, RowsOK, EntryRow, EntryStatus
  <2>2. invoice' \in [Invoices -> InvoiceRow]
        BY <1>7 DEF PostCommit, TypeInv, RowsOK, InvoiceRow, InvoiceStatus
  <2>3. RequestsOK'  BY <1>7, ReturnOK DEF PostCommit
  <2> QED  BY <1>7, <2>1, <2>2, <2>3 DEF PostCommit, TypeInv, RowsOK
<1>8. CASE VoidGet(r)
  BY <1>8, SnapshotOK, StartOK, SameRows DEF VoidGet
<1>9. CASE VoidCheck(r)
  BY <1>0, <1>9, ReturnOK, ContinueOK, SameRows DEF VoidCheck
<1>10. CASE VoidSimple(r)
  <2>1. entry' \in [Entries -> EntryRow]
        BY <1>10, ColumnUpdates DEF VoidSimple, TypeInv, RowsOK
  <2>2. RequestsOK'  BY <1>10, ReturnOK DEF VoidSimple
  <2> QED  BY <1>10, <2>1, <2>2 DEF VoidSimple, TypeInv, RowsOK
<1>11. CASE VoidNumber(r)
  <2>1. ASSUME NEW n \in VoucherNoRead(req[r].per)
        PROVE  LocalOK([req[r] EXCEPT !.at = "void_commit", !.no = n])
        BY LocalOfRequest, VoucherNoType DEF LocalOK, Closing, RequestState, Steps
  <2> QED  BY <1>11, <2>1, ContinueOK, SameRows DEF VoidNumber
<1>12. CASE VoidCommit(r)
  <2> DEFINE e == req[r].ent
             reversal == [status |-> "posted", per |-> req[r].per,
                          src |-> req[r].src, no |-> req[r].no, stamped |-> TRUE,
                          lines |-> req[r].lines, size |-> req[r].lines,
                          kind |-> "reversal", of |-> e]
  <2>1. RequestsOK'  BY <1>12, ReturnOK DEF VoidCommit
  <2>2. reversal \in EntryRow
        BY LocalOfRequest DEF RequestState, EntryRow, EntryStatus
  <2>3. CASE UNCHANGED <<entry, late>>
        BY <1>12, <2>1, <2>3, SameRows DEF VoidCommit
  <2>4. ASSUME NEW v \in FreeEntries, NoteLate(v, req[r].per),
               entry' = [entry EXCEPT ![e].status = "voided", ![v] = reversal]
        PROVE  RowsOK'
    <3>1. v \in Entries  BY DEF FreeEntries
    <3>2. [entry EXCEPT ![e].status = "voided"] \in [Entries -> EntryRow]
          BY ColumnUpdates
    <3>3. entry' \in [Entries -> EntryRow]  BY <2>2, <2>4, <3>2
    <3>4. late' \subseteq Invoices \cup Entries  BY <2>4, <3>1, NoteLateOK
    <3> QED  BY <1>12, <3>3, <3>4 DEF VoidCommit, TypeInv, RowsOK
  <2> QED  BY <1>12, <2>1, <2>3, <2>4 DEF VoidCommit
<1>13. CASE UpdateGet(r)
  <2>1. PICK e \in Entries, s \in ManualSources, size \in Sizes :
           Start(r, [Snapshot(e, "update_void") EXCEPT !.size = size, !.src = s])
        BY <1>13 DEF UpdateGet
  <2>2. LocalOK([Snapshot(e, "update_void") EXCEPT !.size = size, !.src = s])
    <3>1. LocalOK(Snapshot(e, "update_void"))  BY SnapshotOK
    <3>2. Snapshot(e, "update_void").at = "update_void"  BY DEF Snapshot, Idle
    <3>3. size \in Nat /\ s \in Invoices \cup {NONE}
          BY LedgerAssumption DEF LedgerAssumption
    <3> HIDE DEF Snapshot
    <3> QED  BY <3>1, <3>2, <3>3 DEF LocalOK, Closing, RequestState
  <2> QED  BY <1>13, <2>1, <2>2, StartOK, SameRows DEF UpdateGet
<1>14. CASE UpdateVoid(r)
  <2>1. entry' \in [Entries -> EntryRow]
    <3>1. entry' = entry \/ entry' = [entry EXCEPT ![req[r].ent].status = "voided"]
          BY <1>14 DEF UpdateVoid
    <3>2. [entry EXCEPT ![req[r].ent].status = "voided"] \in [Entries -> EntryRow]
          BY ColumnUpdates
    <3>3. entry \in [Entries -> EntryRow]  BY DEF TypeInv, RowsOK
    <3> QED  BY <3>1, <3>2, <3>3
  <2>2. RequestsOK'  BY <1>0, <1>14, ReturnOK, ContinueOK DEF UpdateVoid
  <2> QED  BY <1>14, <2>1, <2>2 DEF UpdateVoid, TypeInv, RowsOK
<1> QED
    BY <1>1, <1>2, <1>3, <1>4, <1>5, <1>6, <1>7, <1>8, <1>9, <1>10, <1>11, <1>12,
       <1>13, <1>14 DEF JournalNext

LEMMA PeriodTypes ==
    ASSUME TypeInv, NEW r \in Requests, PeriodNext(r)
    PROVE  TypeInv'
<1> SUFFICES RowsOK' /\ RequestsOK'  BY DEF TypeInv
<1>0. ASSUME NEW p \in Periods, NEW to \in PeriodStatus, UpdateStatus(p, to)
      PROVE  period' \in [Periods -> PeriodStatus]
      BY <1>0 DEF UpdateStatus, TypeInv, RowsOK
<1>1. CASE CloseBegin(r)
  <2>1. PICK p \in Periods :
           /\ UpdateStatus(p, "closing")
           /\ late' = late \ DocumentsOf(p)
           /\ Start(r, [Idle EXCEPT !.at = "close_invoices", !.per = p])
        BY <1>1 DEF CloseBegin
  <2>2. LocalOK([Idle EXCEPT !.at = "close_invoices", !.per = p])
        BY DEF LocalOK, Closing, Idle, RequestState, Steps, EntryStatus
  <2>3. RequestsOK'  BY <2>1, <2>2, StartOK
  <2>4. period' \in [Periods -> PeriodStatus]  BY <1>0, <2>1 DEF PeriodStatus
  <2> QED  BY <1>1, <2>1, <2>3, <2>4 DEF CloseBegin, TypeInv, RowsOK
<1>2. CASE CloseInvoices(r)
  <2>1. ASSUME At(r, "close_invoices"), NEW none \in BOOLEAN
        PROVE  LocalOK([req[r] EXCEPT !.at = "close_drafts", !.ok = none])
        BY <2>1, LocalOfRequest DEF At, LocalOK, Closing, RequestState, Steps
  <2>2. CountIsZero(Pending(req[r].per)) \subseteq BOOLEAN  BY DEF CountIsZero
  <2> QED  BY <1>2, <2>1, <2>2, ContinueOK, SameRows DEF CloseInvoices
<1>3. CASE CloseDrafts(r)
  <2>1. ASSUME At(r, "close_drafts"), NEW none \in BOOLEAN
        PROVE  LocalOK([req[r] EXCEPT !.at = "close_balance", !.ok = @ /\ none])
        BY <2>1, LocalOfRequest DEF At, LocalOK, Closing, RequestState, Steps
  <2>2. CountIsZero(Drafts(req[r].per)) \subseteq BOOLEAN  BY DEF CountIsZero
  <2> QED  BY <1>3, <2>1, <2>2, ContinueOK, SameRows DEF CloseDrafts
<1>4. CASE CloseBalance(r)
  <2>1. ASSUME At(r, "close_balance"), NEW read \in BOOLEAN
        PROVE  LocalOK([req[r] EXCEPT !.at = "close_finish",
                           !.ok = @ /\ read /\ TrialBalanced(req[r].per)])
        BY <2>1, LocalOfRequest
        DEF At, LocalOK, Closing, RequestState, Steps, TrialBalanced
  <2> QED  BY <1>4, <2>1, ContinueOK, SameRows DEF CloseBalance
<1>5. CASE CloseFinish(r)
  <2>1. req[r].per \in Periods
        BY <1>5, LocalOfRequest DEF CloseFinish, At, LocalOK, Closing
  <2>2. period' \in [Periods -> PeriodStatus]
        BY <1>0, <1>5, <2>1 DEF CloseFinish, RollBack, PeriodStatus, TypeInv, RowsOK
  <2>3. RequestsOK'
        BY <1>5, <2>1, IdleType DEF CloseFinish, TypeInv, RequestsOK, LocalOK
  <2> QED  BY <1>5, <2>2, <2>3 DEF CloseFinish, TypeInv, RowsOK
<1>6. CASE ReopenPeriod(r) \/ LockPeriod(r)
  <2>1. period' \in [Periods -> PeriodStatus]
        BY <1>0, <1>6 DEF ReopenPeriod, LockPeriod, PeriodStatus
  <2>2. RequestsOK'  BY <1>6, StartOK, IdleType DEF ReopenPeriod, LockPeriod
  <2> QED  BY <1>6, <2>1, <2>2 DEF ReopenPeriod, LockPeriod, TypeInv, RowsOK
<1> QED  BY <1>1, <1>2, <1>3, <1>4, <1>5, <1>6 DEF PeriodNext

LEMMA TypeInit == Init => TypeInv
  BY IdleType
  DEF Init, LedgerInit, TypeInv, RowsOK, RequestsOK, LocalOK, NoInvoice, InvoiceRow,
      InvoiceStatus, NoEntry, EntryRow, EntryStatus, PeriodStatus

LEMMA TypeStep == TypeInv /\ [Next]_vars => TypeInv'
<1> SUFFICES ASSUME TypeInv, [Next]_vars PROVE TypeInv'  OBVIOUS
<1>1. ASSUME NEW r \in Requests, Handle(r) PROVE TypeInv'
      BY <1>1, InvoiceTypes, JournalTypes, PeriodTypes DEF Handle
<1>2. ASSUME NEW r \in Requests, Abort(r) PROVE TypeInv'
      BY <1>2, ReturnOK, SameRows DEF Abort, TypeInv
<1>3. CASE UNCHANGED vars
      BY <1>3 DEF vars, TypeInv, RowsOK, RequestsOK, LocalOK
<1> QED  BY <1>1, <1>2, <1>3 DEF Next

LEMMA TypeInvariant == Spec => []TypeInv
  BY TypeInit, TypeStep, PTL DEF Spec

\* Every row and every request keeps its type: no statement stores a status,
\* a voucher number or a reference that is none.
THEOREM TypeCorrect == Spec => []TypeOK
  BY TypeInvariant, TypeInvImpliesTypeOK, PTL

-----------------------------------------------------------------------------
(* What a step of an invoice or journal request, or the end of any request, *)
(* does to the requests and periods: the other requests keep their locals,  *)
(* this one is not closing a period, and it is past a period check only if  *)
(* it saw the period open or was past one before.                           *)

DocumentStep(r) == InvoiceNext(r) \/ JournalNext(r) \/ Abort(r)

Outcome(r, local) ==
    /\ req'[r] = local
    /\ \A q \in Requests \ {r} : req'[q] = req[q]

\* The period check behind a request that may write.
Justified(r) ==
    FaultyReads = FALSE /\ req'[r].at \in Checked =>
        \/ ~Shut(req'[r].per)
        \/ req[r].at \in Checked /\ req'[r].per = req[r].per /\ stale' = stale

LEMMA StartOutcome ==
    ASSUME TypeInv, NEW r \in Requests, NEW local, Start(r, local)
    PROVE  Outcome(r, local)
  BY DEF Start, Outcome, TypeInv, RequestsOK

LEMMA ContinueOutcome ==
    ASSUME TypeInv, NEW r \in Requests, NEW local, Continue(r, local)
    PROVE  Outcome(r, local) /\ stale' = stale
  BY DEF Continue, Outcome, TypeInv, RequestsOK

\* A request that ends is outside every method.
LEMMA ReturnOutcome ==
    ASSUME TypeInv, NEW r \in Requests, Return(r)
    PROVE  /\ \A q \in Requests \ {r} : req'[q] = req[q]
           /\ req'[r].at \notin Closing
           /\ Justified(r)
<1>1. Outcome(r, Idle)  BY ContinueOutcome DEF Return
<1> QED  BY <1>1 DEF Outcome, Justified, Idle, Closing, Checked

LEMMA DocumentStepOutcome ==
    ASSUME TypeInv, NEW r \in Requests, DocumentStep(r)
    PROVE  /\ \A q \in Requests \ {r} : req'[q] = req[q]
           /\ req'[r].at \notin Closing
           /\ Justified(r)
<1> DEFINE Goal == /\ \A q \in Requests \ {r} : req'[q] = req[q]
                   /\ req'[r].at \notin Closing
                   /\ Justified(r)
           to(step) == [req[r] EXCEPT !.at = step]
<1>1. req[r] \in RequestState  BY LocalOfRequest
<1>2. ASSUME NEW step PROVE to(step).at = step /\ to(step).per = req[r].per
      BY <1>1 DEF RequestState
<1>3. ASSUME FaultyReads = FALSE, NEW p, PassesCheck(p)
      PROVE  ~Shut(p)
      BY <1>3 DEF PassesCheck, IsClosed, Shut
\* A request that goes on past a check: the period was open, or it had been.
<1>4. ASSUME NEW step, step \notin Closing, Continue(r, to(step)),
             FaultyReads = FALSE => req[r].at \in Checked \/ ~Shut(req[r].per)
      PROVE  Goal
  <2>1. Outcome(r, to(step)) /\ stale' = stale  BY <1>4, ContinueOutcome
  <2>2. req'[r].at = step /\ req'[r].per = req[r].per  BY <1>2, <2>1 DEF Outcome
  <2> QED  BY <1>4, <2>1, <2>2 DEF Outcome, Justified
\* A request that starts, or goes on outside the checked steps.
<1>5. ASSUME NEW local, local.at \notin Closing \cup Checked, Outcome(r, local)
      PROVE  Goal
      BY <1>5 DEF Outcome, Justified
<1>6. CASE InvoiceCheck(r)
  <2>1. PICK i \in Invoices, p \in Periods, sound \in BOOLEAN :
           /\ PassesCheck(p)
           /\ Start(r, [Idle EXCEPT !.at = "invoice_find", !.inv = i, !.per = p,
                                    !.sound = sound])
        BY <1>6 DEF InvoiceCheck
  <2> DEFINE local == [Idle EXCEPT !.at = "invoice_find", !.inv = i, !.per = p,
                                   !.sound = sound]
  <2>2. local.at = "invoice_find" /\ local.per = p  BY DEF Idle
  <2>3. Outcome(r, local)  BY <2>1, StartOutcome
  <2>4. FaultyReads = FALSE => ~Shut(p)  BY <1>3, <2>1
  <2> QED  BY <2>2, <2>3, <2>4 DEF Outcome, Justified, Closing
<1>7. CASE InvoiceFind(r)
  <2>1. CASE Return(r)  BY <2>1, ReturnOutcome
  <2>2. CASE Continue(r, to("invoice_insert"))
        BY <1>4, <1>7, <2>2 DEF InvoiceFind, At, Closing, Checked
  <2> QED  BY <1>7, <2>1, <2>2 DEF InvoiceFind
<1>8. ASSUME NEW local, Start(r, local),
             local.at \in {"import_insert", "approve_check", "journal_check",
                           "post_check", "void_check", "update_void"}
      PROVE  Goal
      BY <1>5, <1>8, StartOutcome DEF Closing, Checked
<1>20. CASE ImportFind(r)
  <2>1. PICK i \in Invoices, p \in Periods, sound \in BOOLEAN :
           Start(r, [Idle EXCEPT !.at = "import_insert", !.inv = i, !.per = p,
                                 !.sound = sound])
        BY <1>20 DEF ImportFind
  <2>2. [Idle EXCEPT !.at = "import_insert", !.inv = i, !.per = p,
                     !.sound = sound].at = "import_insert"
        BY DEF Idle
  <2> QED  BY <1>8, <2>1, <2>2
<1>21. CASE ApproveGet(r)
  <2>1. PICK i \in Invoices :
           Start(r, [Idle EXCEPT !.at = "approve_check", !.inv = i,
                        !.per = invoice[i].per, !.sound = invoice[i].sound])
        BY <1>21 DEF ApproveGet
  <2>2. [Idle EXCEPT !.at = "approve_check", !.inv = i, !.per = invoice[i].per,
                     !.sound = invoice[i].sound].at = "approve_check"
        BY DEF Idle
  <2> QED  BY <1>8, <2>1, <2>2
<1>22. CASE JournalNumber(r)
  <2>1. PICK p \in Periods, s \in ManualSources, size \in Sizes :
           \E n \in {NextVoucherNo(p)} \cup ExplicitNos :
              Start(r, [Idle EXCEPT !.at = "journal_check", !.per = p, !.src = s,
                                    !.size = size, !.no = n])
        BY <1>22 DEF JournalNumber
  <2>2. PICK n :
           Start(r, [Idle EXCEPT !.at = "journal_check", !.per = p, !.src = s,
                                 !.size = size, !.no = n])
        BY <2>1
  <2>3. [Idle EXCEPT !.at = "journal_check", !.per = p, !.src = s, !.size = size,
                     !.no = n].at = "journal_check"
        BY DEF Idle
  <2> QED  BY <1>8, <2>2, <2>3
<1>23. ASSUME NEW e, NEW step PROVE Snapshot(e, step).at = step
      BY DEF Snapshot, Idle
<1>24. CASE PostGet(r)
  BY <1>8, <1>23, <1>24 DEF PostGet
<1>25. CASE VoidGet(r)
  BY <1>8, <1>23, <1>25 DEF VoidGet
<1>26. CASE UpdateGet(r)
  <2>1. PICK e \in Entries, s \in ManualSources, size \in Sizes :
           Start(r, [Snapshot(e, "update_void") EXCEPT !.size = size, !.src = s])
        BY <1>26 DEF UpdateGet
  <2>2. [Snapshot(e, "update_void") EXCEPT !.size = size, !.src = s].at
           = "update_void"
        BY DEF Snapshot, Idle
  <2> QED  BY <1>8, <2>1, <2>2
<1>9. CASE RejectInvoice(r)
  BY <1>5, <1>9, StartOutcome DEF RejectInvoice, Idle, Closing, Checked
<1>10. CASE \/ InvoiceInsert(r) \/ ApproveCommit(r) \/ PostCommit(r)
            \/ VoidSimple(r) \/ VoidCommit(r) \/ Abort(r)
  BY <1>10, ReturnOutcome
  DEF InvoiceInsert, ApproveCommit, PostCommit, VoidSimple, VoidCommit, Abort
<1>11. CASE ApproveCheck(r)
  <2>1. CASE Return(r)  BY <2>1, ReturnOutcome
  <2>2. ASSUME Continue(r, to("approve_begin")), PassesCheck(req[r].per)
        PROVE  Goal
        BY <1>3, <1>4, <2>2 DEF Closing
  <2> QED  BY <1>11, <2>1, <2>2 DEF ApproveCheck
<1>12. CASE ApproveBegin(r)
  <2>1. CASE Return(r)  BY <2>1, ReturnOutcome
  <2>2. ASSUME NEW n, Continue(r, [req[r] EXCEPT !.at = "approve_commit", !.no = n])
        PROVE  Goal
    <3>1. Outcome(r, [req[r] EXCEPT !.at = "approve_commit", !.no = n])
             /\ stale' = stale
          BY <2>2, ContinueOutcome
    <3> QED  BY <1>1, <1>12, <3>1
             DEF ApproveBegin, At, Outcome, Justified, Closing, Checked, RequestState
  <2> QED  BY <1>12, <2>1, <2>2 DEF ApproveBegin
<1>13. CASE JournalCheck(r)
  <2>1. CASE Return(r)  BY <2>1, ReturnOutcome
  <2>2. ASSUME Continue(r, to("insert_header")), PassesCheck(req[r].per)
        PROVE  Goal
        BY <1>3, <1>4, <2>2 DEF Closing
  <2> QED  BY <1>13, <2>1, <2>2 DEF JournalCheck
<1>14. CASE InsertHeader(r)
  <2>1. CASE Return(r)  BY <2>1, ReturnOutcome
  <2>2. ASSUME NEW e, Continue(r, [Idle EXCEPT !.at = "insert_lines", !.ent = e])
        PROVE  Goal
        BY <1>5, <2>2, ContinueOutcome DEF Idle, Closing, Checked
  <2> QED  BY <1>14, <2>1, <2>2 DEF InsertHeader
<1>15. CASE InsertLine(r)
  <2>1. CASE Return(r)  BY <2>1, ReturnOutcome
  <2>2. CASE UNCHANGED <<req, stale>>
        BY <1>15, <2>2 DEF InsertLine, At, Justified, Closing, Checked
  <2> QED  BY <1>15, <2>1, <2>2 DEF InsertLine
<1>16. CASE PostCheck(r)
  <2>1. CASE Return(r)  BY <2>1, ReturnOutcome
  <2>2. ASSUME Continue(r, to("post_commit")), PassesCheck(req[r].per)
        PROVE  Goal
        BY <1>3, <1>4, <2>2 DEF Closing
  <2> QED  BY <1>16, <2>1, <2>2 DEF PostCheck
<1>17. CASE VoidCheck(r)
  <2>1. CASE Return(r)  BY <2>1, ReturnOutcome
  <2>2. ASSUME NEW step \in {"void_number", "void_simple"}, Continue(r, to(step)),
               PassesCheck(req[r].per)
        PROVE  Goal
        BY <1>3, <1>4, <2>2 DEF Closing
  <2> QED  BY <1>17, <2>1, <2>2 DEF VoidCheck
<1>18. CASE VoidNumber(r)
  <2>1. PICK n : Continue(r, [req[r] EXCEPT !.at = "void_commit", !.no = n])
        BY <1>18 DEF VoidNumber
  <2>2. Outcome(r, [req[r] EXCEPT !.at = "void_commit", !.no = n]) /\ stale' = stale
        BY <2>1, ContinueOutcome
  <2> QED  BY <1>1, <1>18, <2>2
           DEF VoidNumber, At, Outcome, Justified, Closing, Checked, RequestState
<1>19. CASE UpdateVoid(r)
  <2>1. CASE Return(r)  BY <2>1, ReturnOutcome
  <2>2. CASE Continue(r, to("update_insert"))
        BY <1>2, <1>5, <2>2, ContinueOutcome DEF Closing, Checked
  <2> QED  BY <1>19, <2>1, <2>2 DEF UpdateVoid
<1> QED
    BY <1>6, <1>7, <1>8, <1>9, <1>10, <1>11, <1>12, <1>13, <1>14, <1>15, <1>16,
       <1>17, <1>18, <1>19, <1>20, <1>21, <1>22, <1>24, <1>25, <1>26
    DEF DocumentStep, InvoiceNext, JournalNext

LEMMA DocumentStepPeriod ==
    ASSUME NEW r \in Requests, DocumentStep(r)
    PROVE  period' = period
  BY DEF DocumentStep, InvoiceNext, JournalNext, Abort, InvoiceCheck, InvoiceFind,
         ImportFind, InvoiceInsert, ApproveGet, ApproveCheck, ApproveBegin,
         ApproveCommit, RejectInvoice, JournalNumber, JournalCheck, InsertHeader,
         InsertLine, PostGet, PostCheck, PostCommit, VoidGet, VoidCheck, VoidSimple,
         VoidNumber, VoidCommit, UpdateGet, UpdateVoid

LEMMA NextCases ==
    ASSUME Next
    PROVE  \E r \in Requests : DocumentStep(r) \/ PeriodNext(r)
  BY DEF Next, Handle, DocumentStep

\* The three kinds of period step.
LEMMA PeriodSteps ==
    ASSUME TypeInv, NEW r \in Requests, PeriodNext(r)
    PROVE  /\ \A q \in Requests \ {r} : req'[q] = req[q]
           /\ req'[r].at \notin Checked
           /\ \/ \E p \in Periods :
                    /\ req[r].at = "idle" /\ period[p] = "open"
                    /\ UpdateStatus(p, "closing")
                    /\ req'[r].at \in Closing /\ req'[r].per = p
                    /\ stale' = {s \in stale : s[1] # r}
              \/ /\ req[r].at \in Closing /\ req'[r].at \in Closing
                 /\ req'[r].per = req[r].per
                 /\ period' = period /\ stale' = stale
              \/ /\ req[r].at \in Closing /\ req'[r].at = "idle"
                 /\ \/ UNCHANGED <<period, stale>>
                    \/ UpdateStatus(req[r].per, "open") /\ UNCHANGED stale
                    \/ /\ UpdateStatus(req[r].per, "closed")
                       /\ stale' = stale \cup {<<q, req[r].per>> :
                                        q \in {q \in Requests : ~At(q, "idle")}}
              \/ \E p \in Periods :
                    /\ req[r].at = "idle" /\ period[p] = "closed"
                    /\ UpdateStatus(p, "open") \/ UpdateStatus(p, "locked")
                    /\ req'[r].at = "idle"
                    /\ stale' = {s \in stale : s[1] # r}
<1>1. req[r] \in RequestState  BY LocalOfRequest
<1>2. CASE CloseBegin(r)
  <2>1. PICK p \in Periods :
           /\ At(r, "idle") /\ Closable(p) /\ UpdateStatus(p, "closing")
           /\ Start(r, [Idle EXCEPT !.at = "close_invoices", !.per = p])
        BY <1>2 DEF CloseBegin
  <2>2. Outcome(r, [Idle EXCEPT !.at = "close_invoices", !.per = p])
        BY <2>1, StartOutcome
  <2>3. req'[r].at = "close_invoices" /\ req'[r].per = p
        BY <2>2 DEF Outcome, Idle
  <2> QED  BY <2>1, <2>2, <2>3 DEF At, Closable, Start, Outcome, Closing, Checked
<1>3. CASE CloseInvoices(r)
  <2>1. PICK none : Continue(r, [req[r] EXCEPT !.at = "close_drafts", !.ok = none])
        BY <1>3 DEF CloseInvoices
  <2>2. Outcome(r, [req[r] EXCEPT !.at = "close_drafts", !.ok = none])
           /\ stale' = stale
        BY <2>1, ContinueOutcome
  <2>3. req'[r].at = "close_drafts" /\ req'[r].per = req[r].per
        BY <1>1, <2>2 DEF Outcome, RequestState
  <2> QED  BY <1>3, <2>2, <2>3 DEF CloseInvoices, At, Outcome, Closing, Checked
<1>4. CASE CloseDrafts(r)
  <2>1. PICK none :
           Continue(r, [req[r] EXCEPT !.at = "close_balance", !.ok = @ /\ none])
        BY <1>4 DEF CloseDrafts
  <2>2. Outcome(r, [req[r] EXCEPT !.at = "close_balance", !.ok = @ /\ none])
           /\ stale' = stale
        BY <2>1, ContinueOutcome
  <2>3. req'[r].at = "close_balance" /\ req'[r].per = req[r].per
        BY <1>1, <2>2 DEF Outcome, RequestState
  <2> QED  BY <1>4, <2>2, <2>3 DEF CloseDrafts, At, Outcome, Closing, Checked
<1>5. CASE CloseBalance(r)
  <2>1. PICK read :
           Continue(r, [req[r] EXCEPT !.at = "close_finish",
                           !.ok = @ /\ read /\ TrialBalanced(req[r].per)])
        BY <1>5 DEF CloseBalance
  <2>2. Outcome(r, [req[r] EXCEPT !.at = "close_finish",
                       !.ok = @ /\ read /\ TrialBalanced(req[r].per)])
           /\ stale' = stale
        BY <2>1, ContinueOutcome
  <2>3. req'[r].at = "close_finish" /\ req'[r].per = req[r].per
        BY <1>1, <2>2 DEF Outcome, RequestState
  <2> QED  BY <1>5, <2>2, <2>3 DEF CloseBalance, At, Outcome, Closing, Checked
<1>6. CASE CloseFinish(r)
  <2>1. req' = [req EXCEPT ![r] = Idle]  BY <1>6 DEF CloseFinish
  <2>2. /\ \A q \in Requests \ {r} : req'[q] = req[q]
        /\ req'[r].at = "idle"
        BY <2>1 DEF TypeInv, RequestsOK, Idle
  <2> QED  BY <1>6, <2>2 DEF CloseFinish, RollBack, At, Closing, Checked
<1>7. CASE ReopenPeriod(r) \/ LockPeriod(r)
  <2>1. PICK p \in Periods :
           /\ At(r, "idle") /\ period[p] = "closed"
           /\ UpdateStatus(p, "open") \/ UpdateStatus(p, "locked")
           /\ Start(r, Idle)
        BY <1>7 DEF ReopenPeriod, LockPeriod
  <2>2. Outcome(r, Idle)  BY <2>1, StartOutcome
  <2> QED  BY <2>1, <2>2 DEF At, Start, Outcome, Idle, Checked
<1> QED  BY <1>2, <1>3, <1>4, <1>5, <1>6, <1>7 DEF PeriodNext

-----------------------------------------------------------------------------
(* One closer per period *)

LEMMA OneCloserStep ==
    ASSUME TypeInv, OneCloser, [Next]_vars
    PROVE  OneCloser'
<1>1. CASE UNCHANGED vars
  BY <1>1 DEF vars, OneCloser
<1>2. ASSUME NEW r \in Requests, DocumentStep(r)
      PROVE  OneCloser'
      BY <1>2, DocumentStepOutcome, DocumentStepPeriod DEF OneCloser
<1>3. ASSUME NEW r \in Requests, PeriodNext(r)
      PROVE  OneCloser'
  <2>0. \A q \in Requests : req[q].at \in Closing => req[q].per \in Periods
        BY LocalOfRequest DEF LocalOK
  <2>1. period \in [Periods -> PeriodStatus]  BY DEF TypeInv, RowsOK
  <2>2. \A q \in Requests \ {r} : req'[q] = req[q]  BY <1>3, PeriodSteps
  <2>3. "idle" \notin Closing  BY DEF Closing
  <2>4. CASE \E p \in Periods :
                /\ req[r].at = "idle" /\ period[p] = "open"
                /\ UpdateStatus(p, "closing")
                /\ req'[r].at \in Closing /\ req'[r].per = p
    <3>1. PICK p \in Periods : /\ period[p] = "open"
                               /\ period' = [period EXCEPT ![p] = "closing"]
                               /\ req'[r].at \in Closing /\ req'[r].per = p
          BY <2>4 DEF UpdateStatus
    <3>2. \A q \in Requests : req[q].at \in Closing => req[q].per # p
          BY <3>1 DEF OneCloser
    <3> QED  BY <2>0, <2>1, <2>2, <3>1, <3>2 DEF OneCloser
  <2>5. CASE /\ req[r].at \in Closing /\ req'[r].at \in Closing
             /\ req'[r].per = req[r].per /\ period' = period
        BY <2>2, <2>5 DEF OneCloser
  <2>6. CASE /\ req[r].at \in Closing /\ req'[r].at = "idle"
             /\ \A p \in Periods \ {req[r].per} : period'[p] = period[p]
        BY <2>0, <2>2, <2>3, <2>6 DEF OneCloser
  <2>7. CASE \E p \in Periods :
                /\ req[r].at = "idle" /\ period[p] = "closed"
                /\ req'[r].at = "idle"
                /\ \A o \in Periods \ {p} : period'[o] = period[o]
        BY <2>0, <2>2, <2>3, <2>7 DEF OneCloser
  <2>8. ASSUME NEW p, NEW to, UpdateStatus(p, to)
        PROVE  \A o \in Periods \ {p} : period'[o] = period[o]
        BY <2>1, <2>8 DEF UpdateStatus
  <2> QED  BY <1>3, <2>4, <2>5, <2>6, <2>7, <2>8, PeriodSteps
<1> QED  BY <1>1, <1>2, <1>3, NextCases

\* ClosePeriod: whatever requests run, at most one of them is closing a period,
\* and the period is "closing" from its first UPDATE to its last.
THEOREM OneCloserAlways == Spec => []OneCloser
<1>1. Init => OneCloser  BY DEF Init, LedgerInit, OneCloser, Closing, Idle
<1>2. OneCloser /\ TypeInv /\ [Next]_vars => OneCloser'  BY OneCloserStep
<1> QED  BY <1>1, <1>2, TypeInvariant, PTL DEF Spec

-----------------------------------------------------------------------------
(* Who writes into a closed period *)

\* A document request forgets nothing about the other requests.
LEMMA DocumentStepStale ==
    ASSUME NEW r \in Requests, DocumentStep(r)
    PROVE  \A s \in stale : s[1] # r => s \in stale'
<1>1. ASSUME NEW local, Start(r, local) \/ Continue(r, local)
      PROVE  \A s \in stale : s[1] # r => s \in stale'
      BY <1>1 DEF Start, Continue
<1> QED
    BY <1>1
    DEF DocumentStep, InvoiceNext, JournalNext, Abort, Return, InvoiceCheck,
        InvoiceFind, ImportFind, InvoiceInsert, ApproveGet, ApproveCheck,
        ApproveBegin, ApproveCommit, RejectInvoice, JournalNumber, JournalCheck,
        InsertHeader, InsertLine, PostGet, PostCheck, PostCommit, VoidGet, VoidCheck,
        VoidSimple, VoidNumber, VoidCommit, UpdateGet, UpdateVoid

LEMMA StragglersStep ==
    ASSUME TypeInv, OnlyStragglersWrite, FaultyReads = FALSE, [Next]_vars
    PROVE  OnlyStragglersWrite'
<1> DEFINE ShutNext(p) == period'[p] \in {"closed", "locked"}
<1>1. CASE UNCHANGED vars
  BY <1>1 DEF vars, OnlyStragglersWrite, Shut
<1>2. ASSUME NEW r \in Requests, DocumentStep(r)
      PROVE  OnlyStragglersWrite'
  <2>1. period' = period  BY <1>2, DocumentStepPeriod
  <2>2. ASSUME NEW q \in Requests, q # r, req'[q].at \in Checked, ShutNext(req'[q].per)
        PROVE  <<q, req'[q].per>> \in stale'
    <3>1. req'[q] = req[q]  BY <1>2, <2>2, DocumentStepOutcome
    <3>2. <<q, req[q].per>> \in stale
          BY <2>1, <2>2, <3>1 DEF OnlyStragglersWrite, Shut
    <3> QED  BY <1>2, <2>2, <3>1, <3>2, DocumentStepStale
  <2>3. ASSUME req'[r].at \in Checked, ShutNext(req'[r].per)
        PROVE  <<r, req'[r].per>> \in stale'
    <3>1. Shut(req'[r].per)  BY <2>1, <2>3 DEF Shut
    <3>2. req[r].at \in Checked /\ req'[r].per = req[r].per /\ stale' = stale
          BY <1>2, <2>3, <3>1, DocumentStepOutcome DEF Justified
    <3> QED  BY <3>1, <3>2 DEF OnlyStragglersWrite
  <2> QED  BY <2>2, <2>3 DEF OnlyStragglersWrite, Shut
<1>3. ASSUME NEW r \in Requests, PeriodNext(r)
      PROVE  OnlyStragglersWrite'
  <2>1. /\ \A q \in Requests \ {r} : req'[q] = req[q]
        /\ req'[r].at \notin Checked
        BY <1>3, PeriodSteps
  <2>2. period \in [Periods -> PeriodStatus] /\ stale \subseteq Requests \X Periods
        BY DEF TypeInv, RowsOK, RequestsOK
  <2>3. SUFFICES ASSUME NEW q \in Requests \ {r}, req[q].at \in Checked,
                        ShutNext(req[q].per)
                 PROVE  <<q, req[q].per>> \in stale'
        BY <2>1 DEF OnlyStragglersWrite, Shut
  <2>4. Shut(req[q].per) => <<q, req[q].per>> \in stale'
    <3>1. Shut(req[q].per) => <<q, req[q].per>> \in stale
          BY <2>3 DEF OnlyStragglersWrite
    <3>2. \A s \in stale : s[1] # r => s \in stale'  BY <1>3, PeriodSteps
    <3> QED  BY <3>1, <3>2
  \* A period becomes closed in the step that makes all others stragglers.
  <2>5. ASSUME ~Shut(req[q].per)
        PROVE  /\ UpdateStatus(req[r].per, "closed") /\ req[q].per = req[r].per
               /\ stale' = stale \cup {<<o, req[r].per>> :
                                o \in {o \in Requests : ~At(o, "idle")}}
    <3>1. ASSUME NEW p, NEW to \in {"open", "closing", "locked"}, UpdateStatus(p, to),
                 to = "locked" => period[p] = "closed"
          PROVE  ShutNext(req[q].per) => Shut(req[q].per)
          BY <2>2, <3>1 DEF UpdateStatus, Shut
    <3>2. UpdateStatus(req[r].per, "closed") => req[q].per = req[r].per
          BY <2>2, <2>3, <2>5 DEF UpdateStatus, Shut
    <3>3. period' = period => Shut(req[q].per)  BY <2>3 DEF Shut
    <3> QED  BY <1>3, <2>3, <2>5, <3>1, <3>2, <3>3, PeriodSteps
  <2>6. ~At(q, "idle")  BY <2>3 DEF At, Checked
  <2> QED  BY <2>4, <2>5, <2>6
<1> QED  BY <1>1, <1>2, <1>3, NextCases

\* IsClosed in create, approve, post and void: if no SELECT fails, a request that
\* is past its check of a closed or locked period was under way when it closed.
THEOREM StragglersOnly ==
    ASSUME FaultyReads = FALSE
    PROVE  Spec => []OnlyStragglersWrite
<1>1. Init => OnlyStragglersWrite
      BY DEF Init, LedgerInit, OnlyStragglersWrite, Checked, Idle
<1>2. OnlyStragglersWrite /\ TypeInv /\ [Next]_vars => OnlyStragglersWrite'
      BY StragglersStep
<1> QED  BY <1>1, <1>2, TypeInvariant, PTL DEF Spec

-----------------------------------------------------------------------------
(* Invoices: drafts of approvals *)

ApproveSteps == {"approve_check", "approve_begin", "approve_commit"}

\* A request that approves an invoice read it as it still is, but for its
\* status; between ApproveTx and Commit it is the only one and the invoice is
\* under review.
ApprovingOK ==
    \A r \in Requests :
        /\ req[r].at \in ApproveSteps =>
              /\ req[r].inv \in Invoices
              /\ invoice[req[r].inv].status # "absent"
              /\ invoice[req[r].inv].per = req[r].per
        /\ req[r].at = "approve_commit" =>
              /\ invoice[req[r].inv].status = "pending_review"
              /\ \A q \in Requests :
                    req[q].at = "approve_commit" /\ req[q].inv = req[r].inv => q = r

\* A row that was never inserted is nobody's draft.
UnusedEntries == \A e \in Entries : entry[e].status = "absent" => entry[e].kind = "none"

ApprovalInv == ApprovingOK /\ UnusedEntries /\ OneDraftPerApproval

LEMMA ApprovalInit == Init => ApprovalInv
  BY DEF Init, LedgerInit, ApprovalInv, ApprovingOK, ApproveSteps, UnusedEntries,
         OneDraftPerApproval, ApprovalsOf, NoInvoice, NoEntry, Idle

-----------------------------------------------------------------------------
(* Steps that neither approve nor build the draft of an approval *)

\* The ways other than approval by which the invoices change ...
InvoicesElsewhere ==
    \A i \in Invoices :
        \/ invoice'[i] = invoice[i]
        \/ invoice[i].status = "absent" /\ invoice'[i].status = "pending_review"
        \/ /\ invoice[i].status = "pending_review" /\ ~RowLocked(i)
           /\ invoice'[i].status = "rejected" /\ invoice'[i].per = invoice[i].per
        \/ /\ invoice[i].status = "approved"
           /\ invoice'[i].status = "posted" /\ invoice'[i].per = invoice[i].per

\* ... and the entries: no draft of an approval appears, disappears or changes.
EntriesElsewhere ==
    \A e \in Entries :
        /\ entry'[e].status = "absent" => entry'[e].kind = "none"
        /\ entry[e].kind = "approval" \/ entry'[e].kind = "approval" =>
              /\ entry'[e].kind = entry[e].kind /\ entry'[e].src = entry[e].src
              /\ entry'[e].per = entry[e].per

LEMMA DraftsElsewhere ==
    ASSUME OneDraftPerApproval, InvoicesElsewhere, EntriesElsewhere
    PROVE  OneDraftPerApproval'
<1>1. \A i \in Invoices : ApprovalsOf(i)' = ApprovalsOf(i)
      BY DEF EntriesElsewhere, ApprovalsOf
<1>2. \A i \in Invoices : \A e \in ApprovalsOf(i) :
         e \in Entries /\ entry'[e].per = entry[e].per
      BY DEF EntriesElsewhere, ApprovalsOf
<1>3. ASSUME NEW i \in Invoices
      PROVE  /\ invoice'[i].status \in {"approved", "posted"} <=> ApprovalsOf(i) # {}
             /\ \A d, e \in ApprovalsOf(i) : d = e
             /\ \A e \in ApprovalsOf(i) : entry'[e].per = invoice'[i].per
  <2>1. invoice[i].status \in {"approved", "posted"} <=> ApprovalsOf(i) # {}
        BY DEF OneDraftPerApproval
  <2>2. \A d, e \in ApprovalsOf(i) : d = e  BY DEF OneDraftPerApproval
  <2>3. \A e \in ApprovalsOf(i) : entry'[e].per = invoice[i].per
        BY <1>2 DEF OneDraftPerApproval
  <2>4. CASE invoice'[i] = invoice[i]  BY <2>1, <2>2, <2>3, <2>4
  <2>5. CASE /\ invoice[i].status \in {"absent", "pending_review"}
             /\ invoice'[i].status \in {"pending_review", "rejected"}
        BY <2>1, <2>2, <2>5
  <2>6. CASE /\ invoice[i].status = "approved" /\ invoice'[i].status = "posted"
             /\ invoice'[i].per = invoice[i].per
        BY <2>1, <2>2, <2>3, <2>6
  <2> QED  BY <2>4, <2>5, <2>6 DEF InvoicesElsewhere
<1> QED  BY <1>1, <1>3 DEF OneDraftPerApproval

\* Requests that were approving go on undisturbed.
LEMMA ElsewhereKeeps ==
    ASSUME ApprovalInv, InvoicesElsewhere, EntriesElsewhere,
           \A q \in Requests : req'[q] = req[q] \/ req'[q].at \notin ApproveSteps
    PROVE  ApprovalInv'
<1>1. OneDraftPerApproval'  BY DraftsElsewhere DEF ApprovalInv
<1>2. UnusedEntries'        BY DEF EntriesElsewhere, UnusedEntries
<1>3. ASSUME NEW q \in Requests, req'[q].at \in ApproveSteps
      PROVE  /\ req'[q] = req[q] /\ req[q].inv \in Invoices
             /\ invoice'[req[q].inv].status # "absent"
             /\ invoice'[req[q].inv].per = req[q].per
  <2>1. req'[q] = req[q] /\ req[q].at \in ApproveSteps  BY <1>3
  <2>2. /\ req[q].inv \in Invoices
        /\ invoice[req[q].inv].status # "absent"
        /\ invoice[req[q].inv].per = req[q].per
        BY <2>1 DEF ApprovalInv, ApprovingOK
  <2> QED  BY <2>1, <2>2 DEF InvoicesElsewhere
<1>4. ASSUME NEW q \in Requests, req'[q].at = "approve_commit"
      PROVE  invoice'[req'[q].inv].status = "pending_review"
  <2>1. req'[q] = req[q] /\ req[q].inv \in Invoices
        BY <1>3, <1>4 DEF ApproveSteps
  <2>2. invoice[req[q].inv].status = "pending_review"
        BY <1>4, <2>1 DEF ApprovalInv, ApprovingOK
  <2>3. RowLocked(req[q].inv)  BY <1>4, <2>1 DEF RowLocked, At
  <2> QED  BY <2>1, <2>2, <2>3 DEF InvoicesElsewhere
<1>5. ASSUME NEW q \in Requests, NEW o \in Requests,
             req'[q].at = "approve_commit", req'[o].at = "approve_commit",
             req'[q].inv = req'[o].inv
      PROVE  q = o
      BY <1>5 DEF ApprovalInv, ApprovingOK, ApproveSteps
<1>6. ApprovingOK'  BY <1>3, <1>4, <1>5 DEF ApprovingOK
<1> QED  BY <1>1, <1>2, <1>6 DEF ApprovalInv

-----------------------------------------------------------------------------
(* Which steps are elsewhere *)

LEMMA SameRowsElsewhere ==
    ASSUME UnusedEntries, UNCHANGED <<invoice, entry>>
    PROVE  InvoicesElsewhere /\ EntriesElsewhere
  BY DEF UnusedEntries, InvoicesElsewhere, EntriesElsewhere

\* A request that starts another method, goes on in one, or ends.
LEMMA NotApproving ==
    ASSUME TypeInv, NEW r \in Requests, NEW local, local.at \notin ApproveSteps,
           Start(r, local) \/ Continue(r, local)
    PROVE  \A q \in Requests : req'[q] = req[q] \/ req'[q].at \notin ApproveSteps
  BY StartOutcome, ContinueOutcome DEF Outcome

LEMMA ReturnNotApproving ==
    ASSUME TypeInv, NEW r \in Requests, Return(r)
    PROVE  \A q \in Requests : req'[q] = req[q] \/ req'[q].at \notin ApproveSteps
  BY NotApproving DEF Return, Idle, ApproveSteps

\* A column of an entry that is not its kind, source or period.
LEMMA ColumnElsewhere ==
    ASSUME TypeInv, UnusedEntries, NEW e,
           \/ entry' = entry
           \/ entry' = [entry EXCEPT ![e].lines = entry[e].lines + 1]
           \/ entry' = [entry EXCEPT ![e].status = "voided"]
           \/ entry' = [entry EXCEPT ![e].status = "posted", ![e].stamped = TRUE]
    PROVE  EntriesElsewhere
<1>1. entry \in [Entries -> EntryRow]  BY DEF TypeInv, RowsOK
<1>2. ASSUME NEW d \in Entries
      PROVE  /\ entry'[d].kind = entry[d].kind /\ entry'[d].src = entry[d].src
             /\ entry'[d].per = entry[d].per
             /\ entry'[d].status = "absent" => entry[d].status = "absent"
  <2>1. entry[d] \in EntryRow  BY <1>1
  <2> QED  BY <1>1, <2>1 DEF EntryRow
<1> QED  BY <1>2 DEF UnusedEntries, EntriesElsewhere

\* A new row that is not the draft of an approval.
LEMMA NewRowElsewhere ==
    ASSUME TypeInv, UnusedEntries, NEW v \in FreeEntries, NEW row,
           row.kind # "approval", row.status # "absent",
           NEW table \in [Entries -> EntryRow],
           \A e \in Entries : /\ table[e].kind = entry[e].kind
                              /\ table[e].src = entry[e].src
                              /\ table[e].per = entry[e].per
                              /\ table[e].status = "absent" => entry[e].status = "absent",
           entry' = [table EXCEPT ![v] = row]
    PROVE  EntriesElsewhere
<1>1. v \in Entries /\ entry[v].kind = "none"
      BY DEF FreeEntries, Stored, UnusedEntries
<1>2. entry'[v] = row /\ \A e \in Entries \ {v} : entry'[e] = table[e]
      BY <1>1
<1> QED  BY <1>1, <1>2 DEF UnusedEntries, EntriesElsewhere

LEMMA JournalKeeps ==
    ASSUME TypeInv, ApprovalInv, NEW r \in Requests, JournalNext(r)
    PROVE  ApprovalInv'
<1> DEFINE Undisturbed ==
              \A q \in Requests : req'[q] = req[q] \/ req'[q].at \notin ApproveSteps
           to(step) == [req[r] EXCEPT !.at = step]
<1>1. UnusedEntries  BY DEF ApprovalInv
<1>2. ASSUME NEW step PROVE to(step).at = step
      BY LocalOfRequest DEF RequestState
<1>3. ASSUME Return(r) PROVE Undisturbed
      BY <1>3, ReturnNotApproving
<1>4. ASSUME NEW step, step \notin ApproveSteps, Continue(r, to(step))
      PROVE  Undisturbed
      BY <1>2, <1>4, NotApproving
<1>5. ASSUME NEW local, local.at \notin ApproveSteps, Start(r, local)
      PROVE  Undisturbed
      BY <1>5, NotApproving
<1>6. ASSUME UNCHANGED <<invoice, entry>>, Undisturbed
      PROVE  ApprovalInv'
      BY <1>1, <1>6, SameRowsElsewhere, ElsewhereKeeps
<1>7. ASSUME invoice' = invoice, EntriesElsewhere, Undisturbed
      PROVE  ApprovalInv'
      BY <1>7, ElsewhereKeeps DEF InvoicesElsewhere
<1> HIDE DEF Undisturbed
<1>8. CASE JournalNumber(r)
  <2>1. PICK p \in Periods, s \in ManualSources, size \in Sizes :
           \E n \in {NextVoucherNo(p)} \cup ExplicitNos :
              Start(r, [Idle EXCEPT !.at = "journal_check", !.per = p, !.src = s,
                                    !.size = size, !.no = n])
        BY <1>8 DEF JournalNumber
  <2>2. PICK n : Start(r, [Idle EXCEPT !.at = "journal_check", !.per = p, !.src = s,
                                       !.size = size, !.no = n])
        BY <2>1
  <2>3. [Idle EXCEPT !.at = "journal_check", !.per = p, !.src = s, !.size = size,
                     !.no = n].at = "journal_check"
        BY DEF Idle
  <2>4. Undisturbed  BY <1>5, <2>2, <2>3 DEF ApproveSteps
  <2> QED  BY <1>6, <1>8, <2>4 DEF JournalNumber
<1>9. ASSUME NEW e, NEW step PROVE Snapshot(e, step).at = step
      BY DEF Snapshot, Idle
<1>10. CASE PostGet(r) \/ VoidGet(r)
  <2>1. PICK e \in Entries, step \in {"post_check", "void_check"} :
           Start(r, Snapshot(e, step))
        BY <1>10 DEF PostGet, VoidGet
  <2>2. Undisturbed  BY <1>5, <1>9, <2>1 DEF ApproveSteps
  <2> QED  BY <1>6, <1>10, <2>2 DEF PostGet, VoidGet
<1>11. CASE UpdateGet(r)
  <2>1. PICK e \in Entries, s \in ManualSources, size \in Sizes :
           Start(r, [Snapshot(e, "update_void") EXCEPT !.size = size, !.src = s])
        BY <1>11 DEF UpdateGet
  <2>2. [Snapshot(e, "update_void") EXCEPT !.size = size, !.src = s].at
           = "update_void"
        BY DEF Snapshot, Idle
  <2>3. Undisturbed  BY <1>5, <2>1, <2>2 DEF ApproveSteps
  <2> QED  BY <1>6, <1>11, <2>3 DEF UpdateGet
<1>12. CASE JournalCheck(r) \/ PostCheck(r) \/ VoidCheck(r)
  <2>1. \/ Return(r)
        \/ \E step \in {"insert_header", "post_commit", "void_number", "void_simple"} :
              Continue(r, to(step))
        BY <1>12 DEF JournalCheck, PostCheck, VoidCheck
  <2>2. Undisturbed  BY <1>3, <1>4, <2>1 DEF ApproveSteps
  <2> QED  BY <1>6, <1>12, <2>2 DEF JournalCheck, PostCheck, VoidCheck
<1>13. CASE VoidNumber(r)
  <2>1. PICK n : Continue(r, [req[r] EXCEPT !.at = "void_commit", !.no = n])
        BY <1>13 DEF VoidNumber
  <2>2. [req[r] EXCEPT !.at = "void_commit", !.no = n].at = "void_commit"
        BY LocalOfRequest DEF RequestState
  <2>3. Undisturbed  BY <2>1, <2>2, NotApproving DEF ApproveSteps, Undisturbed
  <2> QED  BY <1>6, <1>13, <2>3 DEF VoidNumber
<1>14. CASE InsertHeader(r)
  <2> DEFINE header == [NoEntry EXCEPT !.status = "draft", !.per = req[r].per,
                           !.src = req[r].src, !.no = req[r].no,
                           !.size = req[r].size, !.kind = "manual"]
  <2>1. CASE Return(r) /\ UNCHANGED entry
        BY <1>3, <1>6, <1>14, <2>1 DEF InsertHeader
  <2>2. ASSUME NEW e \in FreeEntries, entry' = [entry EXCEPT ![e] = header],
               Continue(r, [Idle EXCEPT !.at = "insert_lines", !.ent = e])
        PROVE  ApprovalInv'
    <3>1. [Idle EXCEPT !.at = "insert_lines", !.ent = e].at = "insert_lines"
          BY DEF Idle
    <3>2. Undisturbed  BY <2>2, <3>1, NotApproving DEF ApproveSteps, Undisturbed
    <3>3. header.kind = "manual" /\ header.status = "draft"  BY DEF NoEntry
    <3>4. entry \in [Entries -> EntryRow]  BY DEF TypeInv, RowsOK
    <3> HIDE DEF header
    <3>5. EntriesElsewhere  BY <1>1, <2>2, <3>3, <3>4, NewRowElsewhere
    <3> QED  BY <1>7, <1>14, <3>2, <3>5 DEF InsertHeader
  <2> QED  BY <1>14, <2>1, <2>2 DEF InsertHeader
<1>15. CASE InsertLine(r)
  <2>1. Undisturbed  BY <1>3, <1>15 DEF InsertLine, Undisturbed
  <2>2. EntriesElsewhere
        BY <1>1, <1>15, ColumnElsewhere DEF InsertLine
  <2> QED  BY <1>7, <1>15, <2>1, <2>2 DEF InsertLine
<1>16. CASE PostCommit(r)
  <2>1. Undisturbed  BY <1>3, <1>16 DEF PostCommit
  <2>2. EntriesElsewhere
        BY <1>1, <1>16, ColumnElsewhere DEF PostCommit
  <2>3. InvoicesElsewhere
        BY <1>16 DEF PostCommit, InvoicesElsewhere, TypeInv, RowsOK, InvoiceRow
  <2> QED  BY <2>1, <2>2, <2>3, ElsewhereKeeps DEF Undisturbed
<1>17. CASE VoidSimple(r)
  <2>1. Undisturbed  BY <1>3, <1>17 DEF VoidSimple
  <2>2. EntriesElsewhere
        BY <1>1, <1>17, ColumnElsewhere DEF VoidSimple
  <2> QED  BY <1>7, <1>17, <2>1, <2>2 DEF VoidSimple
<1>18. CASE VoidCommit(r)
  <2> DEFINE e == req[r].ent
             reversal == [status |-> "posted", per |-> req[r].per,
                          src |-> req[r].src, no |-> req[r].no, stamped |-> TRUE,
                          lines |-> req[r].lines, size |-> req[r].lines,
                          kind |-> "reversal", of |-> e]
             voided == [entry EXCEPT ![e].status = "voided"]
  <2>1. Undisturbed  BY <1>3, <1>18 DEF VoidCommit
  <2>2. CASE UNCHANGED entry
        BY <1>6, <1>18, <2>1, <2>2 DEF VoidCommit
  <2>3. ASSUME NEW v \in FreeEntries,
               entry' = [entry EXCEPT ![e].status = "voided", ![v] = reversal]
        PROVE  ApprovalInv'
    <3>1. reversal.kind = "reversal" /\ reversal.status = "posted"  OBVIOUS
    <3>2. voided \in [Entries -> EntryRow]  BY ColumnUpdates
    <3>3. ASSUME NEW d \in Entries
          PROVE  /\ voided[d].kind = entry[d].kind /\ voided[d].src = entry[d].src
                 /\ voided[d].per = entry[d].per
                 /\ voided[d].status = "absent" => entry[d].status = "absent"
          BY DEF TypeInv, RowsOK, EntryRow
    <3>4. entry' = [voided EXCEPT ![v] = reversal]  BY <2>3
    <3> HIDE DEF voided, reversal
    <3>5. EntriesElsewhere  BY <1>1, <3>1, <3>2, <3>3, <3>4, NewRowElsewhere
    <3> QED  BY <1>7, <1>18, <2>1, <3>5 DEF VoidCommit
  <2> QED  BY <1>18, <2>2, <2>3 DEF VoidCommit
<1>19. CASE UpdateVoid(r)
  <2>1. Undisturbed
        BY <1>3, <1>4, <1>19 DEF UpdateVoid, ApproveSteps
  <2>2. EntriesElsewhere
        BY <1>1, <1>19, ColumnElsewhere DEF UpdateVoid
  <2> QED  BY <1>7, <1>19, <2>1, <2>2 DEF UpdateVoid
<1> QED
    BY <1>8, <1>10, <1>11, <1>12, <1>13, <1>14, <1>15, <1>16, <1>17, <1>18, <1>19
    DEF JournalNext

LEMMA PeriodKeeps ==
    ASSUME TypeInv, ApprovalInv, NEW r \in Requests, PeriodNext(r)
    PROVE  ApprovalInv'
<1>1. UNCHANGED <<invoice, entry>>
      BY DEF PeriodNext, CloseBegin, CloseInvoices, CloseDrafts, CloseBalance,
             CloseFinish, ReopenPeriod, LockPeriod
<1>2. \A q \in Requests \ {r} : req'[q] = req[q]  BY PeriodSteps
<1>3. req'[r].at \notin ApproveSteps
      BY PeriodSteps DEF Closing, ApproveSteps
<1> QED
    BY <1>1, <1>2, <1>3, SameRowsElsewhere, ElsewhereKeeps DEF ApprovalInv

LEMMA AbortKeeps ==
    ASSUME TypeInv, ApprovalInv, NEW r \in Requests, Abort(r)
    PROVE  ApprovalInv'
  BY ReturnNotApproving, SameRowsElsewhere, ElsewhereKeeps DEF Abort, ApprovalInv

-----------------------------------------------------------------------------
(* The methods of invoices *)

\* An invoice that is read is approved in the period it is read with.
LEMMA ApprovingGoesOn ==
    ASSUME TypeInv, ApprovalInv, NEW r \in Requests, NEW local, Outcome(r, local),
           UNCHANGED <<invoice, entry>>,
           local.inv \in Invoices, invoice[local.inv].status # "absent",
           invoice[local.inv].per = local.per,
           local.at = "approve_commit" =>
              invoice[local.inv].status = "pending_review" /\ ~RowLocked(local.inv)
    PROVE  ApprovalInv'
<1>1. OneDraftPerApproval' /\ UnusedEntries'
      BY SameRowsElsewhere, DraftsElsewhere
      DEF ApprovalInv, UnusedEntries
<1>2. /\ req'[r] = local /\ \A q \in Requests \ {r} : req'[q] = req[q]
      BY DEF Outcome
<1>3. \A q \in Requests : req[q].at = "approve_commit" /\ local.at = "approve_commit"
         => req[q].inv # local.inv
      BY DEF RowLocked, At
<1>4. ApprovingOK'
  <2>1. ASSUME NEW q \in Requests
        PROVE  /\ req'[q].at \in ApproveSteps =>
                     /\ req'[q].inv \in Invoices
                     /\ invoice[req'[q].inv].status # "absent"
                     /\ invoice[req'[q].inv].per = req'[q].per
               /\ req'[q].at = "approve_commit" =>
                     invoice[req'[q].inv].status = "pending_review"
        BY <1>2 DEF ApprovalInv, ApprovingOK
  <2>2. ASSUME NEW q \in Requests, NEW o \in Requests,
               req'[q].at = "approve_commit", req'[o].at = "approve_commit",
               req'[q].inv = req'[o].inv
        PROVE  q = o
        BY <1>2, <1>3, <2>2 DEF ApprovalInv, ApprovingOK
  <2>3. invoice' = invoice  OBVIOUS
  <2> QED  BY <2>1, <2>2, <2>3 DEF ApprovingOK
<1> QED  BY <1>1, <1>4 DEF ApprovalInv

\* The step that approves: the draft is the first of its invoice, and nobody
\* else is about to approve it.
LEMMA ApproveCommitKeeps ==
    ASSUME TypeInv, ApprovalInv, NEW r \in Requests, ApproveCommit(r)
    PROVE  ApprovalInv'
<1> DEFINE i == req[r].inv
           p == req[r].per
           draft == [NoEntry EXCEPT !.status = "draft", !.per = p, !.src = i,
                        !.no = req[r].no, !.lines = InvoiceSize,
                        !.size = InvoiceSize, !.kind = "approval"]
<1>1. /\ i \in Invoices /\ invoice[i].per = p
      /\ invoice[i].status = "pending_review"
      /\ \A q \in Requests : req[q].at = "approve_commit" /\ req[q].inv = i => q = r
      BY DEF ApproveCommit, At, ApprovalInv, ApprovingOK, ApproveSteps
<1>2. /\ req'[r].at = "idle"
      /\ \A q \in Requests \ {r} : req'[q] = req[q]
  <2>1. Outcome(r, Idle)  BY ContinueOutcome DEF ApproveCommit, Return
  <2> QED  BY <2>1 DEF Outcome, Idle
<1>3. CASE UNCHANGED <<invoice, entry>>
      BY <1>2, <1>3, SameRowsElsewhere, ElsewhereKeeps DEF ApprovalInv, ApproveSteps
<1>4. ASSUME NEW e \in FreeEntries,
             invoice' = [invoice EXCEPT ![i].status = "approved"],
             entry' = [entry EXCEPT ![e] = draft]
      PROVE  ApprovalInv'
  <2>1. e \in Entries /\ entry[e].status = "absent" /\ entry[e].kind = "none"
        BY DEF FreeEntries, Stored, ApprovalInv, UnusedEntries
  <2>2. /\ invoice'[i].status = "approved" /\ invoice'[i].per = p
        /\ \A j \in Invoices \ {i} : invoice'[j] = invoice[j]
        BY <1>1, <1>4 DEF TypeInv, RowsOK, InvoiceRow
  <2>3. /\ draft.status = "draft" /\ draft.kind = "approval"
        /\ draft.src = i /\ draft.per = p
        BY DEF NoEntry
  <2> HIDE DEF draft
  <2>4. /\ entry'[e] = draft
        /\ \A d \in Entries \ {e} : entry'[d] = entry[d]
        BY <1>4, <2>1 DEF TypeInv, RowsOK
  <2>5. UnusedEntries'  BY <2>3, <2>4 DEF ApprovalInv, UnusedEntries
  <2>6. ApprovalsOf(i) = {}  BY <1>1 DEF ApprovalInv, OneDraftPerApproval
  <2>7. {d \in Entries : entry'[d].kind = "approval" /\ entry'[d].src = i} = {e}
        BY <2>1, <2>3, <2>4, <2>6 DEF ApprovalsOf
  <2>8. ASSUME NEW j \in Invoices \ {i}
        PROVE  {d \in Entries : entry'[d].kind = "approval" /\ entry'[d].src = j}
                  = ApprovalsOf(j)
        BY <2>1, <2>3, <2>4 DEF ApprovalsOf
  <2>9. OneDraftPerApproval'
    <3> DEFINE drafts(j) ==
                  {d \in Entries : entry'[d].kind = "approval" /\ entry'[d].src = j}
    <3>1. ASSUME NEW j \in Invoices
          PROVE  /\ invoice'[j].status \in {"approved", "posted"} <=> drafts(j) # {}
                 /\ \A c, d \in drafts(j) : c = d
                 /\ \A d \in drafts(j) : entry'[d].per = invoice'[j].per
      <4>1. CASE j = i
            BY <2>2, <2>3, <2>4, <2>7, <4>1
      <4>2. CASE j # i
        <5>1. drafts(j) = ApprovalsOf(j)  BY <2>8, <4>2
        <5>2. invoice'[j] = invoice[j]  BY <2>2, <4>2
        <5>3. \A d \in ApprovalsOf(j) : d \in Entries \ {e}
              BY <2>1 DEF ApprovalsOf
        <5> HIDE DEF drafts
        <5> QED  BY <2>4, <5>1, <5>2, <5>3 DEF ApprovalInv, OneDraftPerApproval
      <4> QED  BY <4>1, <4>2
    <3> QED  BY <3>1 DEF OneDraftPerApproval, ApprovalsOf
  <2>10. ApprovingOK'
    <3>1. ASSUME NEW q \in Requests, req'[q].at \in ApproveSteps
          PROVE  /\ q # r /\ req'[q] = req[q] /\ req[q].inv \in Invoices
                 /\ invoice'[req[q].inv].status # "absent"
                 /\ invoice'[req[q].inv].per = req[q].per
                 /\ req[q].at = "approve_commit" => req[q].inv # i
      <4>1. q # r /\ req'[q] = req[q]  BY <1>2, <3>1 DEF ApproveSteps
      <4>2. /\ req[q].inv \in Invoices /\ invoice[req[q].inv].status # "absent"
            /\ invoice[req[q].inv].per = req[q].per
            BY <3>1, <4>1 DEF ApprovalInv, ApprovingOK
      <4> QED  BY <1>1, <2>2, <4>1, <4>2
    <3>2. ASSUME NEW q \in Requests, req'[q].at = "approve_commit"
          PROVE  /\ invoice'[req'[q].inv].status = "pending_review"
                 /\ \A o \in Requests :
                       req'[o].at = "approve_commit" /\ req'[o].inv = req'[q].inv => o = q
          BY <2>2, <3>1, <3>2 DEF ApprovalInv, ApprovingOK, ApproveSteps
    <3> QED  BY <3>1, <3>2 DEF ApprovingOK
  <2> QED  BY <2>5, <2>9, <2>10 DEF ApprovalInv
<1> QED  BY <1>3, <1>4 DEF ApproveCommit

LEMMA InvoiceKeeps ==
    ASSUME TypeInv, ApprovalInv, NEW r \in Requests, InvoiceNext(r)
    PROVE  ApprovalInv'
<1> DEFINE Undisturbed ==
              \A q \in Requests : req'[q] = req[q] \/ req'[q].at \notin ApproveSteps
<1>1. req[r] \in RequestState  BY LocalOfRequest
<1>2. ASSUME Return(r) PROVE Undisturbed
      BY <1>2, ReturnNotApproving
<1>3. ASSUME UNCHANGED <<invoice, entry>>, Undisturbed
      PROVE  ApprovalInv'
      BY <1>3, SameRowsElsewhere, ElsewhereKeeps DEF ApprovalInv
<1>4. ASSUME entry' = entry, InvoicesElsewhere, Undisturbed
      PROVE  ApprovalInv'
      BY <1>4, ColumnElsewhere, ElsewhereKeeps DEF ApprovalInv
<1>5. /\ req[r].at \in ApproveSteps =>
            /\ req[r].inv \in Invoices /\ invoice[req[r].inv].status # "absent"
            /\ invoice[req[r].inv].per = req[r].per
      BY DEF ApprovalInv, ApprovingOK
<1>6. CASE InvoiceCheck(r) \/ ImportFind(r)
  <2>1. PICK i \in Invoices, p \in Periods, sound \in BOOLEAN,
             step \in {"invoice_find", "import_insert"} :
           Start(r, [Idle EXCEPT !.at = step, !.inv = i, !.per = p, !.sound = sound])
        BY <1>6 DEF InvoiceCheck, ImportFind
  <2>2. [Idle EXCEPT !.at = step, !.inv = i, !.per = p, !.sound = sound].at = step
        BY DEF Idle
  <2>3. Undisturbed  BY <2>1, <2>2, NotApproving DEF ApproveSteps
  <2> QED  BY <1>3, <1>6, <2>3 DEF InvoiceCheck, ImportFind
<1>7. CASE InvoiceFind(r)
  <2>1. [req[r] EXCEPT !.at = "invoice_insert"].at = "invoice_insert"
        BY <1>1 DEF RequestState
  <2>2. Undisturbed
        BY <1>2, <1>7, <2>1, NotApproving DEF InvoiceFind, ApproveSteps
  <2> QED  BY <1>3, <1>7, <2>2 DEF InvoiceFind
<1>8. CASE InvoiceInsert(r)
  <2>1. Undisturbed  BY <1>2, <1>8 DEF InvoiceInsert
  <2>2. InvoicesElsewhere
        BY <1>8 DEF InvoiceInsert, InvoicesElsewhere, TypeInv, RowsOK
  <2> QED  BY <1>4, <1>8, <2>1, <2>2 DEF InvoiceInsert
<1>9. CASE ApproveGet(r)
  <2>1. PICK i \in Invoices :
           /\ invoice[i].status # "absent"
           /\ Start(r, [Idle EXCEPT !.at = "approve_check", !.inv = i,
                           !.per = invoice[i].per, !.sound = invoice[i].sound])
        BY <1>9 DEF ApproveGet
  <2> DEFINE local == [Idle EXCEPT !.at = "approve_check", !.inv = i,
                          !.per = invoice[i].per, !.sound = invoice[i].sound]
  <2>2. local.at = "approve_check" /\ local.inv = i /\ local.per = invoice[i].per
        BY DEF Idle
  <2>3. Outcome(r, local)  BY <2>1, StartOutcome
  <2>4. UNCHANGED <<invoice, entry>>  BY <1>9 DEF ApproveGet
  <2> HIDE DEF local
  <2> QED  BY <2>1, <2>2, <2>3, <2>4, ApprovingGoesOn
<1>10. CASE ApproveCheck(r)
  <2> DEFINE local == [req[r] EXCEPT !.at = "approve_begin"]
  <2>1. CASE Return(r)
        BY <1>2, <1>3, <1>10, <2>1 DEF ApproveCheck
  <2>2. CASE Continue(r, local)
    <3>1. /\ local.at = "approve_begin" /\ local.inv = req[r].inv
          /\ local.per = req[r].per
          BY <1>1 DEF RequestState
    <3>2. Outcome(r, local)  BY <2>2, ContinueOutcome
    <3>3. UNCHANGED <<invoice, entry>>  BY <1>10 DEF ApproveCheck
    <3>4. req[r].at \in ApproveSteps  BY <1>10 DEF ApproveCheck, At, ApproveSteps
    <3> HIDE DEF local
    <3> QED  BY <1>5, <3>1, <3>2, <3>3, <3>4, ApprovingGoesOn
  <2> QED  BY <1>10, <2>1, <2>2 DEF ApproveCheck
<1>11. CASE ApproveBegin(r)
  <2>1. CASE Return(r)
        BY <1>2, <1>3, <1>11, <2>1 DEF ApproveBegin
  <2>2. ASSUME NEW n, Approvable(req[r].inv),
               Continue(r, [req[r] EXCEPT !.at = "approve_commit", !.no = n])
        PROVE  ApprovalInv'
    <3> DEFINE local == [req[r] EXCEPT !.at = "approve_commit", !.no = n]
    <3>1. /\ local.at = "approve_commit" /\ local.inv = req[r].inv
          /\ local.per = req[r].per
          BY <1>1 DEF RequestState
    <3>2. Outcome(r, local)  BY <2>2, ContinueOutcome
    <3>3. UNCHANGED <<invoice, entry>> /\ ~RowLocked(req[r].inv)
          BY <1>11 DEF ApproveBegin
    <3>4. req[r].at \in ApproveSteps  BY <1>11 DEF ApproveBegin, At, ApproveSteps
    <3>5. invoice[req[r].inv].status = "pending_review"  BY <2>2 DEF Approvable
    <3> HIDE DEF local
    <3> QED  BY <1>5, <3>1, <3>2, <3>3, <3>4, <3>5, ApprovingGoesOn
  <2> QED  BY <1>11, <2>1, <2>2 DEF ApproveBegin
<1>12. CASE ApproveCommit(r)
  BY <1>12, ApproveCommitKeeps
<1>13. CASE RejectInvoice(r)
  <2>1. Idle.at \notin ApproveSteps  BY DEF Idle, ApproveSteps
  <2>2. Undisturbed  BY <1>13, <2>1, NotApproving DEF RejectInvoice
  <2>3. InvoicesElsewhere
        BY <1>13 DEF RejectInvoice, InvoicesElsewhere, TypeInv, RowsOK, InvoiceRow
  <2> QED  BY <1>4, <1>13, <2>2, <2>3 DEF RejectInvoice
<1> QED
    BY <1>6, <1>7, <1>8, <1>9, <1>10, <1>11, <1>12, <1>13 DEF InvoiceNext

LEMMA ApprovalStep ==
    ASSUME TypeInv, ApprovalInv, [Next]_vars
    PROVE  ApprovalInv'
<1>1. ASSUME NEW r \in Requests, DocumentStep(r) \/ PeriodNext(r)
      PROVE  ApprovalInv'
      BY <1>1, InvoiceKeeps, JournalKeeps, PeriodKeeps, AbortKeeps DEF DocumentStep
<1>2. CASE UNCHANGED vars
  <2>1. UNCHANGED <<invoice, entry, req>>  BY <1>2 DEF vars
  <2> QED  BY <2>1, SameRowsElsewhere, ElsewhereKeeps DEF ApprovalInv
<1> QED  BY <1>1, <1>2, NextCases

\* ApproveInvoice: however many requests approve, reject, post and abort, an
\* invoice that is approved or posted has exactly one draft built from it, in
\* its own period, and no other invoice has one.
THEOREM OneDraftAlways == Spec => []OneDraftPerApproval
<1>1. Init => ApprovalInv  BY ApprovalInit
<1>2. TypeInv /\ ApprovalInv /\ [Next]_vars => ApprovalInv'  BY ApprovalStep
<1>3. ApprovalInv => OneDraftPerApproval  BY DEF ApprovalInv
<1> QED  BY <1>1, <1>2, <1>3, TypeInvariant, PTL DEF Spec

-----------------------------------------------------------------------------
(* Posted invoices are backed by an entry                                  *)

PostSteps == {"post_check", "post_commit"}

\* The snapshot a request posts by: the entry is still stored and still has the
\* source it was read with.
ReadOK(local) ==
    local.at \in PostSteps =>
        /\ local.ent \in Entries /\ Stored(local.ent)
        /\ entry[local.ent].src = local.src

\* PostedInvoiceBacked, by an entry that is still stored.
BackedByStored ==
    \A i \in Invoices : invoice[i].status = "posted" =>
        \E e \in Entries : entry[e].src = i /\ entry[e].stamped = TRUE /\ Stored(e)

PostingInv == (\A r \in Requests : ReadOK(req[r])) /\ BackedByStored

\* Entries are never deleted; an entry keeps its source and its posting date.
EntriesPersist ==
    \A e \in Entries : Stored(e) =>
        /\ entry'[e].status # "absent" /\ entry'[e].src = entry[e].src
        /\ entry[e].stamped = TRUE => entry'[e].stamped = TRUE

\* An invoice that is posted was posted before.
NoneNewlyPosted ==
    \A i \in Invoices : invoice'[i].status = "posted" => invoice[i].status = "posted"

LEMMA PostingInit == Init => PostingInv
  BY DEF Init, LedgerInit, PostingInv, ReadOK, PostSteps, BackedByStored,
         NoInvoice, Idle

-----------------------------------------------------------------------------
(* What becomes of the rows *)

\* A column of an entry that is neither its source nor its posting date.
LEMMA ColumnPersists ==
    ASSUME TypeInv, NEW e,
           \/ entry' = entry
           \/ entry' = [entry EXCEPT ![e].lines = entry[e].lines + 1]
           \/ entry' = [entry EXCEPT ![e].status = "voided"]
           \/ entry' = [entry EXCEPT ![e].status = "posted", ![e].stamped = TRUE]
    PROVE  EntriesPersist
<1>1. entry \in [Entries -> EntryRow]  BY DEF TypeInv, RowsOK
<1>2. ASSUME NEW d \in Entries, Stored(d)
      PROVE  /\ entry'[d].status # "absent" /\ entry'[d].src = entry[d].src
             /\ entry[d].stamped = TRUE => entry'[d].stamped = TRUE
  <2>1. entry[d] \in EntryRow  BY <1>1
  <2>2. CASE entry' = entry
        BY <1>2, <2>2 DEF Stored
  <2>3. CASE entry' = [entry EXCEPT ![e].lines = entry[e].lines + 1]
        BY <1>1, <1>2, <2>1, <2>3 DEF EntryRow, Stored
  <2>4. CASE entry' = [entry EXCEPT ![e].status = "voided"]
        BY <1>1, <1>2, <2>1, <2>4 DEF EntryRow, Stored
  <2>5. CASE entry' = [entry EXCEPT ![e].status = "posted", ![e].stamped = TRUE]
    <3>1. CASE d = e
          BY <1>1, <1>2, <2>1, <2>5, <3>1 DEF EntryRow, Stored
    <3>2. CASE d # e
          BY <1>1, <1>2, <2>5, <3>2 DEF Stored
    <3> QED  BY <3>1, <3>2
  <2> QED  BY <2>2, <2>3, <2>4, <2>5
<1> QED  BY <1>2 DEF EntriesPersist

LEMMA NewRowPersists ==
    ASSUME TypeInv, NEW v \in FreeEntries, NEW row, entry' = [entry EXCEPT ![v] = row]
    PROVE  EntriesPersist
  BY DEF TypeInv, RowsOK, FreeEntries, Stored, EntriesPersist

\* VoidCommit changes two rows: the one it voids and a free one.
LEMMA ReversalPersists ==
    ASSUME TypeInv, NEW v \in FreeEntries, NEW e, NEW row,
           entry' = [entry EXCEPT ![e].status = "voided", ![v] = row]
    PROVE  EntriesPersist
<1>1. entry \in [Entries -> EntryRow]  BY DEF TypeInv, RowsOK
<1>2. ASSUME NEW d \in Entries, Stored(d)
      PROVE  /\ entry'[d].status # "absent" /\ entry'[d].src = entry[d].src
             /\ entry[d].stamped = TRUE => entry'[d].stamped = TRUE
  <2>1. d # v  BY <1>2 DEF FreeEntries
  <2>2. entry[d] \in EntryRow  BY <1>1
  <2>3. entry'[d] = IF d = e THEN [entry[d] EXCEPT !.status = "voided"] ELSE entry[d]
        BY <1>1, <2>1
  <2> QED  BY <1>2, <2>2, <2>3 DEF EntryRow, Stored
<1> QED  BY <1>2 DEF EntriesPersist

LEMMA EntriesPersistAlways ==
    ASSUME TypeInv, NEW r \in Requests, DocumentStep(r) \/ PeriodNext(r)
    PROVE  EntriesPersist
<1>1. CASE entry' = entry
  BY <1>1, ColumnPersists
<1>2. CASE \/ InvoiceCheck(r) \/ InvoiceFind(r) \/ ImportFind(r) \/ InvoiceInsert(r)
           \/ ApproveGet(r) \/ ApproveCheck(r) \/ ApproveBegin(r) \/ RejectInvoice(r)
           \/ JournalNumber(r) \/ JournalCheck(r) \/ PostGet(r) \/ PostCheck(r)
           \/ VoidGet(r) \/ VoidCheck(r) \/ VoidNumber(r) \/ UpdateGet(r)
           \/ Abort(r) \/ PeriodNext(r)
  <2>1. entry' = entry
        BY <1>2
        DEF InvoiceCheck, InvoiceFind, ImportFind, InvoiceInsert, ApproveGet,
            ApproveCheck, ApproveBegin, RejectInvoice, JournalNumber, JournalCheck,
            PostGet, PostCheck, VoidGet, VoidCheck, VoidNumber, UpdateGet, Abort,
            PeriodNext, CloseBegin, CloseInvoices, CloseDrafts, CloseBalance,
            CloseFinish, ReopenPeriod, LockPeriod
  <2> QED  BY <1>1, <2>1
<1>3. CASE ApproveCommit(r) \/ InsertHeader(r)
  <2>1. ASSUME NEW v \in FreeEntries, NEW row, entry' = [entry EXCEPT ![v] = row]
        PROVE  EntriesPersist
        BY <2>1, NewRowPersists
  <2> QED  BY <1>1, <1>3, <2>1 DEF ApproveCommit, InsertHeader
<1>4. CASE InsertLine(r) \/ PostCommit(r) \/ VoidSimple(r) \/ UpdateVoid(r)
  <2>1. \/ entry' = entry
        \/ entry' = [entry EXCEPT ![req[r].ent].lines = entry[req[r].ent].lines + 1]
        \/ entry' = [entry EXCEPT ![req[r].ent].status = "voided"]
        \/ entry' = [entry EXCEPT ![req[r].ent].status = "posted",
                                  ![req[r].ent].stamped = TRUE]
        BY <1>4 DEF InsertLine, PostCommit, VoidSimple, UpdateVoid
  <2> QED  BY <2>1, ColumnPersists
<1>5. CASE VoidCommit(r)
  <2>1. ASSUME NEW v \in FreeEntries, NEW row,
               entry' = [entry EXCEPT ![req[r].ent].status = "voided", ![v] = row]
        PROVE  EntriesPersist
        BY <2>1, ReversalPersists
  <2> QED  BY <1>1, <1>5, <2>1 DEF VoidCommit
<1> QED
    BY <1>2, <1>3, <1>4, <1>5 DEF DocumentStep, InvoiceNext, JournalNext

LEMMA OnlyPostCommitPosts ==
    ASSUME TypeInv, NEW r \in Requests, DocumentStep(r) \/ PeriodNext(r), ~PostCommit(r)
    PROVE  NoneNewlyPosted
<1>1. invoice \in [Invoices -> InvoiceRow]  BY DEF TypeInv, RowsOK
<1>2. CASE InvoiceInsert(r)
  BY <1>1, <1>2 DEF InvoiceInsert, NoneNewlyPosted
<1>3. CASE ApproveCommit(r)
  BY <1>1, <1>3 DEF ApproveCommit, NoneNewlyPosted, InvoiceRow
<1>4. CASE RejectInvoice(r)
  BY <1>1, <1>4 DEF RejectInvoice, NoneNewlyPosted, InvoiceRow
<1>5. CASE invoice' = invoice
  BY <1>5 DEF NoneNewlyPosted
<1> QED
    BY <1>2, <1>3, <1>4, <1>5
    DEF DocumentStep, InvoiceNext, JournalNext, Abort, InvoiceCheck, InvoiceFind,
        ImportFind, ApproveGet, ApproveCheck, ApproveBegin, JournalNumber,
        JournalCheck, InsertHeader, InsertLine, PostGet, PostCheck, VoidGet, VoidCheck,
        VoidSimple, VoidNumber, VoidCommit, UpdateGet, UpdateVoid, PeriodNext,
        CloseBegin, CloseInvoices, CloseDrafts, CloseBalance, CloseFinish,
        ReopenPeriod, LockPeriod

-----------------------------------------------------------------------------
(* What becomes of the snapshots *)

\* A request is about to post only by a snapshot of a stored entry.
LEMMA ReadsArePosts ==
    ASSUME TypeInv, PostingInv, NEW r \in Requests, DocumentStep(r)
    PROVE  ReadOK(req'[r])
<1> DEFINE Goal == ReadOK(req'[r])
           to(step) == [req[r] EXCEPT !.at = step]
<1>1. req[r] \in RequestState /\ ReadOK(req[r])
      BY LocalOfRequest DEF PostingInv
<1>2. ASSUME NEW local, local.at \notin PostSteps,
             Start(r, local) \/ Continue(r, local)
      PROVE  Goal
      BY <1>2, StartOutcome, ContinueOutcome DEF Outcome, ReadOK
<1>3. ASSUME Return(r) PROVE Goal
      BY <1>2, <1>3 DEF Return, Idle, PostSteps
<1>4. ASSUME NEW step, step \notin PostSteps, Continue(r, to(step))
      PROVE  Goal
      BY <1>1, <1>2, <1>4 DEF RequestState
<1>5. CASE InvoiceCheck(r) \/ ImportFind(r)
  <2>1. PICK i \in Invoices, p \in Periods, sound \in BOOLEAN,
             step \in {"invoice_find", "import_insert"} :
           Start(r, [Idle EXCEPT !.at = step, !.inv = i, !.per = p, !.sound = sound])
        BY <1>5 DEF InvoiceCheck, ImportFind
  <2>2. [Idle EXCEPT !.at = step, !.inv = i, !.per = p, !.sound = sound].at = step
        BY DEF Idle
  <2> QED  BY <1>2, <2>1, <2>2 DEF PostSteps
<1>6. CASE ApproveGet(r)
  <2>1. PICK i \in Invoices :
           Start(r, [Idle EXCEPT !.at = "approve_check", !.inv = i,
                        !.per = invoice[i].per, !.sound = invoice[i].sound])
        BY <1>6 DEF ApproveGet
  <2>2. [Idle EXCEPT !.at = "approve_check", !.inv = i, !.per = invoice[i].per,
                     !.sound = invoice[i].sound].at = "approve_check"
        BY DEF Idle
  <2> QED  BY <1>2, <2>1, <2>2 DEF PostSteps
<1>7. CASE JournalNumber(r)
  <2>1. PICK p \in Periods, s \in ManualSources, size \in Sizes :
           \E n \in {NextVoucherNo(p)} \cup ExplicitNos :
              Start(r, [Idle EXCEPT !.at = "journal_check", !.per = p, !.src = s,
                                    !.size = size, !.no = n])
        BY <1>7 DEF JournalNumber
  <2>2. PICK n :
           Start(r, [Idle EXCEPT !.at = "journal_check", !.per = p, !.src = s,
                                 !.size = size, !.no = n])
        BY <2>1
  <2>3. [Idle EXCEPT !.at = "journal_check", !.per = p, !.src = s, !.size = size,
                     !.no = n].at = "journal_check"
        BY DEF Idle
  <2> QED  BY <1>2, <2>2, <2>3 DEF PostSteps
<1>8. CASE PostGet(r)
  <2>1. PICK e \in Entries : Stored(e) /\ Start(r, Snapshot(e, "post_check"))
        BY <1>8 DEF PostGet
  <2>2. /\ Snapshot(e, "post_check").ent = e
        /\ Snapshot(e, "post_check").src = entry[e].src
        BY DEF Snapshot, Idle
  <2>3. Outcome(r, Snapshot(e, "post_check"))  BY <2>1, StartOutcome
  <2> QED  BY <2>1, <2>2, <2>3 DEF Outcome, ReadOK
<1>9. CASE VoidGet(r)
  <2>1. PICK e \in Entries : Start(r, Snapshot(e, "void_check"))
        BY <1>9 DEF VoidGet
  <2>2. Snapshot(e, "void_check").at = "void_check"  BY DEF Snapshot, Idle
  <2> QED  BY <1>2, <2>1, <2>2 DEF PostSteps
<1>10. CASE UpdateGet(r)
  <2>1. PICK e \in Entries, s \in ManualSources, size \in Sizes :
           Start(r, [Snapshot(e, "update_void") EXCEPT !.size = size, !.src = s])
        BY <1>10 DEF UpdateGet
  <2>2. [Snapshot(e, "update_void") EXCEPT !.size = size, !.src = s].at
           = "update_void"
        BY DEF Snapshot, Idle
  <2> QED  BY <1>2, <2>1, <2>2 DEF PostSteps
<1>11. CASE PostCheck(r)
  <2>1. CASE Return(r)  BY <1>3, <2>1
  <2>2. CASE Continue(r, to("post_commit"))
    <3>1. /\ to("post_commit").ent = req[r].ent /\ to("post_commit").src = req[r].src
          BY <1>1 DEF RequestState
    <3>2. req[r].at \in PostSteps  BY <1>11 DEF PostCheck, At, PostSteps
    <3>3. Outcome(r, to("post_commit"))  BY <2>2, ContinueOutcome
    <3> QED  BY <1>1, <3>1, <3>2, <3>3 DEF Outcome, ReadOK
  <2> QED  BY <1>11, <2>1, <2>2 DEF PostCheck
<1>12. CASE InvoiceFind(r) \/ ApproveCheck(r) \/ JournalCheck(r) \/ VoidCheck(r)
            \/ UpdateVoid(r)
  <2>1. \/ Return(r)
        \/ \E step \in {"invoice_insert", "approve_begin", "insert_header",
                        "void_number", "void_simple", "update_insert"} :
              Continue(r, to(step))
        BY <1>12 DEF InvoiceFind, ApproveCheck, JournalCheck, VoidCheck, UpdateVoid
  <2> QED  BY <1>3, <1>4, <2>1 DEF PostSteps
<1>13. CASE ApproveBegin(r) \/ VoidNumber(r)
  <2>1. CASE Return(r)  BY <1>3, <2>1
  <2>2. ASSUME NEW step \in {"approve_commit", "void_commit"}, NEW n,
               Continue(r, [req[r] EXCEPT !.at = step, !.no = n])
        PROVE  Goal
    <3>1. [req[r] EXCEPT !.at = step, !.no = n].at = step
          BY <1>1 DEF RequestState
    <3> QED  BY <1>2, <2>2, <3>1 DEF PostSteps
  <2> QED  BY <1>13, <2>1, <2>2 DEF ApproveBegin, VoidNumber
<1>14. CASE InsertHeader(r)
  <2>1. CASE Return(r)  BY <1>3, <2>1
  <2>2. ASSUME NEW e, Continue(r, [Idle EXCEPT !.at = "insert_lines", !.ent = e])
        PROVE  Goal
        BY <1>2, <2>2 DEF Idle, PostSteps
  <2> QED  BY <1>14, <2>1, <2>2 DEF InsertHeader
<1>15. CASE InsertLine(r)
  <2>1. CASE Return(r)  BY <1>3, <2>1
  <2>2. CASE req' = req  BY <1>1, <2>2
  <2> QED  BY <1>15, <2>1, <2>2 DEF InsertLine
<1>16. CASE RejectInvoice(r)
  BY <1>2, <1>16 DEF RejectInvoice, Idle, PostSteps
<1>17. CASE \/ InvoiceInsert(r) \/ ApproveCommit(r) \/ PostCommit(r)
            \/ VoidSimple(r) \/ VoidCommit(r) \/ Abort(r)
  BY <1>3, <1>17
  DEF InvoiceInsert, ApproveCommit, PostCommit, VoidSimple, VoidCommit, Abort
<1> QED
    BY <1>5, <1>6, <1>7, <1>8, <1>9, <1>10, <1>11, <1>12, <1>13, <1>14, <1>15,
       <1>16, <1>17
    DEF DocumentStep, InvoiceNext, JournalNext

LEMMA ReadsKeep ==
    ASSUME TypeInv, PostingInv, NEW r \in Requests, DocumentStep(r) \/ PeriodNext(r)
    PROVE  \A q \in Requests : ReadOK(req[q])'
<1>1. \A q \in Requests \ {r} : req'[q] = req[q]
      BY DocumentStepOutcome, PeriodSteps
<1>2. ReadOK(req'[r])
  <2>1. CASE DocumentStep(r)  BY <2>1, ReadsArePosts
  <2>2. CASE PeriodNext(r)
        BY <2>2, PeriodSteps DEF Closing, PostSteps, ReadOK
  <2> QED  BY <2>1, <2>2
<1>3. \A q \in Requests : ReadOK(req'[q])
      BY <1>1, <1>2 DEF PostingInv
<1>4. EntriesPersist  BY EntriesPersistAlways
<1> QED  BY <1>3, <1>4 DEF ReadOK, EntriesPersist, Stored

-----------------------------------------------------------------------------
(* What becomes of the postings *)

\* The step that posts: the entry it posts still names the invoice it was read
\* with.
LEMMA PostCommitBacks ==
    ASSUME TypeInv, PostingInv, NEW r \in Requests, PostCommit(r),
           NEW i \in Invoices, invoice'[i].status = "posted",
           invoice[i].status # "posted"
    PROVE  \E e \in Entries : /\ entry'[e].src = i /\ entry'[e].stamped = TRUE
                              /\ entry'[e].status # "absent"
<1> DEFINE e == req[r].ent
<1>1. e \in Entries /\ entry[e].src = req[r].src
      BY DEF PostCommit, At, PostingInv, ReadOK, PostSteps
<1>2. /\ entry' = [entry EXCEPT ![e].status = "posted", ![e].stamped = TRUE]
      /\ invoice' = invoice \/ invoice' = [invoice EXCEPT ![req[r].src].status = "posted"]
      BY DEF PostCommit
<1>3. req[r].src = i
      BY <1>2 DEF TypeInv, RowsOK
<1>4. entry[e] \in EntryRow /\ entry \in [Entries -> EntryRow]
      BY <1>1 DEF TypeInv, RowsOK
<1>5. /\ entry'[e].src = entry[e].src /\ entry'[e].stamped = TRUE
      /\ entry'[e].status = "posted"
      BY <1>1, <1>2, <1>4 DEF EntryRow
<1> QED  BY <1>1, <1>3, <1>5

LEMMA PostingStep == TypeInv /\ PostingInv /\ [Next]_vars => PostingInv'
<1> SUFFICES ASSUME TypeInv, PostingInv, [Next]_vars PROVE PostingInv'  OBVIOUS
<1>1. CASE UNCHANGED vars
  BY <1>1 DEF vars, PostingInv, ReadOK, Stored, BackedByStored
<1>2. CASE Next
  <2>1. PICK r \in Requests : DocumentStep(r) \/ PeriodNext(r)  BY <1>2, NextCases
  <2>2. \A q \in Requests : ReadOK(req[q])'  BY <2>1, ReadsKeep
  <2>3. ASSUME NEW i \in Invoices, invoice'[i].status = "posted"
        PROVE  \E e \in Entries : /\ entry'[e].src = i /\ entry'[e].stamped = TRUE
                              /\ entry'[e].status # "absent"
    <3>1. CASE invoice[i].status = "posted"
      <4>1. PICK e \in Entries : /\ entry[e].src = i /\ entry[e].stamped = TRUE
                                  /\ Stored(e)
            BY <3>1 DEF PostingInv, BackedByStored
      <4>2. /\ entry'[e].src = i /\ entry'[e].stamped = TRUE
            /\ entry'[e].status # "absent"
            BY <2>1, <4>1, EntriesPersistAlways DEF EntriesPersist
      <4> QED  BY <4>2
    <3>2. CASE invoice[i].status # "posted"
      <4>1. PostCommit(r)
            BY <2>1, <2>3, <3>2, OnlyPostCommitPosts DEF NoneNewlyPosted
      <4> QED  BY <2>3, <3>2, <4>1, PostCommitBacks
    <3> QED  BY <3>1, <3>2
  <2> QED  BY <2>2, <2>3 DEF PostingInv, BackedByStored, Stored
<1> QED  BY <1>1, <1>2

\* MarkPostedTx: an invoice is shown as posted only if an entry that names it was
\* posted, whatever becomes of the entry between the read and the commit.
THEOREM PostedBackedAlways == Spec => []PostedInvoiceBacked
<1>1. PostingInv => PostedInvoiceBacked
      BY DEF PostingInv, BackedByStored, PostedInvoiceBacked
<1> QED  BY <1>1, PostingInit, PostingStep, TypeInvariant, PTL DEF Spec
==============================================================================
