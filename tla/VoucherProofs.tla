---------------------------- MODULE VoucherProofs ----------------------------
(***************************************************************************)
(* The vouchers of FinanceLedger for all values of the constants: posted   *)
(* entries are complete, reversals match what they reverse, and the        *)
(* numbers of a period leave no gap; what a close may overlook; and that   *)
(* FinanceLedger implements BookContract: every committed statement of     *)
(* every request is one step of the contract of a book, or none.           *)
(***************************************************************************)
EXTENDS FinanceLedgerProofs

-----------------------------------------------------------------------------
(* What a step does to the journal *)

Header(r) ==
    [NoEntry EXCEPT !.status = "draft", !.per = req[r].per, !.src = req[r].src,
                    !.no = req[r].no, !.size = req[r].size, !.kind = "manual"]
ApprovalDraft(r) ==
    [NoEntry EXCEPT !.status = "draft", !.per = req[r].per, !.src = req[r].inv,
                    !.no = req[r].no, !.lines = InvoiceSize, !.size = InvoiceSize,
                    !.kind = "approval"]
Reversal(r) ==
    [status |-> "posted", per |-> req[r].per, src |-> req[r].src, no |-> req[r].no,
     stamped |-> TRUE, lines |-> req[r].lines, size |-> req[r].lines,
     kind |-> "reversal", of |-> req[r].ent]

Others(d)     == \A e \in Entries \ {d} : entry'[e] = entry[e]
NewRow(v, row) == v \in FreeEntries /\ entry'[v] = row /\ Others(v)

\* The row of the entry a request works on, if it is there.
LineStored(r) ==
    /\ Others(req[r].ent)
    /\ req[r].ent \in Entries =>
          entry'[req[r].ent] = [entry[req[r].ent] EXCEPT !.lines = @ + 1]
Posting(r) ==
    /\ entry[req[r].ent].status = "draft" /\ Others(req[r].ent)
    /\ req[r].ent \in Entries =>
          entry'[req[r].ent] = [entry[req[r].ent] EXCEPT !.status = "posted",
                                                         !.stamped = TRUE]
Voiding(r) ==
    /\ Voidable(req[r].ent) /\ Others(req[r].ent)
    /\ req[r].ent \in Entries =>
          entry'[req[r].ent] = [entry[req[r].ent] EXCEPT !.status = "voided"]
Reversing(r, v) ==
    /\ Voidable(req[r].ent) /\ v \in FreeEntries /\ entry'[v] = Reversal(r)
    /\ \A e \in Entries \ {v, req[r].ent} : entry'[e] = entry[e]
    /\ req[r].ent \in Entries =>
          entry'[req[r].ent] = [entry[req[r].ent] EXCEPT !.status = "voided"]

LEMMA DraftFields ==
    ASSUME NEW r
    PROVE  /\ Header(r).status = "draft" /\ Header(r).per = req[r].per
           /\ Header(r).no = req[r].no /\ Header(r).size = req[r].size
           /\ Header(r).lines = 0 /\ Header(r).stamped = FALSE
           /\ Header(r).kind = "manual" /\ Header(r).of = NONE
           /\ ApprovalDraft(r).status = "draft" /\ ApprovalDraft(r).per = req[r].per
           /\ ApprovalDraft(r).no = req[r].no /\ ApprovalDraft(r).stamped = FALSE
           /\ ApprovalDraft(r).lines = InvoiceSize
           /\ ApprovalDraft(r).size = InvoiceSize
           /\ ApprovalDraft(r).kind = "approval" /\ ApprovalDraft(r).of = NONE
  BY DEF Header, ApprovalDraft, NoEntry

LEMMA RowEffects ==
    ASSUME TypeInv, NEW r \in Requests, DocumentStep(r) \/ PeriodNext(r)
    PROVE  \/ entry' = entry
           \/ InsertHeader(r) /\ \E v \in Entries : NewRow(v, Header(r))
           \/ ApproveCommit(r) /\ \E v \in Entries : NewRow(v, ApprovalDraft(r))
           \/ InsertLine(r) /\ LineStored(r)
           \/ PostCommit(r) /\ Posting(r)
           \/ (VoidSimple(r) \/ UpdateVoid(r)) /\ Voiding(r)
           \/ VoidCommit(r) /\ \E v \in Entries : Reversing(r, v)
<1> DEFINE e == req[r].ent
<1>0. entry \in [Entries -> EntryRow]  BY DEF TypeInv, RowsOK
<1>1. ASSUME NEW v \in FreeEntries, NEW row, entry' = [entry EXCEPT ![v] = row]
      PROVE  NewRow(v, row) /\ v \in Entries
      BY <1>0, <1>1 DEF NewRow, Others, FreeEntries
<1>2. CASE InsertHeader(r)
  BY <1>1, <1>2 DEF InsertHeader, Header
<1>3. CASE ApproveCommit(r)
  BY <1>1, <1>3 DEF ApproveCommit, ApprovalDraft
<1>4. CASE InsertLine(r)
  BY <1>0, <1>4 DEF InsertLine, LineStored, Others
<1>5. CASE PostCommit(r)
  BY <1>0, <1>5 DEF PostCommit, Posting, Others
<1>6. CASE VoidSimple(r) \/ UpdateVoid(r)
  BY <1>0, <1>6 DEF VoidSimple, UpdateVoid, Voiding, Others
<1>7. CASE VoidCommit(r)
  <2>1. ASSUME NEW v \in FreeEntries, Voidable(e),
               entry' = [entry EXCEPT ![e].status = "voided", ![v] = Reversal(r)]
        PROVE  Reversing(r, v) /\ v \in Entries
    <3>1. v \in Entries /\ v # e
          BY <2>1 DEF FreeEntries, Stored, Voidable
    <3> QED  BY <1>0, <2>1, <3>1 DEF Reversing
  <2> QED  BY <1>7, <2>1 DEF VoidCommit, Reversal
<1>8. CASE \/ InvoiceCheck(r) \/ InvoiceFind(r) \/ ImportFind(r) \/ InvoiceInsert(r)
           \/ ApproveGet(r) \/ ApproveCheck(r) \/ ApproveBegin(r) \/ RejectInvoice(r)
           \/ JournalNumber(r) \/ JournalCheck(r) \/ PostGet(r) \/ PostCheck(r)
           \/ VoidGet(r) \/ VoidCheck(r) \/ VoidNumber(r) \/ UpdateGet(r)
           \/ Abort(r) \/ PeriodNext(r)
  BY <1>8
  DEF InvoiceCheck, InvoiceFind, ImportFind, InvoiceInsert, ApproveGet, ApproveCheck,
      ApproveBegin, RejectInvoice, JournalNumber, JournalCheck, PostGet, PostCheck,
      VoidGet, VoidCheck, VoidNumber, UpdateGet, Abort, PeriodNext, CloseBegin,
      CloseInvoices, CloseDrafts, CloseBalance, CloseFinish, ReopenPeriod, LockPeriod
<1> QED
    BY <1>2, <1>3, <1>4, <1>5, <1>6, <1>7, <1>8
    DEF DocumentStep, InvoiceNext, JournalNext

-----------------------------------------------------------------------------
(* What a step does to the locals of its request, as far as they matter to *)
(* the vouchers.                                                           *)

Tracked ==
    {"journal_check", "insert_header", "insert_lines", "approve_commit",
     "post_check", "post_commit", "void_check", "void_number", "void_commit",
     "update_void", "update_insert"}

\* It has read entry e.
HasRead(r, e) ==
    /\ req'[r].ent = e /\ req'[r].per = entry[e].per /\ req'[r].no = entry[e].no
    /\ req'[r].src = entry[e].src /\ req'[r].size = entry[e].size
    /\ req'[r].seen = entry[e].status /\ req'[r].lines = entry[e].lines

\* The steps that hand the locals on.
Remembers(r) ==
    /\ req'[r].ent = req[r].ent /\ req'[r].per = req[r].per
    /\ req'[r].src = req[r].src /\ req'[r].size = req[r].size
    /\ req'[r].seen = req[r].seen /\ req'[r].lines = req[r].lines

LocalEffect(r) ==
    \/ req'[r].at \notin Tracked
    \/ InsertLine(r) /\ req'[r] = req[r]
    \/ /\ entry' = entry /\ req'[r].at = "journal_check" /\ req'[r].size \in Sizes
       /\ req'[r].no \in {NextVoucherNo(req'[r].per)} \cup ExplicitNos
    \/ /\ entry' = entry /\ Remembers(r) /\ req'[r].no = req[r].no
       /\ req[r].at = "journal_check" /\ req'[r].at = "insert_header"
    \/ /\ entry' = entry /\ req'[r].at = "approve_commit"
       /\ req'[r].no \in VoucherNoRead(req'[r].per)
    \/ InsertHeader(r) /\ req'[r].at = "insert_lines" /\ NewRow(req'[r].ent, Header(r))
    \/ /\ entry' = entry /\ req'[r].at \in {"post_check", "void_check"}
       /\ \E e \in Entries : Stored(e) /\ HasRead(r, e)
    \/ /\ entry' = entry /\ req'[r].at = "update_void" /\ req'[r].size \in Sizes
       /\ \E e \in Entries : /\ Stored(e) /\ req'[r].per = entry[e].per
                             /\ req'[r].no = entry[e].no
    \/ /\ entry' = entry /\ Remembers(r) /\ Balanced(req[r].lines, req[r].size)
       /\ req[r].at = "post_check" /\ req'[r].at = "post_commit"
    \/ /\ entry' = entry /\ Remembers(r) /\ req[r].seen = "posted"
       /\ req[r].at = "void_check" /\ req'[r].at = "void_number"
    \/ /\ entry' = entry /\ Remembers(r) /\ req'[r].no \in VoucherNoRead(req'[r].per)
       /\ req[r].at = "void_number" /\ req'[r].at = "void_commit"
    \/ /\ Voiding(r) /\ Remembers(r) /\ req'[r].no = req[r].no
       /\ req[r].at = "update_void" /\ req'[r].at = "update_insert"

LEMMA LocalEffects ==
    ASSUME TypeInv, NEW r \in Requests, DocumentStep(r) \/ PeriodNext(r)
    PROVE  LocalEffect(r)
<1> DEFINE to(step) == [req[r] EXCEPT !.at = step]
<1>1. req[r] \in RequestState  BY LocalOfRequest
<1>2. ASSUME NEW local, local.at \notin Tracked, Start(r, local) \/ Continue(r, local)
      PROVE  LocalEffect(r)
      BY <1>2, StartOutcome, ContinueOutcome DEF Outcome, LocalEffect
<1>3. ASSUME Return(r) PROVE LocalEffect(r)
      BY <1>2, <1>3 DEF Return, Idle, Tracked
<1>4. ASSUME NEW step, Continue(r, to(step))
      PROVE  /\ Remembers(r) /\ req'[r].at = step /\ req'[r].no = req[r].no
  <2>1. Outcome(r, to(step))  BY <1>4, ContinueOutcome
  <2> QED  BY <1>1, <2>1 DEF Outcome, Remembers, RequestState
<1>5. ASSUME NEW step, NEW n, Continue(r, [req[r] EXCEPT !.at = step, !.no = n])
      PROVE  Remembers(r) /\ req'[r].at = step /\ req'[r].no = n
  <2>1. Outcome(r, [req[r] EXCEPT !.at = step, !.no = n])  BY <1>5, ContinueOutcome
  <2> QED  BY <1>1, <2>1 DEF Outcome, Remembers, RequestState
<1>6. CASE InvoiceCheck(r) \/ ImportFind(r)
  <2>1. PICK i \in Invoices, p \in Periods, sound \in BOOLEAN,
             step \in {"invoice_find", "import_insert"} :
           Start(r, [Idle EXCEPT !.at = step, !.inv = i, !.per = p, !.sound = sound])
        BY <1>6 DEF InvoiceCheck, ImportFind
  <2>2. [Idle EXCEPT !.at = step, !.inv = i, !.per = p, !.sound = sound].at = step
        BY DEF Idle
  <2> QED  BY <1>2, <2>1, <2>2 DEF Tracked
<1>7. CASE ApproveGet(r)
  <2>1. PICK i \in Invoices :
           Start(r, [Idle EXCEPT !.at = "approve_check", !.inv = i,
                        !.per = invoice[i].per, !.sound = invoice[i].sound])
        BY <1>7 DEF ApproveGet
  <2>2. [Idle EXCEPT !.at = "approve_check", !.inv = i, !.per = invoice[i].per,
                     !.sound = invoice[i].sound].at = "approve_check"
        BY DEF Idle
  <2> QED  BY <1>2, <2>1, <2>2 DEF Tracked
<1>8. CASE JournalNumber(r)
  <2>1. PICK p \in Periods, s \in ManualSources, size \in Sizes :
           \E n \in {NextVoucherNo(p)} \cup ExplicitNos :
              Start(r, [Idle EXCEPT !.at = "journal_check", !.per = p, !.src = s,
                                    !.size = size, !.no = n])
        BY <1>8 DEF JournalNumber
  <2>2. PICK n \in {NextVoucherNo(p)} \cup ExplicitNos :
           Start(r, [Idle EXCEPT !.at = "journal_check", !.per = p, !.src = s,
                                 !.size = size, !.no = n])
        BY <2>1
  <2> DEFINE local == [Idle EXCEPT !.at = "journal_check", !.per = p, !.src = s,
                                   !.size = size, !.no = n]
  <2>3. /\ local.at = "journal_check" /\ local.per = p /\ local.size = size
        /\ local.no = n
        BY DEF Idle
  <2>4. req'[r] = local  BY <2>2, StartOutcome DEF Outcome
  <2>5. /\ req'[r].at = "journal_check" /\ req'[r].size \in Sizes
        /\ req'[r].no \in {NextVoucherNo(req'[r].per)} \cup ExplicitNos
        BY <2>3, <2>4
  <2> QED  BY <1>8, <2>5 DEF JournalNumber, LocalEffect
<1>9. CASE PostGet(r) \/ VoidGet(r)
  <2>1. PICK e \in Entries, step \in {"post_check", "void_check"} :
           Stored(e) /\ Start(r, Snapshot(e, step))
        BY <1>9 DEF PostGet, VoidGet
  <2>2. req'[r] = Snapshot(e, step)  BY <2>1, StartOutcome DEF Outcome
  <2>3. HasRead(r, e) /\ req'[r].at = step  BY <2>2 DEF HasRead, Snapshot, Idle
  <2> QED  BY <1>9, <2>1, <2>3 DEF PostGet, VoidGet, LocalEffect
<1>10. CASE UpdateGet(r)
  <2>1. PICK e \in Entries, s \in ManualSources, size \in Sizes :
           /\ entry[e].status = "draft"
           /\ Start(r, [Snapshot(e, "update_void") EXCEPT !.size = size, !.src = s])
        BY <1>10 DEF UpdateGet
  <2>2. req'[r] = [Snapshot(e, "update_void") EXCEPT !.size = size, !.src = s]
        BY <2>1, StartOutcome DEF Outcome
  <2>3. /\ req'[r].at = "update_void" /\ req'[r].size = size
        /\ req'[r].per = entry[e].per /\ req'[r].no = entry[e].no
        BY <2>2 DEF Snapshot, Idle
  <2>4. Stored(e)  BY <2>1 DEF Stored
  <2> QED  BY <1>10, <2>3, <2>4 DEF UpdateGet, LocalEffect
<1>11. CASE PostCheck(r)
  <2>1. CASE Return(r)  BY <1>3, <2>1
  <2>2. CASE Continue(r, to("post_commit")) /\ Balanced(req[r].lines, req[r].size)
        BY <1>4, <1>11, <2>2 DEF PostCheck, At, LocalEffect
  <2> QED  BY <1>11, <2>1, <2>2 DEF PostCheck
<1>12. CASE VoidCheck(r)
  <2>1. CASE Return(r)  BY <1>3, <2>1
  <2>2. CASE req[r].seen = "posted" /\ Continue(r, to("void_number"))
        BY <1>4, <1>12, <2>2 DEF VoidCheck, At, LocalEffect
  <2>3. CASE Continue(r, to("void_simple"))
        BY <1>4, <2>3 DEF Tracked, LocalEffect
  <2> QED  BY <1>12, <2>1, <2>2, <2>3 DEF VoidCheck
<1>13. CASE JournalCheck(r)
  <2>1. CASE Return(r)  BY <1>3, <2>1
  <2>2. CASE Continue(r, to("insert_header"))
        BY <1>4, <1>13, <2>2 DEF JournalCheck, At, LocalEffect
  <2> QED  BY <1>13, <2>1, <2>2 DEF JournalCheck
<1>14. CASE ApproveBegin(r)
  <2>1. CASE Return(r)  BY <1>3, <2>1
  <2>2. ASSUME NEW n \in VoucherNoRead(req[r].per),
               Continue(r, [req[r] EXCEPT !.at = "approve_commit", !.no = n])
        PROVE  LocalEffect(r)
    <3>1. Remembers(r) /\ req'[r].at = "approve_commit" /\ req'[r].no = n
          BY <1>5, <2>2
    <3>2. req'[r].no \in VoucherNoRead(req'[r].per)  BY <3>1 DEF Remembers
    <3> QED  BY <1>14, <3>1, <3>2 DEF ApproveBegin, LocalEffect
  <2> QED  BY <1>14, <2>1, <2>2 DEF ApproveBegin
<1>15. CASE VoidNumber(r)
  <2>1. PICK n \in VoucherNoRead(req[r].per) :
           Continue(r, [req[r] EXCEPT !.at = "void_commit", !.no = n])
        BY <1>15 DEF VoidNumber
  <2>2. Remembers(r) /\ req'[r].at = "void_commit" /\ req'[r].no = n
        BY <1>5, <2>1
  <2>3. req'[r].no \in VoucherNoRead(req'[r].per)  BY <2>2 DEF Remembers
  <2> QED  BY <1>15, <2>2, <2>3 DEF VoidNumber, At, LocalEffect
<1>16. CASE InsertHeader(r)
  <2>1. CASE Return(r)  BY <1>3, <2>1
  <2>2. ASSUME NEW e \in FreeEntries, entry' = [entry EXCEPT ![e] = Header(r)],
               Continue(r, [Idle EXCEPT !.at = "insert_lines", !.ent = e])
        PROVE  LocalEffect(r)
    <3>1. req'[r] = [Idle EXCEPT !.at = "insert_lines", !.ent = e]
          BY <2>2, ContinueOutcome DEF Outcome
    <3>2. req'[r].at = "insert_lines" /\ req'[r].ent = e  BY <3>1 DEF Idle
    <3>3. NewRow(e, Header(r))
          BY <2>2 DEF TypeInv, RowsOK, NewRow, Others, FreeEntries
    <3> QED  BY <1>16, <3>2, <3>3 DEF LocalEffect
  <2> QED  BY <1>16, <2>1, <2>2 DEF InsertHeader, Header
<1>17. CASE InsertLine(r)
  <2>1. CASE Return(r)  BY <1>3, <2>1
  <2>2. CASE req' = req  BY <1>17, <2>2 DEF LocalEffect
  <2> QED  BY <1>17, <2>1, <2>2 DEF InsertLine
<1>18. CASE UpdateVoid(r)
  <2>1. CASE Return(r)  BY <1>3, <2>1
  <2>2. CASE Voidable(req[r].ent) /\ Continue(r, to("update_insert"))
             /\ entry' = [entry EXCEPT ![req[r].ent].status = "voided"]
    <3>1. Voiding(r)  BY <2>2 DEF TypeInv, RowsOK, Voiding, Others
    <3> QED  BY <1>4, <1>18, <2>2, <3>1 DEF UpdateVoid, At, LocalEffect
  <2> QED  BY <1>18, <2>1, <2>2 DEF UpdateVoid
<1>19. CASE InvoiceFind(r) \/ ApproveCheck(r)
  <2>1. \/ Return(r)
        \/ \E step \in {"invoice_insert", "approve_begin"} : Continue(r, to(step))
        BY <1>19 DEF InvoiceFind, ApproveCheck
  <2>2. ASSUME NEW step \in {"invoice_insert", "approve_begin"}, Continue(r, to(step))
        PROVE  LocalEffect(r)
        BY <1>4, <2>2 DEF Tracked, LocalEffect
  <2> QED  BY <1>3, <2>1, <2>2
<1>20. CASE \/ InvoiceInsert(r) \/ ApproveCommit(r) \/ PostCommit(r)
            \/ VoidSimple(r) \/ VoidCommit(r) \/ Abort(r)
  BY <1>3, <1>20
  DEF InvoiceInsert, ApproveCommit, PostCommit, VoidSimple, VoidCommit, Abort
<1>21. CASE RejectInvoice(r)
  BY <1>2, <1>21 DEF RejectInvoice, Idle, Tracked
<1>22. CASE PeriodNext(r)
  <2>1. req'[r].at \in Closing \cup {"idle"}  BY <1>22, PeriodSteps
  <2> QED  BY <2>1 DEF Closing, Tracked, LocalEffect
<1> QED
    BY <1>6, <1>7, <1>8, <1>9, <1>10, <1>11, <1>12, <1>13, <1>14, <1>15, <1>16,
       <1>17, <1>18, <1>19, <1>20, <1>21, <1>22
    DEF DocumentStep, InvoiceNext, JournalNext

\* No row is deleted or changes what it stands for; a posting date stays, a void
\* is for ever, and only the writer of an entry adds to its lines.
LEMMA StoredRows ==
    ASSUME TypeInv, NEW r \in Requests, DocumentStep(r) \/ PeriodNext(r),
           NEW d \in Entries, Stored(d)
    PROVE  /\ entry'[d].status # "absent"
           /\ entry'[d].per = entry[d].per /\ entry'[d].src = entry[d].src
           /\ entry'[d].no = entry[d].no /\ entry'[d].size = entry[d].size
           /\ entry'[d].kind = entry[d].kind /\ entry'[d].of = entry[d].of
           /\ entry[d].stamped = TRUE => entry'[d].stamped = TRUE
           /\ entry[d].status = "voided" => entry'[d].status = "voided"
           /\ \/ entry'[d].lines = entry[d].lines
              \/ /\ InsertLine(r) /\ d = req[r].ent
                 /\ entry'[d].lines = entry[d].lines + 1
<1>1. entry[d] \in EntryRow  BY DEF TypeInv, RowsOK
<1>2. d \notin FreeEntries  BY DEF FreeEntries
<1>3. CASE entry' = entry
  BY <1>3 DEF Stored
<1>4. ASSUME NEW v \in Entries, NEW row, NewRow(v, row)
      PROVE  entry'[d] = entry[d]
      BY <1>2, <1>4 DEF NewRow, Others
<1>5. CASE InsertLine(r) /\ LineStored(r)
  <2>1. entry'[d] = IF d = req[r].ent
                    THEN [entry[d] EXCEPT !.lines = @ + 1] ELSE entry[d]
        BY <1>5 DEF LineStored, Others
  <2> QED  BY <1>1, <1>5, <2>1 DEF EntryRow, Stored
<1>6. CASE Posting(r)
  <2>1. entry'[d] = IF d = req[r].ent
                    THEN [entry[d] EXCEPT !.status = "posted", !.stamped = TRUE]
                    ELSE entry[d]
        BY <1>6 DEF Posting, Others
  <2>2. d = req[r].ent => entry[d].status = "draft"  BY <1>6 DEF Posting
  <2> QED  BY <1>1, <2>1, <2>2 DEF EntryRow, Stored
<1>7. CASE Voiding(r) \/ \E v \in Entries : Reversing(r, v)
  <2>1. entry'[d] = IF d = req[r].ent
                    THEN [entry[d] EXCEPT !.status = "voided"] ELSE entry[d]
        BY <1>2, <1>7 DEF Voiding, Reversing, Others
  <2> QED  BY <1>1, <2>1 DEF EntryRow, Stored
<1> QED  BY <1>3, <1>4, <1>5, <1>6, <1>7, RowEffects DEF Stored

-----------------------------------------------------------------------------
(* Posted entries are complete.  PostedComplete is not inductive: a posting  *)
(* relies on the number of lines it read, the writer of an entry on being    *)
(* the only one.                                                             *)

\* No proper part of an entry's lines balances, so only a whole entry passes.
NoPartBalances == \A k, n \in Nat : Balanced(k, n) => k = n

Storing == {"journal_check", "insert_header", "update_void", "update_insert"}

Writing(local) ==
    /\ local.at \in Storing => local.size \in Nat \ {0}
    /\ local.at = "insert_lines" =>
          /\ local.ent \in Entries /\ Stored(local.ent)
          /\ entry[local.ent].lines < entry[local.ent].size

HasCounted(local) ==
    /\ local.at \in {"post_check", "post_commit"} =>
          /\ local.ent \in Entries /\ Stored(local.ent)
          /\ local.size = entry[local.ent].size
          /\ local.lines <= entry[local.ent].lines
    /\ local.at = "post_commit" => local.lines = local.size

OneWriter ==
    \A q, r \in Requests :
        At(q, "insert_lines") /\ At(r, "insert_lines") /\ req[q].ent = req[r].ent
            => q = r

Whole(e) ==
    /\ entry[e].lines <= entry[e].size
    /\ entry[e].status = "posted" => entry[e].stamped = TRUE
    /\ entry[e].stamped = TRUE => entry[e].lines = entry[e].size

CompleteInv ==
    /\ \A r \in Requests : Writing(req[r]) /\ HasCounted(req[r])
    /\ OneWriter
    /\ \A e \in Entries : Whole(e)

LEMMA CompleteInit == Init => CompleteInv
  BY DEF Init, LedgerInit, CompleteInv, Writing, HasCounted, OneWriter, Whole, Storing,
         Idle, NoEntry, At

\* A snapshot or a header of another request is not touched.
LEMMA OthersKeep ==
    ASSUME TypeInv, NEW r \in Requests, DocumentStep(r) \/ PeriodNext(r)
    PROVE  \A q \in Requests \ {r} : req'[q] = req[q]
  BY DocumentStepOutcome, PeriodSteps

LEMMA RowsWhole ==
    ASSUME TypeInv, CompleteInv, NEW r \in Requests, DocumentStep(r) \/ PeriodNext(r)
    PROVE  \A e \in Entries : Whole(e)'
<1> TAKE e \in Entries
<1> DEFINE d == req[r].ent
<1>1. entry[e] \in EntryRow /\ Whole(e)  BY DEF TypeInv, RowsOK, CompleteInv
<1>2. CASE entry'[e] = entry[e]
  BY <1>1, <1>2 DEF Whole
<1>3. CASE NewRow(e, Header(r))
  <2>1. req[r].size \in Nat  BY LocalOfRequest DEF RequestState
  <2>2. entry'[e] = Header(r)  BY <1>3 DEF NewRow
  <2>3. /\ entry'[e].status = "draft" /\ entry'[e].size = req[r].size
        /\ entry'[e].lines = 0 /\ entry'[e].stamped = FALSE
        BY <2>2, DraftFields
  <2> QED  BY <2>1, <2>3 DEF Whole
<1>4. CASE NewRow(e, ApprovalDraft(r))
  <2>1. entry'[e] = ApprovalDraft(r)  BY <1>4 DEF NewRow
  <2>2. /\ entry'[e].status = "draft" /\ entry'[e].size = InvoiceSize
        /\ entry'[e].lines = InvoiceSize /\ entry'[e].stamped = FALSE
        BY <2>1, DraftFields
  <2> QED  BY <2>2 DEF Whole, InvoiceSize
<1>5. CASE InsertLine(r) /\ LineStored(r) /\ e = d
  <2>1. entry[e].lines < entry[e].size
        BY <1>5 DEF InsertLine, At, CompleteInv, Writing
  <2>2. entry'[e] = [entry[e] EXCEPT !.lines = @ + 1]  BY <1>5 DEF LineStored
  <2> QED  BY <1>1, <2>1, <2>2 DEF Whole, EntryRow
<1>6. CASE PostCommit(r) /\ Posting(r) /\ e = d
  <2>1. HasCounted(req[r]) /\ req[r].at = "post_commit"
        BY <1>6 DEF PostCommit, At, CompleteInv
  <2>2. req[r].lines \in Nat /\ req[r].size \in Nat
        BY LocalOfRequest DEF RequestState
  <2>3. entry[e].lines = entry[e].size
        BY <1>1, <1>6, <2>1, <2>2 DEF HasCounted, Whole, EntryRow
  <2>4. entry'[e] = [entry[e] EXCEPT !.status = "posted", !.stamped = TRUE]
        BY <1>6 DEF Posting
  <2> QED  BY <1>1, <2>3, <2>4 DEF Whole, EntryRow
<1>7. CASE entry'[e] = [entry[e] EXCEPT !.status = "voided"]
  BY <1>1, <1>7 DEF Whole, EntryRow
<1>8. CASE entry'[e] = Reversal(r)
  <2>1. req[r].lines \in Nat  BY LocalOfRequest DEF RequestState
  <2> QED  BY <1>8, <2>1 DEF Reversal, Whole
<1> QED
    BY <1>2, <1>3, <1>4, <1>5, <1>6, <1>7, <1>8, RowEffects
    DEF NewRow, LineStored, Posting, Voiding, Reversing, Others

\* What another request wrote or counted is still so.
LEMMA OthersWritings ==
    ASSUME TypeInv, CompleteInv, NEW r \in Requests, DocumentStep(r) \/ PeriodNext(r),
           NEW q \in Requests \ {r}
    PROVE  Writing(req[q])' /\ HasCounted(req[q])'
<1> DEFINE e == req[q].ent
<1>1. req'[q] = req[q]  BY OthersKeep
<1>2. Writing(req[q]) /\ HasCounted(req[q])  BY DEF CompleteInv
<1>3. ASSUME e \in Entries, Stored(e)
      PROVE  /\ entry'[e].status # "absent" /\ entry'[e].size = entry[e].size
             /\ entry'[e].lines >= entry[e].lines
             /\ At(q, "insert_lines") => entry'[e].lines = entry[e].lines
  <2>1. entry[e] \in EntryRow  BY <1>3 DEF TypeInv, RowsOK
  <2>2. At(q, "insert_lines") /\ InsertLine(r) => e # req[r].ent
        BY DEF InsertLine, CompleteInv, OneWriter
  <2>3. /\ entry'[e].status # "absent" /\ entry'[e].size = entry[e].size
        /\ \/ entry'[e].lines = entry[e].lines
           \/ InsertLine(r) /\ e = req[r].ent /\ entry'[e].lines = entry[e].lines + 1
        BY <1>3, StoredRows
  <2>4. entry[e].lines \in Nat  BY <2>1 DEF EntryRow
  <2> QED  BY <2>2, <2>3, <2>4
<1>5. ASSUME At(q, "insert_lines") PROVE Writing(req[q])'
      BY <1>1, <1>2, <1>3, <1>5 DEF Writing, At, Storing, Stored
<1>6. ASSUME ~At(q, "insert_lines") PROVE Writing(req[q])'
      BY <1>1, <1>2, <1>6 DEF Writing, At
<1>7. HasCounted(req[q])'
  <2>1. CASE req[q].at \in {"post_check", "post_commit"}
    <3>1. e \in Entries /\ Stored(e)  BY <1>2, <2>1 DEF HasCounted
    <3>2. entry[e].lines \in Nat /\ entry'[e].lines \in Nat /\ req[q].lines \in Nat
      <4>1. entry[e] \in EntryRow /\ req[q] \in RequestState
            BY <3>1, LocalOfRequest DEF TypeInv, RowsOK
      <4>2. entry[e].lines \in Nat /\ req[q].lines \in Nat
            BY <4>1 DEF EntryRow, RequestState
      <4>3. \/ entry'[e].lines = entry[e].lines
            \/ entry'[e].lines = entry[e].lines + 1
            BY <3>1, StoredRows
      <4> QED  BY <4>2, <4>3
    <3> QED  BY <1>1, <1>2, <1>3, <3>1, <3>2 DEF HasCounted, Stored
  <2>2. CASE req[q].at \notin {"post_check", "post_commit"}
        BY <1>1, <2>2 DEF HasCounted
  <2> QED  BY <2>1, <2>2
<1> QED  BY <1>5, <1>6, <1>7

LEMMA OwnWritings ==
    ASSUME TypeInv, CompleteInv, NoPartBalances,
           NEW r \in Requests, DocumentStep(r) \/ PeriodNext(r)
    PROVE  Writing(req[r])' /\ HasCounted(req[r])'
<1> DEFINE Counting == {"post_check", "post_commit"}
<1>1. req[r] \in RequestState  BY LocalOfRequest
<1>2. Writing(req[r]) /\ HasCounted(req[r])  BY DEF CompleteInv
<1>3. Sizes \subseteq Nat \ {0}  BY LedgerAssumption DEF LedgerAssumption
<1>4. CASE req'[r].at \notin Tracked
  BY <1>4 DEF Writing, HasCounted, Storing, Tracked
<1>5. CASE InsertLine(r) /\ req'[r] = req[r]
  <2> DEFINE e == req[r].ent
  <2>1. /\ At(r, "insert_lines") /\ e \in Entries /\ Stored(e)
        /\ entry[e].lines < entry[e].size /\ entry[e].lines + 1 # entry[e].size
    <3>1. req'[r] = Idle => req[r].at # "insert_lines"  BY <1>5 DEF Idle
    <3>2. At(r, "insert_lines")  BY <1>5 DEF InsertLine
    <3>3. entry[e].lines + 1 = entry[e].size => req'[r] = Idle
          BY <1>5, ContinueOutcome DEF InsertLine, Return, Outcome
    <3> QED  BY <1>2, <3>1, <3>2, <3>3 DEF Writing, At
  <2>2. entry[e].lines \in Nat /\ entry[e].size \in Nat
        BY <2>1 DEF TypeInv, RowsOK, EntryRow
  <2>3. /\ entry'[e].status # "absent" /\ entry'[e].size = entry[e].size
        /\ (entry'[e].lines = entry[e].lines \/ entry'[e].lines = entry[e].lines + 1)
        BY <2>1, StoredRows
  <2>4. entry'[e].lines < entry'[e].size  BY <2>1, <2>2, <2>3
  <2> QED  BY <1>5, <2>1, <2>3, <2>4 DEF Writing, HasCounted, At, Storing, Stored
<1>6. CASE req'[r].at \in {"journal_check", "update_void"} /\ req'[r].size \in Sizes
  BY <1>3, <1>6 DEF Writing, HasCounted, Storing
<1>7. CASE /\ Remembers(r) /\ req[r].at \in Storing
           /\ req'[r].at \in {"insert_header", "update_insert"}
  BY <1>2, <1>7 DEF Writing, HasCounted, Storing, Remembers
<1>8. CASE req'[r].at \in {"approve_commit", "void_check", "void_number", "void_commit"}
  BY <1>8 DEF Writing, HasCounted, Storing
<1>9. CASE InsertHeader(r) /\ req'[r].at = "insert_lines"
           /\ NewRow(req'[r].ent, Header(r))
  <2> DEFINE e == req'[r].ent
  <2>1. /\ entry'[e].status = "draft" /\ entry'[e].lines = 0
        /\ entry'[e].size = req[r].size
    <3>1. entry'[e] = Header(r)  BY <1>9 DEF NewRow
    <3> QED  BY <3>1, DraftFields
  <2>2. req[r].size \in Nat \ {0}
        BY <1>2, <1>9 DEF InsertHeader, At, Writing, Storing
  <2>3. e \in Entries  BY <1>9 DEF NewRow, FreeEntries
  <2> QED  BY <1>9, <2>1, <2>2, <2>3 DEF Writing, HasCounted, Storing, Stored
<1>10. CASE /\ entry' = entry /\ req'[r].at = "post_check"
            /\ \E e \in Entries : Stored(e) /\ HasRead(r, e)
  <2>1. PICK e \in Entries : Stored(e) /\ HasRead(r, e)  BY <1>10
  <2>2. entry[e].lines \in Nat  BY DEF TypeInv, RowsOK, EntryRow
  <2> QED  BY <1>10, <2>1, <2>2 DEF HasRead, Writing, HasCounted, Storing, Stored
<1>11. CASE /\ entry' = entry /\ Remembers(r) /\ Balanced(req[r].lines, req[r].size)
            /\ req[r].at = "post_check" /\ req'[r].at = "post_commit"
  <2>1. req[r].lines = req[r].size
        BY <1>1, <1>11 DEF NoPartBalances, RequestState
  <2> QED  BY <1>2, <1>11, <2>1
           DEF Remembers, Writing, HasCounted, Storing, Stored
<1> QED
    BY <1>4, <1>5, <1>6, <1>7, <1>8, <1>9, <1>10, <1>11, LocalEffects
    DEF LocalEffect, Storing

LEMMA OneWriterKept ==
    ASSUME TypeInv, CompleteInv, NEW r \in Requests, DocumentStep(r) \/ PeriodNext(r)
    PROVE  OneWriter'
<1>1. \A q \in Requests \ {r} : req'[q] = req[q]  BY OthersKeep
<1>2. ASSUME NEW q \in Requests \ {r}, req[q].at = "insert_lines",
             req'[r].at = "insert_lines"
      PROVE  req'[r].ent # req[q].ent
  <2>1. Stored(req[q].ent)  BY <1>2 DEF CompleteInv, Writing
  <2>2. CASE InsertLine(r) /\ req'[r] = req[r]
        BY <1>2, <2>2 DEF InsertLine, At, CompleteInv, OneWriter
  <2>3. CASE NewRow(req'[r].ent, Header(r))
        BY <2>1, <2>3 DEF NewRow, FreeEntries
  <2> QED  BY <1>2, <2>2, <2>3, LocalEffects DEF LocalEffect, Tracked
<1> QED  BY <1>1, <1>2 DEF OneWriter, At, CompleteInv

LEMMA CompleteStep ==
    ASSUME TypeInv, CompleteInv, NoPartBalances, [Next]_vars
    PROVE  CompleteInv'
<1>1. ASSUME NEW r \in Requests, DocumentStep(r) \/ PeriodNext(r)
      PROVE  CompleteInv'
      BY <1>1, RowsWhole, OthersWritings, OwnWritings, OneWriterKept DEF CompleteInv
<1>2. CASE UNCHANGED vars
  BY <1>2 DEF vars, CompleteInv, Writing, HasCounted, OneWriter, Whole, At, Stored
<1> QED  BY <1>1, <1>2, NextCases

LEMMA CompleteInvariant == ASSUME NoPartBalances PROVE Spec => []CompleteInv
  BY CompleteInit, CompleteStep, TypeInvariant, PTL DEF Spec

\* PostJournalEntry: unless a part of an entry's lines balances by itself, every
\* entry is posted with all its lines, whoever stores them while it is posted.
THEOREM PostedCompleteAlways ==
    ASSUME NoPartBalances
    PROVE  Spec => []PostedComplete
<1>1. CompleteInv /\ TypeInv => PostedComplete
      BY DEF CompleteInv, Whole, PostedComplete, TypeInv, RowsOK, EntryRow
<1> QED  BY <1>1, CompleteInvariant, TypeInvariant, PTL

-----------------------------------------------------------------------------
(* Reversals.  A request that voids a posted entry acts on what it read: the *)
(* entry has all its lines by then, so neither they nor its period change.   *)

HasReadPosted(local) ==
    /\ local.at \in {"void_number", "void_commit"} => local.seen = "posted"
    /\ local.at \in {"void_check", "void_number", "void_commit"}
          /\ local.seen = "posted" =>
             /\ local.ent \in Entries /\ Stored(local.ent)
             /\ entry[local.ent].stamped = TRUE
             /\ local.lines = entry[local.ent].lines
             /\ local.per = entry[local.ent].per /\ local.src = entry[local.ent].src

Reverses(v, e) ==
    /\ e \in Entries \ {v} /\ Stored(v) /\ entry[v].stamped = TRUE
    /\ entry[e].status = "voided" /\ entry[e].stamped = TRUE
    /\ entry[v].lines = entry[e].lines
    /\ entry[v].per = entry[e].per /\ entry[v].src = entry[e].src

Matched(v) ==
    /\ entry[v].kind = "reversal" => Reverses(v, entry[v].of)
    /\ entry[v].kind # "reversal" => entry[v].of = NONE

ReversedOnce ==
    \A v, w \in Entries : entry[v].of = entry[w].of /\ entry[v].of # NONE => v = w

ReversalInv ==
    /\ \A r \in Requests : HasReadPosted(req[r])
    /\ \A v \in Entries : Matched(v)
    /\ ReversedOnce

LEMMA ReversalInit == Init => ReversalInv
  BY DEF Init, LedgerInit, ReversalInv, HasReadPosted, Matched, ReversedOnce, Idle,
         NoEntry

\* A posted entry is as it was when it was posted, but for its status.
LEMMA PostedRows ==
    ASSUME TypeInv, CompleteInv, NEW r \in Requests, DocumentStep(r) \/ PeriodNext(r),
           NEW e \in Entries, Stored(e), entry[e].stamped = TRUE
    PROVE  /\ entry'[e].status # "absent" /\ entry'[e].stamped = TRUE
           /\ entry'[e].lines = entry[e].lines
           /\ entry'[e].per = entry[e].per /\ entry'[e].src = entry[e].src
           /\ entry'[e].kind = entry[e].kind /\ entry'[e].of = entry[e].of
           /\ entry[e].status = "voided" => entry'[e].status = "voided"
<1>1. entry[e].lines = entry[e].size  BY DEF CompleteInv, Whole
<1>2. entry[e].size \in Nat  BY DEF TypeInv, RowsOK, EntryRow
<1>3. ASSUME InsertLine(r), e = req[r].ent
      PROVE  entry[e].lines < entry[e].size
      BY <1>3 DEF InsertLine, At, CompleteInv, Writing
<1>4. ~(InsertLine(r) /\ e = req[r].ent)  BY <1>1, <1>2, <1>3
<1> QED  BY <1>4, StoredRows

LEMMA ReadsOfPosted ==
    ASSUME TypeInv, CompleteInv, ReversalInv,
           NEW r \in Requests, DocumentStep(r) \/ PeriodNext(r)
    PROVE  \A q \in Requests : HasReadPosted(req[q])'
<1> DEFINE Reading == {"void_check", "void_number", "void_commit"}
           Read(local, e) == /\ local.lines = entry[e].lines
                             /\ local.per = entry[e].per /\ local.src = entry[e].src
           Still(local) == local.at \in Reading /\ local.seen = "posted" =>
                              /\ local.ent \in Entries /\ Stored(local.ent)
                              /\ entry[local.ent].stamped = TRUE
                              /\ Read(local, local.ent)
<1>1. ASSUME NEW local, Still(local),
             local.at \in {"void_number", "void_commit"} => local.seen = "posted"
      PROVE  /\ local.at \in {"void_number", "void_commit"} => local.seen = "posted"
             /\ local.at \in Reading /\ local.seen = "posted" =>
                  /\ local.ent \in Entries /\ entry'[local.ent].status # "absent"
                  /\ entry'[local.ent].stamped = TRUE
                  /\ local.lines = entry'[local.ent].lines
                  /\ local.per = entry'[local.ent].per
                  /\ local.src = entry'[local.ent].src
      BY <1>1, PostedRows
<1>2. ASSUME NEW q \in Requests
      PROVE  /\ Still(req'[q])
             /\ req'[q].at \in {"void_number", "void_commit"}
                   => req'[q].seen = "posted"
  <2>1. HasReadPosted(req[q])  BY DEF ReversalInv
  <2>2. CASE q # r
        BY <2>1, <2>2, OthersKeep DEF HasReadPosted
  <2>3. CASE q = r /\ req'[r].at \notin Reading
        BY <2>3
  <2>4. CASE q = r /\ req'[r].at = "void_check" /\ \E e \in Entries : Stored(e) /\ HasRead(r, e)
    <3>1. PICK e \in Entries : Stored(e) /\ HasRead(r, e)  BY <2>4
    <3>2. entry[e].status = "posted" => entry[e].stamped = TRUE
          BY DEF CompleteInv, Whole
    <3> QED  BY <2>4, <3>1, <3>2 DEF HasRead
  <2>5. CASE q = r /\ req[r].at = "void_check" /\ req[r].seen = "posted" /\ Remembers(r)
        BY <2>1, <2>5 DEF HasReadPosted, Remembers
  <2>6. CASE q = r /\ req[r].at = "void_number" /\ Remembers(r)
        BY <2>1, <2>6 DEF HasReadPosted, Remembers
  <2>7. InsertLine(r) /\ req'[r] = req[r] => req'[r].at \notin Reading
        BY DEF InsertLine, At
  <2>8. \/ req'[r].at \notin Reading
        \/ req'[r].at = "void_check" /\ \E e \in Entries : Stored(e) /\ HasRead(r, e)
        \/ req[r].at = "void_check" /\ req[r].seen = "posted" /\ Remembers(r)
        \/ req[r].at = "void_number" /\ Remembers(r)
        BY <2>7, LocalEffects DEF LocalEffect, Tracked
  <2> QED  BY <2>2, <2>3, <2>4, <2>5, <2>6, <2>8
<1> QED  BY <1>1, <1>2 DEF HasReadPosted, Stored

\* The reversal that VoidCommit inserts.
LEMMA NewReversal ==
    ASSUME TypeInv, CompleteInv, ReversalInv, NEW r \in Requests, VoidCommit(r),
           DocumentStep(r), NEW v \in Entries, Reversing(r, v)
    PROVE  /\ Matched(v)' /\ entry'[v].of = req[r].ent
           /\ \A w \in Entries : entry[w].of # req[r].ent
<1> DEFINE e == req[r].ent
<1>1. /\ e \in Entries /\ Stored(e) /\ entry[e].stamped = TRUE
      /\ req[r].lines = entry[e].lines /\ req[r].per = entry[e].per
      /\ req[r].src = entry[e].src
      BY DEF VoidCommit, At, ReversalInv, HasReadPosted
<1>2. v # e  BY <1>1 DEF Reversing, FreeEntries
<1>3. /\ entry'[v].kind = "reversal" /\ entry'[v].of = e
      /\ entry'[v].lines = req[r].lines /\ entry'[v].per = req[r].per
      /\ entry'[v].src = req[r].src /\ entry'[v].status = "posted"
      /\ entry'[v].stamped = TRUE
      BY DEF Reversing, Reversal
<1>4. entry'[e].status = "voided"
      BY <1>1 DEF Reversing, TypeInv, RowsOK, EntryRow
<1>5. /\ entry'[e].stamped = TRUE /\ entry'[e].lines = entry[e].lines
      /\ entry'[e].per = entry[e].per /\ entry'[e].src = entry[e].src
      BY <1>1, PostedRows
<1>6. entry'[v].of = e /\ Matched(v)'
  <2>1. /\ entry'[v].of \in Entries \ {v} /\ entry'[v].status # "absent"
        /\ entry'[entry'[v].of].status = "voided"
        /\ entry'[entry'[v].of].stamped = TRUE /\ entry'[v].stamped = TRUE
        /\ entry'[v].lines = entry'[entry'[v].of].lines
        /\ entry'[v].per = entry'[entry'[v].of].per
        /\ entry'[v].src = entry'[entry'[v].of].src
        BY <1>1, <1>2, <1>3, <1>4, <1>5
  <2> QED  BY <1>3, <2>1 DEF Matched, Reverses, Stored
<1>7. ASSUME NEW w \in Entries PROVE entry[w].of # e
  <2>1. Voidable(e)  BY DEF Reversing
  <2>2. CASE entry[w].kind = "reversal"
        BY <2>1, <2>2 DEF ReversalInv, Matched, Reverses, Voidable
  <2>3. CASE entry[w].kind # "reversal"
    <3>1. entry[w].of = NONE  BY <2>3 DEF ReversalInv, Matched
    <3>2. NONE \notin Entries  BY LedgerAssumption DEF LedgerAssumption
    <3> QED  BY <1>1, <3>1, <3>2
  <2> QED  BY <2>2, <2>3
<1> QED  BY <1>6, <1>7

\* A row that was there keeps its match.
LEMMA OldMatches ==
    ASSUME TypeInv, CompleteInv, ReversalInv,
           NEW r \in Requests, DocumentStep(r) \/ PeriodNext(r),
           NEW v \in Entries, Stored(v)
    PROVE  Matched(v)' /\ entry'[v].of = entry[v].of
<1>1. /\ entry'[v].kind = entry[v].kind /\ entry'[v].of = entry[v].of
      /\ entry'[v].status # "absent"
      BY StoredRows
<1>2. Matched(v)  BY DEF ReversalInv
<1>3. CASE entry[v].kind # "reversal"
  BY <1>1, <1>2, <1>3 DEF Matched
<1>4. CASE entry[v].kind = "reversal"
  <2> DEFINE e == entry[v].of
  <2>1. /\ e \in Entries \ {v} /\ entry[e].status = "voided"
        /\ entry[e].stamped = TRUE /\ entry[v].lines = entry[e].lines
        /\ entry[v].per = entry[e].per /\ entry[v].src = entry[e].src
        BY <1>2, <1>4 DEF Matched, Reverses
  <2>2. Stored(e)  BY <2>1 DEF Stored
  <2>3. /\ entry'[e].status = "voided" /\ entry'[e].stamped = TRUE
        /\ entry'[e].lines = entry[e].lines /\ entry'[e].per = entry[e].per
        /\ entry'[e].src = entry[e].src
        BY <2>1, <2>2, PostedRows
  <2>4. entry[v].stamped = TRUE  BY <1>2, <1>4 DEF Matched, Reverses
  <2>5. /\ entry'[v].lines = entry[v].lines /\ entry'[v].per = entry[v].per
        /\ entry'[v].src = entry[v].src /\ entry'[v].stamped = TRUE
        BY <2>4, PostedRows
  <2> QED  BY <1>1, <1>4, <2>1, <2>3, <2>5 DEF Matched, Reverses, Stored
<1> QED  BY <1>1, <1>3, <1>4

\* A row that was not there is still free, a draft or the reversal.
LEMMA FreeRows ==
    ASSUME TypeInv, CompleteInv, NEW r \in Requests, DocumentStep(r) \/ PeriodNext(r),
           NEW v \in Entries, ~Stored(v)
    PROVE  \/ entry'[v] = entry[v]
           \/ entry'[v].kind \in {"manual", "approval"} /\ entry'[v].of = NONE
           \/ VoidCommit(r) /\ DocumentStep(r) /\ Reversing(r, v)
<1>1. ASSUME NEW w \in Entries, NewRow(w, Header(r)) \/ NewRow(w, ApprovalDraft(r))
      PROVE  \/ entry'[v] = entry[v]
             \/ entry'[v].kind \in {"manual", "approval"} /\ entry'[v].of = NONE
      BY <1>1, DraftFields DEF NewRow, Others
<1>2. CASE InsertLine(r) /\ LineStored(r)
  <2>1. v # req[r].ent  BY <1>2 DEF InsertLine, At, CompleteInv, Writing
  <2> QED  BY <1>2, <2>1 DEF LineStored, Others
<1>3. CASE Posting(r) \/ Voiding(r)
  BY <1>3 DEF Posting, Voiding, Voidable, Others, Stored
<1>4. ASSUME NEW w \in Entries, VoidCommit(r), Reversing(r, w)
      PROVE  entry'[v] = entry[v] \/ v = w
      BY <1>4 DEF Reversing, Voidable, Stored
<1>5. VoidCommit(r) => DocumentStep(r)  BY DEF DocumentStep, JournalNext
<1> QED  BY <1>1, <1>2, <1>3, <1>4, <1>5, RowEffects

LEMMA ReversalStep ==
    ASSUME TypeInv, CompleteInv, ReversalInv, [Next]_vars
    PROVE  ReversalInv'
<1>1. ASSUME NEW r \in Requests, DocumentStep(r) \/ PeriodNext(r)
      PROVE  ReversalInv'
  <2>1. ASSUME NEW v \in Entries
        PROVE  /\ Matched(v)'
               /\ entry'[v].of # entry[v].of =>
                     \/ entry'[v].of = NONE
                     \/ VoidCommit(r) /\ DocumentStep(r) /\ Reversing(r, v)
    <3>1. CASE Stored(v)  BY <1>1, <3>1, OldMatches
    <3>2. CASE ~Stored(v) /\ entry'[v] = entry[v]
      <4>1. Matched(v)  BY DEF ReversalInv
      <4>2. entry[v].kind # "reversal"  BY <3>2, <4>1 DEF Matched, Reverses
      <4> QED  BY <3>2, <4>1, <4>2 DEF Matched
    <3>3. CASE entry'[v].kind \in {"manual", "approval"} /\ entry'[v].of = NONE
          BY <3>3 DEF Matched
    <3>4. CASE VoidCommit(r) /\ DocumentStep(r) /\ Reversing(r, v)
          BY <3>4, NewReversal
    <3> QED  BY <1>1, <3>1, <3>2, <3>3, <3>4, FreeRows
  <2>2. ASSUME NEW v \in Entries, NEW w \in Entries, entry'[v].of = entry'[w].of,
               entry'[v].of # NONE, v # w
        PROVE  FALSE
    <3>1. ASSUME NEW x \in Entries, NEW y \in Entries, x # y,
                 entry'[x].of = entry'[y].of, entry'[x].of # NONE,
                 VoidCommit(r) /\ DocumentStep(r) /\ Reversing(r, x)
          PROVE  FALSE
      <4>1. entry'[x].of = req[r].ent /\ entry[y].of # req[r].ent
            BY <3>1, NewReversal
      <4>2. Reversing(r, y)  BY <2>1, <3>1, <4>1
      <4>3. entry'[y] = entry[y] \/ y = req[r].ent
            BY <3>1 DEF Reversing
      <4>4. y = req[r].ent  BY <3>1, <4>1, <4>3
      <4> QED  BY <3>1, <4>2, <4>4 DEF Reversing, FreeEntries, Stored, Voidable
    <3>2. entry'[v].of = entry[v].of /\ entry'[w].of = entry[w].of
          BY <2>1, <2>2, <3>1
    <3> QED  BY <2>2, <3>2 DEF ReversalInv, ReversedOnce
  <2>3. ReversedOnce'  BY <2>2 DEF ReversedOnce
  <2> QED  BY <1>1, <2>1, <2>3, ReadsOfPosted DEF ReversalInv
<1>2. CASE UNCHANGED vars
  BY <1>2 DEF vars, ReversalInv, HasReadPosted, Matched, Reverses, ReversedOnce, Stored
<1> QED  BY <1>1, <1>2, NextCases

\* VoidJournalEntry: however requests that void one entry overlap with each other
\* and with postings, a posted entry gets at most one reversal, which carries its
\* lines, period and source.
THEOREM ReversalsMatchAlways ==
    ASSUME NoPartBalances
    PROVE  Spec => []ReversalsMatch
<1>1. ReversalInv => ReversalsMatch
  <2> SUFFICES ASSUME ReversalInv, NEW v \in Entries, entry[v].kind = "reversal"
               PROVE  LET e == entry[v].of IN
                      /\ e \in Entries \ {v}
                      /\ entry[e].status = "voided" /\ entry[e].stamped
                      /\ entry[v].lines = entry[e].lines
                      /\ entry[v].per = entry[e].per /\ entry[v].src = entry[e].src
                      /\ \A w \in Entries : entry[w].of = e => w = v
      BY DEF ReversalsMatch
  <2>1. Reverses(v, entry[v].of)  BY DEF ReversalInv, Matched
  <2>2. entry[v].of # NONE
        BY <2>1, LedgerAssumption DEF Reverses, LedgerAssumption
  <2> QED  BY <2>1, <2>2 DEF Reverses, ReversalInv, ReversedOnce
<1> QED
    BY <1>1, ReversalInit, ReversalStep, CompleteInvariant, TypeInvariant, PTL DEF Spec

-----------------------------------------------------------------------------
(* Voucher numbers.  A request holds its number for several statements, while *)
(* others insert: what stays true of it is that it is at most one too large.  *)

Numbering ==
    {"journal_check", "insert_header", "approve_commit", "void_commit",
     "update_void", "update_insert"}

Dense(p) == {entry[e].no : e \in EntriesOf(p)} = 1..Cardinality(EntriesOf(p))

NumberInv ==
    /\ \A p \in Periods \cup {NONE} : Dense(p)
    /\ \A r \in Requests :
          req[r].at \in Numbering => req[r].no \in 1..NextVoucherNo(req[r].per)

LEMMA NumberInit == Init => NumberInv
<1> SUFFICES ASSUME Init PROVE NumberInv  OBVIOUS
<1>1. ASSUME NEW p PROVE EntriesOf(p) = {}
      BY DEF Init, LedgerInit, NoEntry, EntriesOf, Stored
<1>2. ASSUME NEW p PROVE Dense(p)
  <2>1. EntriesOf(p) = {} /\ Cardinality(EntriesOf(p)) = 0  BY <1>1, FS_EmptySet
  <2> QED  BY <2>1 DEF Dense
<1> QED  BY <1>2 DEF Init, LedgerInit, NumberInv, Numbering, Idle

LEMMA EntriesFinite ==
    ASSUME NEW p
    PROVE  IsFiniteSet(EntriesOf(p)) /\ Cardinality(EntriesOf(p)) \in Nat
<1>1. EntriesOf(p) \subseteq Entries  BY DEF EntriesOf
<1>2. IsFiniteSet(Entries)            BY LedgerAssumption DEF LedgerAssumption
<1> QED  BY <1>1, <1>2, FS_Subset, FS_CardinalityType

\* The request inserts v into period p with the number it holds, which is free.
Inserting(r, v, p) ==
    /\ v \in FreeEntries /\ entry'[v].no = req[r].no /\ req[r].per = p
    /\ req[r].at \in Numbering /\ ~Taken(p, req[r].no)
    /\ EntriesOf(p)' = EntriesOf(p) \cup {v}

LEMMA InsertedRow ==
    ASSUME TypeInv, NEW r \in Requests, DocumentStep(r) \/ PeriodNext(r),
           NEW v \in Entries, entry'[v] # entry[v], ~Stored(v)
    PROVE  \/ LineStored(r) /\ InsertLine(r) /\ v = req[r].ent
           \/ /\ entry'[v].no = req[r].no /\ entry'[v].per = req[r].per
              /\ entry'[v].status # "absent"
              /\ req[r].at \in Numbering /\ ~Taken(req[r].per, req[r].no)
              /\ \A w \in Entries \ {v} : Stored(w) <=> entry'[w].status # "absent"
<1>1. CASE InsertHeader(r) /\ \E w \in Entries : NewRow(w, Header(r))
  <2>1. NewRow(v, Header(r))  BY <1>1 DEF NewRow, Others
  <2>2. entry' # entry  OBVIOUS
  <2>3. ~Taken(req[r].per, req[r].no)  BY <1>1, <2>2 DEF InsertHeader, Refused
  <2>4. req[r].at \in Numbering  BY <1>1 DEF InsertHeader, At, Numbering
  <2>5. entry'[v] = Header(r) /\ \A w \in Entries \ {v} : entry'[w] = entry[w]
        BY <2>1 DEF NewRow, Others
  <2>6. /\ entry'[v].no = req[r].no /\ entry'[v].per = req[r].per
        /\ entry'[v].status = "draft"
        BY <2>5, DraftFields
  <2> QED  BY <2>3, <2>4, <2>5, <2>6 DEF Stored
<1>2. CASE ApproveCommit(r) /\ \E w \in Entries : NewRow(w, ApprovalDraft(r))
  <2>1. NewRow(v, ApprovalDraft(r))  BY <1>2 DEF NewRow, Others
  <2>2. entry' # entry  OBVIOUS
  <2>3. ~Taken(req[r].per, req[r].no)  BY <1>2, <2>2 DEF ApproveCommit, Refused
  <2>4. req[r].at \in Numbering  BY <1>2 DEF ApproveCommit, At, Numbering
  <2>5. entry'[v] = ApprovalDraft(r) /\ \A w \in Entries \ {v} : entry'[w] = entry[w]
        BY <2>1 DEF NewRow, Others
  <2>6. /\ entry'[v].no = req[r].no /\ entry'[v].per = req[r].per
        /\ entry'[v].status = "draft"
        BY <2>5, DraftFields
  <2> QED  BY <2>3, <2>4, <2>5, <2>6 DEF Stored
<1>3. CASE InsertLine(r) /\ LineStored(r)
  BY <1>3 DEF LineStored, Others
<1>4. CASE Posting(r) \/ Voiding(r)
  BY <1>4 DEF Posting, Voiding, Voidable, Others, Stored
<1>5. CASE VoidCommit(r) /\ \E w \in Entries : Reversing(r, w)
  <2>1. Reversing(r, v)  BY <1>5 DEF Reversing, Voidable, Stored
  <2>2. entry' # entry  OBVIOUS
  <2>3. ~Taken(req[r].per, req[r].no)  BY <1>5, <2>2 DEF VoidCommit, Refused
  <2>4. req[r].at \in Numbering  BY <1>5 DEF VoidCommit, At, Numbering
  <2>5. /\ entry'[v].no = req[r].no /\ entry'[v].per = req[r].per
        /\ entry'[v].status = "posted"
        BY <2>1 DEF Reversing, Reversal
  <2>6. ASSUME NEW w \in Entries \ {v}
        PROVE  Stored(w) <=> entry'[w].status # "absent"
    <3>1. CASE w = req[r].ent
      <4>1. entry'[w] = [entry[w] EXCEPT !.status = "voided"] /\ Voidable(w)
            BY <2>1, <3>1 DEF Reversing
      <4>2. entry[w] \in EntryRow  BY DEF TypeInv, RowsOK
      <4> QED  BY <4>1, <4>2 DEF Voidable, Stored, EntryRow
    <3>2. CASE w # req[r].ent
          BY <2>1, <3>2 DEF Reversing, Stored
    <3> QED  BY <3>1, <3>2
  <2> QED  BY <2>3, <2>4, <2>5, <2>6
<1> QED  BY <1>1, <1>2, <1>3, <1>4, <1>5, RowEffects

LEMMA RowsOfPeriod ==
    ASSUME TypeInv, NEW r \in Requests, DocumentStep(r) \/ PeriodNext(r), NEW p
    PROVE  /\ EntriesOf(p)' = EntriesOf(p) \/ \E v \in Entries : Inserting(r, v, p)
           /\ \A e \in EntriesOf(p) : entry'[e].no = entry[e].no
<1>1. ASSUME NEW e \in Entries, Stored(e)
      PROVE  /\ entry'[e].status # "absent" /\ entry'[e].per = entry[e].per
             /\ entry'[e].no = entry[e].no
      BY <1>1, StoredRows
<1>2. CASE \A v \in Entries : ~Stored(v) => entry'[v].status = "absent"
  <2>1. EntriesOf(p)' = EntriesOf(p)  BY <1>1, <1>2 DEF EntriesOf, Stored
  <2> QED  BY <1>1, <2>1 DEF EntriesOf
<1>3. ASSUME NEW v \in Entries, ~Stored(v), entry'[v].status # "absent"
      PROVE  EntriesOf(p)' = EntriesOf(p) \/ Inserting(r, v, p)
  <2>1. entry'[v] # entry[v]  BY <1>3 DEF Stored
  <2>2. ~(LineStored(r) /\ v = req[r].ent)
    <3>1. entry[v] \in EntryRow  BY DEF TypeInv, RowsOK
    <3> QED  BY <1>3, <3>1 DEF LineStored, Stored, EntryRow
  <2>3. /\ entry'[v].no = req[r].no /\ entry'[v].per = req[r].per
        /\ req[r].at \in Numbering /\ ~Taken(req[r].per, req[r].no)
        /\ \A w \in Entries \ {v} : Stored(w) <=> entry'[w].status # "absent"
        BY <1>3, <2>1, <2>2, InsertedRow
  <2>4. CASE req[r].per # p
        BY <1>1, <1>3, <2>3, <2>4 DEF EntriesOf, Stored
  <2>5. CASE req[r].per = p
    <3>1. EntriesOf(p)' = EntriesOf(p) \cup {v}
          BY <1>1, <1>3, <2>3, <2>5 DEF EntriesOf, Stored
    <3> QED  BY <1>3, <2>3, <2>5, <3>1 DEF Inserting, FreeEntries
  <2> QED  BY <2>4, <2>5
<1> QED  BY <1>1, <1>2, <1>3 DEF EntriesOf

\* One more row: its number closes up to the others.
LEMMA DenseGrows ==
    ASSUME TypeInv, NumberInv, NEW r \in Requests,
           DocumentStep(r) \/ PeriodNext(r), NEW p \in Periods \cup {NONE},
           NEW v \in Entries, Inserting(r, v, p)
    PROVE  Dense(p)' /\ Cardinality(EntriesOf(p)') = Cardinality(EntriesOf(p)) + 1
<1> DEFINE c == Cardinality(EntriesOf(p))
           n == req[r].no
<1>1. c \in Nat /\ IsFiniteSet(EntriesOf(p))  BY EntriesFinite
<1>2. v \notin EntriesOf(p)  BY DEF Inserting, FreeEntries, EntriesOf
<1>3. EntriesOf(p)' = EntriesOf(p) \cup {v}  BY DEF Inserting
<1>4. Cardinality(EntriesOf(p)') = c + 1
  <2>1. Cardinality(EntriesOf(p) \cup {v}) = c + 1  BY <1>1, <1>2, FS_AddElement
  <2> QED  BY <1>3, <2>1
<1>5. n \in 1..c + 1
      BY DEF Inserting, NumberInv, NextVoucherNo
<1>6. {entry[e].no : e \in EntriesOf(p)} = 1..c  BY DEF NumberInv, Dense
<1>7. n \notin {entry[e].no : e \in EntriesOf(p)}  BY DEF Inserting, Taken
<1>8. n = c + 1  BY <1>1, <1>5, <1>6, <1>7
<1>9. {entry'[e].no : e \in EntriesOf(p)'} = {entry[e].no : e \in EntriesOf(p)} \cup {n}
  <2>1. \A e \in EntriesOf(p) : entry'[e].no = entry[e].no  BY RowsOfPeriod
  <2>2. entry'[v].no = n  BY DEF Inserting
  <2> QED  BY <1>3, <2>1, <2>2
<1>10. {entry'[e].no : e \in EntriesOf(p)'} = 1..c + 1
       BY <1>1, <1>6, <1>8, <1>9
<1> QED  BY <1>4, <1>10 DEF Dense

LEMMA DenseKept ==
    ASSUME TypeInv, NumberInv, NEW r \in Requests,
           DocumentStep(r) \/ PeriodNext(r), NEW p \in Periods \cup {NONE}
    PROVE  /\ Dense(p)'
           /\ Cardinality(EntriesOf(p)') >= Cardinality(EntriesOf(p))
<1>1. Cardinality(EntriesOf(p)) \in Nat  BY EntriesFinite
<1>2. CASE EntriesOf(p)' = EntriesOf(p)
  <2>1. \A e \in EntriesOf(p) : entry'[e].no = entry[e].no  BY RowsOfPeriod
  <2>2. {entry[e].no : e \in EntriesOf(p)} = 1..Cardinality(EntriesOf(p))
        BY DEF NumberInv, Dense
  <2>3. {entry'[e].no : e \in EntriesOf(p)'} = 1..Cardinality(EntriesOf(p)')
        BY <1>2, <2>1, <2>2
  <2> QED  BY <1>1, <1>2, <2>3 DEF Dense
<1>3. ASSUME NEW v \in Entries, Inserting(r, v, p)
      PROVE  /\ Dense(p)'
             /\ Cardinality(EntriesOf(p)') >= Cardinality(EntriesOf(p))
      BY <1>1, <1>3, DenseGrows
<1> QED  BY <1>2, <1>3, RowsOfPeriod

\* The rows of period p after the step.
RowsNext(p) == {e \in Entries : entry'[e].status # "absent" /\ entry'[e].per = p}

LEMMA NumbersKept ==
    ASSUME TypeInv, NumberInv, ExplicitNos = {}, FaultyReads = FALSE,
           NEW r \in Requests, DocumentStep(r) \/ PeriodNext(r)
    PROVE  \A q \in Requests : req'[q].at \in Numbering =>
              req'[q].no \in 1..Cardinality(RowsNext(req'[q].per)) + 1
<1> DEFINE Fits(local) == local.no \in 1..Cardinality(EntriesOf(local.per)) + 1
           Count(p) == Cardinality(EntriesOf(p))
<1>1. ASSUME NEW local \in RequestState, Fits(local)
      PROVE  local.no \in 1..Cardinality(RowsNext(local.per)) + 1
  <2> DEFINE p == local.per
  <2>0. EntriesOf(p)' = RowsNext(p)  BY DEF EntriesOf, RowsNext, Stored
  <2>1. p \in Periods \cup {NONE}  BY DEF RequestState
  <2>2. Cardinality(EntriesOf(p)) \in Nat  BY EntriesFinite
  <2>3. CASE EntriesOf(p)' = EntriesOf(p)  BY <1>1, <2>0, <2>3
  <2>4. ASSUME NEW v \in Entries, Inserting(r, v, p)
        PROVE  local.no \in 1..Cardinality(RowsNext(p)) + 1
    <3>1. Cardinality(EntriesOf(p)') = Cardinality(EntriesOf(p)) + 1
          BY <2>1, <2>4, DenseGrows
    <3> QED  BY <1>1, <2>0, <2>2, <3>1
  <2> QED  BY <2>3, <2>4, RowsOfPeriod
<1>2. ASSUME NEW q \in Requests, req'[q].at \in Numbering
      PROVE  Fits(req'[q])
  <2>1. req[q].at \in Numbering => Fits(req[q])  BY DEF NumberInv, NextVoucherNo
  <2>2. CASE q # r  BY <1>2, <2>1, <2>2, OthersKeep
  <2>3. ASSUME NEW p PROVE /\ NextVoucherNo(p) \in 1..Cardinality(EntriesOf(p)) + 1
                           /\ VoucherNoRead(p) = {NextVoucherNo(p)}
    <3>1. Cardinality(EntriesOf(p)) \in Nat  BY EntriesFinite
    <3> QED  BY <3>1 DEF NextVoucherNo, VoucherNoRead
  <2>4. CASE q = r /\ req'[r].no \in {NextVoucherNo(req'[r].per)} \cup ExplicitNos
        BY <2>3, <2>4
  <2>5. CASE q = r /\ req'[r].no \in VoucherNoRead(req'[r].per)
        BY <2>3, <2>5
  <2>6. CASE q = r /\ req[r].at \in Numbering /\ Remembers(r) /\ req'[r].no = req[r].no
        BY <2>1, <2>6 DEF Remembers
  <2>7. CASE q = r /\ \E e \in Entries : /\ Stored(e) /\ req'[r].per = entry[e].per
                                         /\ req'[r].no = entry[e].no
    <3>1. PICK e \in Entries : /\ Stored(e) /\ req'[r].per = entry[e].per
                               /\ req'[r].no = entry[e].no
          BY <2>7
    <3> DEFINE p == entry[e].per
    <3>2. p \in Periods \cup {NONE}  BY DEF TypeInv, RowsOK, EntryRow
    <3>3. {entry[d].no : d \in EntriesOf(p)} = 1..Cardinality(EntriesOf(p))
          BY <3>2 DEF NumberInv, Dense
    <3>4. e \in EntriesOf(p)  BY <3>1 DEF EntriesOf
    <3>5. entry[e].no \in 1..Cardinality(EntriesOf(p))  BY <3>3, <3>4
    <3>6. Cardinality(EntriesOf(p)) \in Nat  BY EntriesFinite
    <3>7. entry[e].no \in 1..Cardinality(EntriesOf(p)) + 1  BY <3>5, <3>6
    <3> QED  BY <2>7, <3>1, <3>7
  <2>8. InsertLine(r) /\ req'[r] = req[r] => req'[r].at \notin Numbering
        BY DEF InsertLine, At, Numbering
  <2> QED
      BY <1>2, <2>2, <2>4, <2>5, <2>6, <2>7, <2>8, LocalEffects
      DEF LocalEffect, Numbering, Tracked
<1>3. TypeInv'
  <2>1. CASE DocumentStep(r)
        BY <2>1, InvoiceTypes, JournalTypes, ReturnOK, SameRows
        DEF DocumentStep, Abort, TypeInv
  <2> QED  BY <2>1, PeriodTypes
<1>4. \A q \in Requests : req'[q] \in RequestState
      BY <1>3 DEF TypeInv, RequestsOK
<1>5. ASSUME NEW q \in Requests, req'[q].at \in Numbering
      PROVE  req'[q].no \in 1..Cardinality(RowsNext(req'[q].per)) + 1
  <2>1. req'[q] \in RequestState /\ Fits(req'[q])  BY <1>2, <1>4, <1>5
  <2> HIDE DEF Fits
  <2> QED  BY <1>1, <2>1
<1> QED  BY <1>5

LEMMA NumberStep ==
    ASSUME TypeInv, NumberInv, ExplicitNos = {}, FaultyReads = FALSE, [Next]_vars
    PROVE  NumberInv'
<1>1. ASSUME NEW r \in Requests, DocumentStep(r) \/ PeriodNext(r)
      PROVE  NumberInv'
  <2>1. ASSUME NEW p \in Periods \cup {NONE}
        PROVE  Dense(p)'
        BY <1>1, <2>1, DenseKept
  <2>2. ASSUME NEW q \in Requests, req'[q].at \in Numbering
        PROVE  req'[q].no \in 1..Cardinality(RowsNext(req'[q].per)) + 1
        BY <1>1, <2>2, NumbersKept
  <2>3. \A q \in Requests : req'[q].at \in Numbering =>
           req'[q].no \in 1..(NextVoucherNo(req[q].per))'
        BY <2>2 DEF NextVoucherNo, EntriesOf, Stored, RowsNext
  <2> QED  BY <2>1, <2>3 DEF NumberInv
<1>2. CASE UNCHANGED vars
  <2>1. ASSUME NEW p PROVE EntriesOf(p)' = EntriesOf(p)
        BY <1>2 DEF vars, EntriesOf, Stored
  <2> QED  BY <1>2, <2>1 DEF vars, NumberInv, Dense, NextVoucherNo
<1> QED  BY <1>1, <1>2, NextCases

\* NextVoucherNo and the unique key: as long as clients leave the choice of the
\* number to the service and no SELECT fails, the vouchers of every period are
\* numbered from 1 without a gap, however many requests count at the same time.
THEOREM VouchersDenseAlways ==
    ASSUME ExplicitNos = {}, FaultyReads = FALSE
    PROVE  Spec => []VouchersDense
<1>1. NumberInv => VouchersDense  BY DEF NumberInv, Dense, VouchersDense
<1> QED  BY <1>1, NumberInit, NumberStep, TypeInvariant, PTL DEF Spec

-----------------------------------------------------------------------------
(* What a close overlooks *)

InvoicesNoted(p) == Pending(p) \subseteq late
EntriesNoted(p)  == Drafts(p) \subseteq late

\* What the two counts of CloseCheck have found stays true until the period is
\* closed: it is "closing" all that time, so whatever enters it is noted as late.
CloseInv ==
    /\ \A p \in Periods, r \in Requests :
          /\ req[r].at = "close_drafts" /\ req[r].per = p /\ req[r].ok = TRUE
             => InvoicesNoted(p)
          /\ /\ req[r].at \in {"close_balance", "close_finish"}
             /\ req[r].per = p /\ req[r].ok = TRUE
             => InvoicesNoted(p) /\ EntriesNoted(p)
    /\ \A p \in Periods : Shut(p) => InvoicesNoted(p) /\ EntriesNoted(p)

\* An invoice comes under review by InvoiceInsert only, which notes it.
LEMMA NewPending ==
    ASSUME TypeInv, NEW r \in Requests, DocumentStep(r),
           NEW i \in Invoices, invoice'[i].status = "pending_review"
    PROVE  \/ invoice[i].status = "pending_review" /\ invoice'[i].per = invoice[i].per
           \/ NoteLate(i, invoice'[i].per)
<1>1. invoice \in [Invoices -> InvoiceRow]  BY DEF TypeInv, RowsOK
<1>2. CASE InvoiceInsert(r)
  <2>1. CASE invoice' = invoice  BY <2>1
  <2>2. ASSUME NEW j, NEW p, NoteLate(j, p), NEW sound,
               invoice' = [invoice EXCEPT ![j] = [status |-> "pending_review",
                                                  per |-> p, sound |-> sound]]
        PROVE  \/ invoice[i].status = "pending_review" /\ invoice'[i].per = invoice[i].per
               \/ NoteLate(i, invoice'[i].per)
    <3>1. CASE i = j
      <4>1. invoice'[i].per = p  BY <1>1, <2>2, <3>1
      <4> QED  BY <2>2, <3>1, <4>1
    <3>2. CASE i # j
      <4>1. invoice'[i] = invoice[i]  BY <1>1, <2>2, <3>2
      <4> QED  BY <4>1
    <3> QED  BY <3>1, <3>2
  <2> QED  BY <1>2, <2>1, <2>2 DEF InvoiceInsert
<1>3. CASE ApproveCommit(r) \/ RejectInvoice(r) \/ PostCommit(r)
  <2>1. \/ invoice' = invoice
        \/ \E j \in Invoices \cup {NONE}, s \in {"approved", "rejected", "posted"} :
              invoice' = [invoice EXCEPT ![j].status = s]
        BY <1>3, LocalOfRequest DEF ApproveCommit, RejectInvoice, PostCommit, RequestState
  <2>2. ASSUME NEW j, NEW s \in {"approved", "rejected", "posted"},
               invoice' = [invoice EXCEPT ![j].status = s]
        PROVE  invoice'[i] = invoice[i]
        BY <1>1, <2>2 DEF InvoiceRow
  <2> QED  BY <2>1, <2>2
<1>4. CASE invoice' = invoice
  BY <1>4
<1> QED
    BY <1>2, <1>3, <1>4
    DEF DocumentStep, InvoiceNext, JournalNext, Abort, InvoiceCheck, InvoiceFind,
        ImportFind, ApproveGet, ApproveCheck, ApproveBegin, JournalNumber,
        JournalCheck, InsertHeader, InsertLine, PostGet, PostCheck, VoidGet,
        VoidCheck, VoidSimple, VoidNumber, VoidCommit, UpdateGet, UpdateVoid

\* A draft appears by InsertHeader and ApproveCommit only, which note it.
LEMMA NewDraft ==
    ASSUME TypeInv, NEW r \in Requests, DocumentStep(r),
           NEW e \in Entries, entry'[e].status = "draft"
    PROVE  \/ entry[e].status = "draft" /\ entry'[e].per = entry[e].per
           \/ NoteLate(e, entry'[e].per)
<1>1. entry \in [Entries -> EntryRow]  BY DEF TypeInv, RowsOK
<1>2. CASE Stored(e)
  <2>1. entry'[e].per = entry[e].per  BY <1>2, StoredRows
  <2>2. entry'[e].status = entry[e].status \/ entry'[e].status # "draft"
    <3>1. entry[e] \in EntryRow /\ e \notin FreeEntries
          BY <1>1, <1>2 DEF FreeEntries
    <3> QED
        BY <1>2, <3>1, RowEffects
        DEF NewRow, Others, LineStored, Posting, Voiding, Reversing, EntryRow
  <2> QED  BY <2>1, <2>2
<1>3. CASE ~Stored(e)
  <2>1. entry'[e] # entry[e]  BY <1>3 DEF Stored
  <2>2. ASSUME NEW v \in FreeEntries, NEW row, row.per = req[r].per,
               entry' = [entry EXCEPT ![v] = row], NoteLate(v, req[r].per)
        PROVE  NoteLate(e, entry'[e].per)
    <3>1. v = e  BY <1>1, <2>1, <2>2
    <3>2. entry'[e].per = req[r].per  BY <1>1, <2>2, <3>1
    <3> QED  BY <2>2, <3>1, <3>2
  <2>3. CASE InsertHeader(r)
    <3>1. PICK v \in FreeEntries :
             entry' = [entry EXCEPT ![v] = Header(r)] /\ NoteLate(v, req[r].per)
          BY <2>1, <2>3 DEF InsertHeader, Header
    <3> QED  BY <2>2, <3>1, DraftFields
  <2>4. CASE ApproveCommit(r)
    <3>1. PICK v \in FreeEntries :
             entry' = [entry EXCEPT ![v] = ApprovalDraft(r)] /\ NoteLate(v, req[r].per)
          BY <2>1, <2>4 DEF ApproveCommit, ApprovalDraft
    <3> QED  BY <2>2, <3>1, DraftFields
  <2>5. CASE LineStored(r) /\ InsertLine(r)
    <3>1. entry[e] \in EntryRow  BY <1>1
    <3>2. entry'[e].status = entry[e].status
          BY <2>5, <3>1 DEF LineStored, Others, EntryRow
    <3> QED  BY <1>3, <3>2 DEF Stored
  <2>6. CASE Posting(r) \/ Voiding(r)
        BY <1>3, <2>1, <2>6 DEF Posting, Voiding, Voidable, Others, Stored
  <2>7. CASE \E v \in Entries : Reversing(r, v)
    <3>1. PICK v \in Entries : Reversing(r, v)  BY <2>7
    <3>2. e = v \/ e = req[r].ent  BY <2>1, <3>1 DEF Reversing
    <3>3. e # req[r].ent  BY <1>3, <3>1 DEF Reversing, Voidable, Stored
    <3>4. entry'[e] = Reversal(r)  BY <3>1, <3>2, <3>3 DEF Reversing
    <3> QED  BY <3>4 DEF Reversal
  <2> QED  BY <2>1, <2>3, <2>4, <2>5, <2>6, <2>7, RowEffects
<1> QED  BY <1>2, <1>3

\* What was late stays so while the period is being closed or is closed.
LEMMA DocumentsNoted ==
    ASSUME TypeInv, NEW r \in Requests, DocumentStep(r), NEW p \in Periods,
           period[p] \notin {"absent", "open"}
    PROVE  /\ InvoicesNoted(p) => InvoicesNoted(p)'
           /\ EntriesNoted(p) => EntriesNoted(p)'
<1>1. late \subseteq late'
  BY DEF DocumentStep, InvoiceNext, JournalNext, Abort, InvoiceCheck, InvoiceFind,
         ImportFind, InvoiceInsert, ApproveGet, ApproveCheck, ApproveBegin,
         ApproveCommit, RejectInvoice, JournalNumber, JournalCheck, InsertHeader,
         InsertLine, PostGet, PostCheck, PostCommit, VoidGet, VoidCheck, VoidSimple,
         VoidNumber, VoidCommit, UpdateGet, UpdateVoid, NoteLate
<1>2. ASSUME NEW doc, NoteLate(doc, p) PROVE doc \in late'
      BY <1>2 DEF NoteLate
<1>3. ASSUME NEW i \in Invoices, invoice'[i].status = "pending_review",
             invoice'[i].per = p, InvoicesNoted(p)
      PROVE  i \in late'
      BY <1>1, <1>2, <1>3, NewPending DEF InvoicesNoted, Pending
<1>4. ASSUME NEW e \in Entries, entry'[e].status = "draft",
             entry'[e].per = p, EntriesNoted(p)
      PROVE  e \in late'
      BY <1>1, <1>2, <1>4, NewDraft DEF EntriesNoted, Drafts
<1> QED  BY <1>3, <1>4 DEF InvoicesNoted, EntriesNoted, Pending, Drafts

\* A step of a period request leaves the documents alone; only the beginning of a
\* close forgets what was late, for a period that is open.
LEMMA PeriodStepNotes ==
    ASSUME TypeInv, NEW r \in Requests, PeriodNext(r), NEW p \in Periods,
           \/ late' = late
           \/ \E b \in Periods \ {p} : late' = late \ DocumentsOf(b)
    PROVE  /\ InvoicesNoted(p) => InvoicesNoted(p)'
           /\ EntriesNoted(p) => EntriesNoted(p)'
<1>1. invoice' = invoice /\ entry' = entry
  BY DEF PeriodNext, CloseBegin, CloseInvoices, CloseDrafts, CloseBalance,
         CloseFinish, ReopenPeriod, LockPeriod
<1>2. ASSUME NEW b \in Periods \ {p}
      PROVE  /\ Pending(p) \cap DocumentsOf(b) = {}
             /\ Drafts(p) \cap DocumentsOf(b) = {}
      BY LedgerAssumption
      DEF LedgerAssumption, Pending, Drafts, DocumentsOf, EntriesOf
<1>3. Pending(p)' = Pending(p) /\ Drafts(p)' = Drafts(p)
      BY <1>1 DEF Pending, Drafts
<1> QED  BY <1>2, <1>3 DEF InvoicesNoted, EntriesNoted

LEMMA CloseStep ==
    ASSUME TypeInv, OneCloser, CloseInv, FaultyReads = FALSE, [Next]_vars
    PROVE  CloseInv'
<1> DEFINE Counted(q, p) ==
              /\ req[q].at = "close_drafts" /\ req[q].per = p /\ req[q].ok = TRUE
                 => InvoicesNoted(p)
              /\ /\ req[q].at \in {"close_balance", "close_finish"}
                 /\ req[q].per = p /\ req[q].ok = TRUE
                 => InvoicesNoted(p) /\ EntriesNoted(p)
           Kept(p) == Shut(p) => InvoicesNoted(p) /\ EntriesNoted(p)
<1>1. ASSUME NEW r \in Requests, DocumentStep(r) PROVE CloseInv'
  <2>1. ASSUME NEW p \in Periods PROVE Kept(p)'
    <3>1. period' = period  BY <1>1, DocumentStepPeriod
    <3> QED  BY <1>1, <2>1, <3>1, DocumentsNoted DEF CloseInv, Shut
  <2>2. ASSUME NEW p \in Periods, NEW q \in Requests PROVE Counted(q, p)'
    <3>1. CASE q = r
      <4>1. req'[r].at \notin Closing  BY <1>1, DocumentStepOutcome
      <4> QED  BY <3>1, <4>1 DEF Closing
    <3>2. CASE q # r
      <4>1. req'[q] = req[q]  BY <1>1, <3>2, DocumentStepOutcome
      <4>2. req[q].at \in Closing /\ req[q].per = p => period[p] = "closing"
            BY DEF OneCloser
      <4> QED  BY <1>1, <2>2, <4>1, <4>2, DocumentsNoted DEF CloseInv, Closing
    <3> QED  BY <3>1, <3>2
  <2> QED  BY <2>1, <2>2 DEF CloseInv
<1>2. ASSUME NEW r \in Requests, PeriodNext(r) PROVE CloseInv'
  <2>1. \A q \in Requests \ {r} : req'[q] = req[q]  BY <1>2, PeriodSteps
  <2>2. req[r] \in RequestState  BY LocalOfRequest
  <2>3. CASE CloseBegin(r)
    <3>1. PICK b \in Periods :
             /\ period[b] = "open" /\ UpdateStatus(b, "closing")
             /\ late' = late \ DocumentsOf(b)
             /\ Start(r, [Idle EXCEPT !.at = "close_invoices", !.per = b])
          BY <2>3 DEF CloseBegin, Closable
    <3>2. req'[r].at = "close_invoices"
      <4>1. req'[r] = [Idle EXCEPT !.at = "close_invoices", !.per = b]
            BY <3>1, StartOutcome DEF Outcome
      <4> QED  BY <4>1 DEF Idle
    <3>3. ASSUME NEW p \in Periods PROVE Kept(p)'
      <4>1. CASE p = b
            BY <3>1, <4>1 DEF UpdateStatus, TypeInv, RowsOK, Shut
      <4>2. CASE p # b
        <5>1. period'[p] = period[p]
              BY <3>1, <4>2 DEF UpdateStatus, TypeInv, RowsOK
        <5>2. \E c \in Periods \ {p} : late' = late \ DocumentsOf(c)
              BY <3>1, <4>2
        <5>3. /\ InvoicesNoted(p) => InvoicesNoted(p)'
              /\ EntriesNoted(p) => EntriesNoted(p)'
              BY <1>2, <5>2, PeriodStepNotes
        <5> QED  BY <5>1, <5>3 DEF CloseInv, Shut
      <4> QED  BY <4>1, <4>2
    <3>4. ASSUME NEW p \in Periods, NEW q \in Requests PROVE Counted(q, p)'
      <4>1. CASE q = r  BY <3>2, <4>1
      <4>2. CASE q # r /\ req[q].at \in Closing /\ req[q].per = p
        <5>1. period[p] = "closing"  BY <4>2 DEF OneCloser
        <5>2. \E c \in Periods \ {p} : late' = late \ DocumentsOf(c)
              BY <3>1, <5>1
        <5>3. /\ InvoicesNoted(p) => InvoicesNoted(p)'
              /\ EntriesNoted(p) => EntriesNoted(p)'
              BY <1>2, <5>2, PeriodStepNotes
        <5> QED  BY <2>1, <4>2, <5>3 DEF CloseInv
      <4>3. CASE q # r /\ ~(req[q].at \in Closing /\ req[q].per = p)
            BY <2>1, <4>3 DEF Closing
      <4> QED  BY <4>1, <4>2, <4>3
    <3> QED  BY <3>3, <3>4 DEF CloseInv
  <2>4. CASE ~CloseBegin(r)
    <3>1. late' = late
          BY <1>2, <2>4 DEF PeriodNext, CloseInvoices, CloseDrafts, CloseBalance,
                            CloseFinish, ReopenPeriod, LockPeriod
    <3>2. ASSUME NEW p \in Periods
          PROVE  /\ InvoicesNoted(p) => InvoicesNoted(p)'
                 /\ EntriesNoted(p) => EntriesNoted(p)'
          BY <1>2, <3>1, PeriodStepNotes
    <3>3. ASSUME NEW p \in Periods, NEW q \in Requests \ {r} PROVE Counted(q, p)'
          BY <2>1, <3>2 DEF CloseInv
    <3>4. ASSUME NEW p \in Periods PROVE Counted(r, p)' /\ Kept(p)'
      <4>1. CASE CloseInvoices(r)
        <5>1. PICK none \in CountIsZero(Pending(req[r].per)) :
                 Continue(r, [req[r] EXCEPT !.at = "close_drafts", !.ok = none])
              BY <4>1 DEF CloseInvoices
        <5>2. none = (Pending(req[r].per) = {})  BY DEF CountIsZero
        <5>3. req'[r] = [req[r] EXCEPT !.at = "close_drafts", !.ok = none]
              BY <5>1, ContinueOutcome DEF Outcome
        <5>4. /\ req'[r].at = "close_drafts" /\ req'[r].per = req[r].per
              /\ req'[r].ok = none
              BY <2>2, <5>3 DEF RequestState
        <5>5. Counted(r, p)'
              BY <3>2, <5>2, <5>4 DEF InvoicesNoted
        <5>6. period' = period  BY <4>1 DEF CloseInvoices
        <5> QED  BY <3>2, <5>5, <5>6 DEF CloseInv, Shut
      <4>2. CASE CloseDrafts(r)
        <5>1. PICK none \in CountIsZero(Drafts(req[r].per)) :
                 Continue(r, [req[r] EXCEPT !.at = "close_balance",
                                            !.ok = req[r].ok /\ none])
              BY <4>2 DEF CloseDrafts
        <5>2. none = (Drafts(req[r].per) = {})  BY DEF CountIsZero
        <5>3. req'[r] = [req[r] EXCEPT !.at = "close_balance",
                                       !.ok = req[r].ok /\ none]
              BY <5>1, ContinueOutcome DEF Outcome
        <5>4. /\ req'[r].at = "close_balance" /\ req'[r].per = req[r].per
              /\ req'[r].ok = (req[r].ok /\ none)
              BY <2>2, <5>3 DEF RequestState
        <5>5. req[r].at = "close_drafts"  BY <4>2 DEF CloseDrafts, At
        <5>6. req'[r].ok = TRUE => req[r].ok = TRUE /\ Drafts(req[r].per) = {}
          <6>1. req[r].ok \in BOOLEAN  BY <2>2 DEF RequestState
          <6> QED  BY <5>2, <5>4, <6>1
        <5>7. req[r].per = p /\ req'[r].ok = TRUE
              => InvoicesNoted(p) /\ EntriesNoted(p)
              BY <5>5, <5>6 DEF CloseInv, EntriesNoted
        <5>8. Counted(r, p)'  BY <3>2, <5>4, <5>7
        <5>9. period' = period  BY <4>2 DEF CloseDrafts
        <5> QED  BY <3>2, <5>8, <5>9 DEF CloseInv, Shut
      <4>3. CASE CloseBalance(r)
        <5>1. PICK read \in BOOLEAN :
                 Continue(r, [req[r] EXCEPT !.at = "close_finish",
                                 !.ok = req[r].ok /\ read /\ TrialBalanced(req[r].per)])
              BY <4>3 DEF CloseBalance
        <5>2. req'[r] = [req[r] EXCEPT !.at = "close_finish",
                            !.ok = req[r].ok /\ read /\ TrialBalanced(req[r].per)]
              BY <5>1, ContinueOutcome DEF Outcome
        <5>3. /\ req'[r].at = "close_finish" /\ req'[r].per = req[r].per
              /\ req'[r].ok = (req[r].ok /\ read /\ TrialBalanced(req[r].per))
              BY <2>2, <5>2 DEF RequestState
        <5>4. req[r].at = "close_balance"  BY <4>3 DEF CloseBalance, At
        <5>5. req'[r].ok = TRUE => req[r].ok = TRUE
          <6>1. req[r].ok \in BOOLEAN  BY <2>2 DEF RequestState
          <6> QED  BY <5>3, <6>1
        <5>6. req[r].per = p /\ req'[r].ok = TRUE
              => InvoicesNoted(p) /\ EntriesNoted(p)
              BY <5>4, <5>5 DEF CloseInv
        <5>7. Counted(r, p)'  BY <3>2, <5>3, <5>6
        <5>8. period' = period  BY <4>3 DEF CloseBalance
        <5> QED  BY <3>2, <5>7, <5>8 DEF CloseInv, Shut
      <4>4. CASE CloseFinish(r)
        <5>1. req'[r].at = "idle"
          <6>1. req'[r] = Idle  BY <4>4 DEF CloseFinish, TypeInv, RequestsOK
          <6> QED  BY <6>1 DEF Idle
        <5>2. CASE period' = period
              BY <3>2, <5>1, <5>2 DEF CloseInv, Shut
        <5>3. CASE UpdateStatus(req[r].per, "open")
              BY <3>2, <5>1, <5>3 DEF UpdateStatus, TypeInv, RowsOK, CloseInv, Shut
        <5>4. CASE UpdateStatus(req[r].per, "closed") /\ req[r].ok = TRUE
          <6>1. req[r].at = "close_finish"  BY <4>4 DEF CloseFinish, At
          <6>2. req[r].per = p => InvoicesNoted(p) /\ EntriesNoted(p)
                BY <5>4, <6>1 DEF CloseInv
          <6>3. req[r].per # p => period'[p] = period[p]
                BY <5>4 DEF UpdateStatus, TypeInv, RowsOK
          <6> QED  BY <3>2, <5>1, <6>2, <6>3 DEF CloseInv, Shut
        <5>5. req[r].ok \in BOOLEAN  BY <2>2 DEF RequestState
        <5> QED  BY <4>4, <5>2, <5>3, <5>4, <5>5 DEF CloseFinish, RollBack
      <4>5. CASE ReopenPeriod(r) \/ LockPeriod(r)
        <5>1. PICK b \in Periods, to \in {"open", "locked"} :
                 period[b] = "closed" /\ UpdateStatus(b, to) /\ Start(r, Idle)
              BY <4>5 DEF ReopenPeriod, LockPeriod
        <5>2. req'[r].at = "idle"
          <6>1. req'[r] = Idle  BY <5>1, StartOutcome DEF Outcome
          <6> QED  BY <6>1 DEF Idle
        <5>3. Shut(p)' => Shut(p)
              BY <5>1 DEF UpdateStatus, TypeInv, RowsOK, Shut
        <5> QED  BY <3>2, <5>2, <5>3 DEF CloseInv
      <4> QED  BY <1>2, <2>4, <4>1, <4>2, <4>3, <4>4, <4>5 DEF PeriodNext
    <3> QED  BY <3>3, <3>4 DEF CloseInv
  <2> QED  BY <2>3, <2>4
<1>3. CASE UNCHANGED vars
  BY <1>3 DEF vars, CloseInv, Shut, InvoicesNoted, EntriesNoted, Pending, Drafts
<1> QED  BY <1>1, <1>2, <1>3, NextCases

\* CloseCheck: when no SELECT fails, an invoice under review or a draft entry in
\* a closed or locked period was inserted after its closing began.
THEOREM CloseOverlooksNothingAlways ==
    ASSUME FaultyReads = FALSE
    PROVE  Spec => []CloseOverlooksNothing
<1>1. Init => CloseInv
      BY DEF Init, LedgerInit, CloseInv, Shut, Idle
<1>2. CloseInv => CloseOverlooksNothing
      BY DEF CloseInv, CloseOverlooksNothing, InvoicesNoted, EntriesNoted
<1>3. TypeInv /\ OneCloser /\ CloseInv /\ [Next]_vars => CloseInv'
      BY CloseStep
<1> QED  BY <1>1, <1>2, <1>3, TypeInvariant, OneCloserAlways, PTL DEF Spec


-----------------------------------------------------------------------------
(* What a request knows when it reverses a posted entry *)

\* A request that goes for a reversal has read a posted entry; that entry can
\* only have been voided since.
ReversingOK ==
    \A r \in Requests :
        /\ req[r].at \in {"void_check", "void_number", "void_commit"}
           /\ req[r].seen = "posted" =>
              /\ req[r].ent \in Entries
              /\ entry[req[r].ent].status \in {"posted", "voided"}
        /\ req[r].at \in {"void_number", "void_commit"} => req[r].seen = "posted"

\* A posted entry stays posted until it is voided, a voided one stays voided.
LEMMA PostedStays ==
    ASSUME TypeInv, NEW r \in Requests, DocumentStep(r) \/ PeriodNext(r),
           NEW e \in Entries, entry[e].status \in {"posted", "voided"}
    PROVE  entry'[e].status \in {"posted", "voided"}
<1>1. entry[e] \in EntryRow /\ e \notin FreeEntries
      BY DEF TypeInv, RowsOK, FreeEntries, Stored
<1>2. CASE LineStored(r)
  <2>1. \/ entry'[e] = entry[e]
        \/ entry'[e] = [entry[e] EXCEPT !.lines = entry[e].lines + 1]
        BY <1>2 DEF LineStored, Others
  <2> QED  BY <1>1, <2>1 DEF EntryRow
<1>3. CASE Posting(r)
  BY <1>3 DEF Posting, Others
<1>4. CASE Voiding(r) \/ \E v \in Entries : Reversing(r, v)
  <2>1. \/ entry'[e] = entry[e]
        \/ entry'[e] = [entry[e] EXCEPT !.status = "voided"]
        BY <1>1, <1>4 DEF Voiding, Reversing, Others
  <2> QED  BY <1>1, <2>1 DEF EntryRow
<1>5. CASE entry' = entry \/ \E v \in Entries : \E row : NewRow(v, row)
  BY <1>1, <1>5 DEF NewRow, Others
<1> QED  BY <1>2, <1>3, <1>4, <1>5, RowEffects

LEMMA ReversingStep ==
    ASSUME TypeInv, ReversingOK, [Next]_vars
    PROVE  ReversingOK'
<1> DEFINE Known(local) == /\ local.ent \in Entries
                           /\ entry[local.ent].status \in {"posted", "voided"}
           Voids == {"void_check", "void_number", "void_commit"}
<1>1. ASSUME NEW r \in Requests, DocumentStep(r) \/ PeriodNext(r),
             NEW q \in Requests
      PROVE  /\ req'[q].at \in Voids /\ req'[q].seen = "posted" => Known(req'[q])
             /\ req'[q].at \in {"void_number", "void_commit"} => req'[q].seen = "posted"
  <2>1. CASE q # r
    <3>1. req'[q] = req[q]  BY <1>1, <2>1, DocumentStepOutcome, PeriodSteps
    <3> QED  BY <3>1 DEF ReversingOK
  <2>2. CASE q = r /\ req'[r].at \in {"void_number", "void_commit"}
    <3>1. /\ Remembers(r)
          /\ \/ req[r].at = "void_check" /\ req[r].seen = "posted"
             \/ req[r].at = "void_number"
          BY <1>1, <2>2, LocalEffects DEF LocalEffect, Tracked, InsertLine, At
    <3> QED  BY <2>2, <3>1 DEF ReversingOK, Remembers
  <2>3. CASE q = r /\ req'[r].at = "void_check" /\ req'[r].seen = "posted"
    <3>1. \E e \in Entries : Stored(e) /\ HasRead(r, e)
          BY <1>1, <2>3, LocalEffects DEF LocalEffect, Tracked, InsertLine, At
    <3> QED  BY <2>3, <3>1 DEF HasRead
  <2> QED  BY <2>1, <2>2, <2>3
<1>2. ASSUME NEW r \in Requests, DocumentStep(r) \/ PeriodNext(r)
      PROVE  ReversingOK'
      BY <1>1, <1>2, PostedStays DEF ReversingOK
<1>3. CASE UNCHANGED vars
      BY <1>3 DEF vars, ReversingOK
<1> QED  BY <1>2, <1>3, NextCases

-----------------------------------------------------------------------------
(* Steps of the columns the contract sees *)

LEMMA InvoiceMoves ==
    ASSUME NEW i \in Invoices, NEW from, NEW to, invoice[i].status = from,
           invoice'[i].status = to,
           \A j \in Invoices \ {i} : invoice'[j].status = invoice[j].status
    PROVE  /\ [j \in Invoices |-> invoice[j].status][i] = from
           /\ [j \in Invoices |-> invoice'[j].status]
              = [[j \in Invoices |-> invoice[j].status] EXCEPT ![i] = to]
  OBVIOUS

LEMMA EntryMoves ==
    ASSUME NEW e \in Entries, NEW from, NEW to, entry[e].status = from,
           entry'[e].status = to,
           \A d \in Entries \ {e} : entry'[d].status = entry[d].status
    PROVE  /\ [d \in Entries |-> entry[d].status][e] = from
           /\ [d \in Entries |-> entry'[d].status]
              = [[d \in Entries |-> entry[d].status] EXCEPT ![e] = to]
  OBVIOUS

SameInvoices == \A i \in Invoices : invoice'[i].status = invoice[i].status
SameEntries  == \A e \in Entries : entry'[e].status = entry[e].status

LEMMA SameColumns ==
    /\ SameInvoices => [i \in Invoices |-> invoice'[i].status]
                       = [i \in Invoices |-> invoice[i].status]
    /\ SameEntries => [e \in Entries |-> entry'[e].status]
                      = [e \in Entries |-> entry[e].status]
  BY DEF SameInvoices, SameEntries

LEMMA DraftMove ==
    ASSUME NEW v \in Entries, NEW row, NewRow(v, row), row.status = "draft"
    PROVE  Contract!DraftEntry
<1>1. entry[v].status = "absent" /\ entry'[v].status = "draft"
      BY DEF NewRow, FreeEntries, Stored
<1>2. \A d \in Entries \ {v} : entry'[d].status = entry[d].status
      BY DEF NewRow, Others
<1> QED  BY <1>1, <1>2, EntryMoves DEF Contract!DraftEntry, Contract!Move

LEMMA VoidMove ==
    ASSUME TypeInv, NEW r \in Requests, Voiding(r)
    PROVE  SameEntries \/ Contract!VoidEntry
<1> DEFINE e == req[r].ent
<1>1. CASE e \notin Entries
      BY <1>1 DEF Voiding, Others, SameEntries
<1>2. CASE e \in Entries
  <2>1. entry[e] \in EntryRow  BY <1>2 DEF TypeInv, RowsOK
  <2>2. entry[e].status \in {"draft", "posted"} /\ entry'[e].status = "voided"
        BY <1>2, <2>1 DEF Voiding, Voidable, EntryRow
  <2>3. \A d \in Entries \ {e} : entry'[d].status = entry[d].status
        BY DEF Voiding, Others
  <2> QED  BY <1>2, <2>2, <2>3, EntryMoves DEF Contract!VoidEntry, Contract!Move
<1> QED  BY <1>1, <1>2

LEMMA PostMove ==
    ASSUME TypeInv, PostingInv, NEW r \in Requests, PostCommit(r), Posting(r)
    PROVE  Contract!PostEntry
<1> DEFINE e == req[r].ent
<1>1. e \in Entries
      BY DEF PostCommit, At, PostingInv, ReadOK, PostSteps
<1>2. entry[e] \in EntryRow  BY <1>1 DEF TypeInv, RowsOK
<1>3. entry[e].status = "draft" /\ entry'[e].status = "posted"
      BY <1>1, <1>2 DEF Posting, EntryRow
<1>4. \A d \in Entries \ {e} : entry'[d].status = entry[d].status
      BY DEF Posting, Others
<1> QED  BY <1>1, <1>3, <1>4, EntryMoves DEF Contract!PostEntry, Contract!Move

\* VoidJournalEntry reverses what it read as posted: VoidTx would take a draft too,
\* but no entry goes back to being one.
LEMMA ReverseMove ==
    ASSUME TypeInv, ReversingOK, NEW r \in Requests, VoidCommit(r),
           NEW v \in Entries, Reversing(r, v)
    PROVE  Contract!ReverseEntry
<1> DEFINE e == req[r].ent
           column == [d \in Entries |-> entry[d].status]
<1>1. e \in Entries /\ entry[e].status = "posted"
      BY DEF VoidCommit, At, ReversingOK, Reversing, Voidable
<1>2. entry[v].status = "absent" /\ entry'[v].status = "posted"
      BY DEF Reversing, Reversal, FreeEntries, Stored
<1>3. entry'[e].status = "voided"
  <2>1. entry[e] \in EntryRow  BY <1>1 DEF TypeInv, RowsOK
  <2> QED  BY <1>1, <2>1 DEF Reversing, EntryRow
<1>4. \A d \in Entries \ {v, e} : entry'[d].status = entry[d].status
      BY DEF Reversing
<1>5. [d \in Entries |-> entry'[d].status]
      = [column EXCEPT ![e] = "voided", ![v] = "posted"]
      BY <1>1, <1>2, <1>3, <1>4
<1>6. column[e] = "posted" /\ column[v] = "absent"  BY <1>1, <1>2
<1> QED  BY <1>1, <1>5, <1>6 DEF Contract!ReverseEntry

-----------------------------------------------------------------------------
(* The step simulation *)

LEMMA EntrySteps ==
    ASSUME TypeInv, PostingInv, ReversingOK, NEW r \in Requests, DocumentStep(r),
           ~ApproveCommit(r), ~PostCommit(r)
    PROVE  SameEntries \/ Contract!DraftEntry \/ Contract!VoidEntry
           \/ Contract!ReverseEntry
<1>1. CASE entry' = entry  BY <1>1 DEF SameEntries
<1>2. CASE \E v \in Entries : NewRow(v, Header(r))
      BY <1>2, DraftMove, DraftFields
<1>3. CASE LineStored(r)
  <2>1. entry \in [Entries -> EntryRow]  BY DEF TypeInv, RowsOK
  <2>2. ASSUME NEW e \in Entries PROVE entry'[e].status = entry[e].status
    <3>1. \/ entry'[e] = entry[e]
          \/ entry'[e] = [entry[e] EXCEPT !.lines = entry[e].lines + 1]
          BY <1>3 DEF LineStored, Others
    <3> QED  BY <2>1, <3>1 DEF EntryRow
  <2> QED  BY <2>2 DEF SameEntries
<1>4. CASE Voiding(r)  BY <1>4, VoidMove
<1>5. CASE VoidCommit(r) /\ \E v \in Entries : Reversing(r, v)
      BY <1>5, ReverseMove
<1> QED  BY <1>1, <1>2, <1>3, <1>4, <1>5, RowEffects

LEMMA ApproveStep ==
    ASSUME TypeInv, ApprovalInv, NEW r \in Requests, ApproveCommit(r)
    PROVE  (SameInvoices /\ SameEntries) \/ Contract!ApproveInvoice
<1> DEFINE i == req[r].inv
<1>1. CASE UNCHANGED <<invoice, entry>>
      BY <1>1 DEF SameInvoices, SameEntries
<1>2. ASSUME NEW v \in FreeEntries, entry' = [entry EXCEPT ![v] = ApprovalDraft(r)],
             invoice' = [invoice EXCEPT ![i].status = "approved"]
      PROVE  Contract!ApproveInvoice
  <2>1. i \in Invoices /\ invoice[i].status = "pending_review"
        BY DEF ApproveCommit, At, ApprovalInv, ApprovingOK, ApproveSteps
  <2>2. invoice \in [Invoices -> InvoiceRow]  BY DEF TypeInv, RowsOK
  <2>3. /\ invoice'[i].status = "approved"
        /\ \A j \in Invoices \ {i} : invoice'[j].status = invoice[j].status
        BY <1>2, <2>1, <2>2 DEF InvoiceRow
  <2>4. \E j \in Invoices : Contract!Move([k \in Invoices |-> invoice[k].status], j,
                                          "pending_review", "approved")
        BY <2>1, <2>3, InvoiceMoves DEF Contract!Move
  <2>5. v \in Entries /\ NewRow(v, ApprovalDraft(r))
        BY <1>2 DEF TypeInv, RowsOK, NewRow, Others, FreeEntries
  <2>6. Contract!DraftEntry  BY <2>5, DraftMove, DraftFields
  <2> QED
      BY <2>4, <2>6 DEF Contract!ApproveInvoice, Contract!DraftEntry, Contract!Move
<1> QED  BY <1>1, <1>2 DEF ApproveCommit, ApprovalDraft

LEMMA PostStep ==
    ASSUME TypeInv, PostingInv, NEW r \in Requests, PostCommit(r)
    PROVE  \/ SameInvoices /\ SameEntries
           \/ SameInvoices /\ Contract!PostEntry
           \/ Contract!PostInvoice
<1> DEFINE i == req[r].src
<1>1. CASE UNCHANGED <<invoice, entry>>
      BY <1>1 DEF SameInvoices, SameEntries
<1>2. CASE ~UNCHANGED <<invoice, entry>>
  <2>1. entry[req[r].ent].status = "draft"  BY <1>2 DEF PostCommit
  <2>2. Posting(r)
        BY <2>1 DEF TypeInv, RowsOK, PostCommit, Posting, Others
  <2>3. Contract!PostEntry  BY <2>2, PostMove
  <2>4. CASE invoice' = invoice  BY <2>3, <2>4 DEF SameInvoices
  <2>5. CASE /\ i # NONE /\ invoice[i].status = "approved"
             /\ invoice' = [invoice EXCEPT ![i].status = "posted"]
    <3>1. i \in Invoices
      <4>1. req[r] \in RequestState  BY LocalOfRequest
      <4> QED  BY <2>5, <4>1 DEF RequestState
    <3>2. invoice \in [Invoices -> InvoiceRow]  BY DEF TypeInv, RowsOK
    <3>3. /\ invoice'[i].status = "posted"
          /\ \A j \in Invoices \ {i} : invoice'[j].status = invoice[j].status
          BY <2>5, <3>1, <3>2 DEF InvoiceRow
    <3>4. \E j \in Invoices : Contract!Move([k \in Invoices |-> invoice[k].status],
                                            j, "approved", "posted")
          BY <2>5, <3>1, <3>3, InvoiceMoves DEF Contract!Move
    <3> QED  BY <2>3, <3>4 DEF Contract!PostInvoice, Contract!Move
  <2> QED  BY <2>1, <2>4, <2>5 DEF PostCommit
<1> QED  BY <1>1, <1>2

LEMMA InvoiceSteps ==
    ASSUME TypeInv, NEW r \in Requests, DocumentStep(r), ~ApproveCommit(r), ~PostCommit(r)
    PROVE  \/ SameInvoices
           \/ SameEntries /\ (Contract!SubmitInvoice \/ Contract!RejectInvoice)
<1>0. invoice \in [Invoices -> InvoiceRow]  BY DEF TypeInv, RowsOK
<1>1. CASE InvoiceInsert(r)
  <2> DEFINE i == req[r].inv
  <2>1. i \in Invoices
        BY <1>1, LocalOfRequest DEF InvoiceInsert, At, LocalOK
  <2>2. CASE invoice' = invoice  BY <2>2 DEF SameInvoices
  <2>3. CASE /\ invoice[i].status = "absent"
             /\ invoice' = [invoice EXCEPT ![i] = [status |-> "pending_review",
                               per |-> req[r].per, sound |-> req[r].sound]]
    <3>1. /\ invoice'[i].status = "pending_review"
          /\ \A j \in Invoices \ {i} : invoice'[j].status = invoice[j].status
          BY <1>0, <2>1, <2>3
    <3>2. Contract!SubmitInvoice
          BY <2>1, <2>3, <3>1, InvoiceMoves DEF Contract!SubmitInvoice, Contract!Move
    <3> QED  BY <1>1, <3>2 DEF InvoiceInsert, SameEntries
  <2> QED  BY <1>1, <2>2, <2>3 DEF InvoiceInsert
<1>2. CASE RejectInvoice(r)
  <2>1. PICK i \in Invoices :
           /\ invoice[i].status = "pending_review"
           /\ invoice' = [invoice EXCEPT ![i].status = "rejected"]
        BY <1>2 DEF RejectInvoice
  <2>2. /\ invoice'[i].status = "rejected"
        /\ \A j \in Invoices \ {i} : invoice'[j].status = invoice[j].status
        BY <1>0, <2>1 DEF InvoiceRow
  <2>3. Contract!RejectInvoice
        BY <2>1, <2>2, InvoiceMoves DEF Contract!RejectInvoice, Contract!Move
  <2> QED  BY <1>2, <2>3 DEF RejectInvoice, SameEntries
<1>3. CASE invoice' = invoice
      BY <1>3 DEF SameInvoices
<1> QED
    BY <1>1, <1>2, <1>3
    DEF DocumentStep, InvoiceNext, JournalNext, Abort, InvoiceCheck, InvoiceFind,
        ImportFind, ApproveGet, ApproveCheck, ApproveBegin, JournalNumber,
        JournalCheck, InsertHeader, InsertLine, PostGet, PostCheck, VoidGet,
        VoidCheck, VoidSimple, VoidNumber, VoidCommit, UpdateGet, UpdateVoid

LEMMA PeriodMoves ==
    ASSUME TypeInv, OneCloser, NEW r \in Requests, PeriodNext(r)
    PROVE  period' = period \/ Contract!PeriodStep
<1>1. ASSUME NEW p \in Periods, NEW to, UpdateStatus(p, to),
             \/ period[p] = "open" /\ to = "closing"
             \/ period[p] = "closing" /\ to \in {"open", "closed"}
             \/ period[p] = "closed" /\ to \in {"open", "locked"}
      PROVE  Contract!PeriodStep
      BY <1>1 DEF UpdateStatus, Contract!PeriodStep, Contract!Move
<1>2. req[r].at \in Closing => req[r].per \in Periods /\ period[req[r].per] = "closing"
      BY LocalOfRequest DEF LocalOK, OneCloser
<1> QED  BY <1>1, <1>2, PeriodSteps

LEMMA StepKeepsContract ==
    ASSUME TypeInv, OneCloser, ApprovalInv, PostingInv, ReversingOK, [Next]_vars
    PROVE  [Contract!ContractNext]_(Contract!contractVars)
<1>1. ASSUME NEW r \in Requests, DocumentStep(r)
      PROVE  [Contract!ContractNext]_(Contract!contractVars)
  <2>1. period' = period  BY <1>1, DocumentStepPeriod
  <2>2. CASE ApproveCommit(r)
        BY <2>1, <2>2, ApproveStep, SameColumns
        DEF Contract!ContractNext, Contract!contractVars
  <2>3. CASE PostCommit(r)
        BY <2>1, <2>3, PostStep, SameColumns
        DEF Contract!ContractNext, Contract!contractVars
  <2>4. CASE ~ApproveCommit(r) /\ ~PostCommit(r)
        BY <1>1, <2>1, <2>4, EntrySteps, InvoiceSteps, SameColumns
        DEF Contract!ContractNext, Contract!contractVars
  <2> QED  BY <2>2, <2>3, <2>4
<1>2. ASSUME NEW r \in Requests, PeriodNext(r)
      PROVE  [Contract!ContractNext]_(Contract!contractVars)
  <2>1. SameInvoices /\ SameEntries
        BY <1>2 DEF PeriodNext, CloseBegin, CloseInvoices, CloseDrafts, CloseBalance,
                    CloseFinish, ReopenPeriod, LockPeriod, SameInvoices, SameEntries
  <2> QED
      BY <1>2, <2>1, PeriodMoves, SameColumns
      DEF Contract!ContractNext, Contract!contractVars
<1>3. CASE UNCHANGED vars
      BY <1>3 DEF vars, Contract!contractVars
<1> QED  BY <1>1, <1>2, <1>3, NextCases

\* FinanceLedger implements BookContract: approvals, postings and reversals take
\* effect in one step, and no invoice, entry or period moves along an edge of its
\* own, for any number of requests that may be cut off or read wrongly.
THEOREM KeepsContractAlways == Spec => KeepsContract
<1>1. Init => Contract!ContractInit
      BY DEF Init, LedgerInit, NoInvoice, NoEntry, Contract!ContractInit
<1>2. Init => ReversingOK
      BY DEF Init, LedgerInit, Idle, ReversingOK
<1>3. TypeInv /\ ReversingOK /\ [Next]_vars => ReversingOK'
      BY ReversingStep
<1>4. TypeInv /\ ApprovalInv /\ [Next]_vars => ApprovalInv'
      BY ApprovalStep
<1>5. TypeInv /\ OneCloser /\ ApprovalInv /\ PostingInv /\ ReversingOK /\ [Next]_vars
      => [Contract!ContractNext]_(Contract!contractVars)
      BY StepKeepsContract
<1> QED
    BY <1>1, <1>2, <1>3, <1>4, <1>5, ApprovalInit, PostingInit, PostingStep,
       TypeInvariant, OneCloserAlways, PTL
    DEF Spec, KeepsContract, Contract!ContractSpec
==============================================================================
