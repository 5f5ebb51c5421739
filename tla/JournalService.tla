--------------------------- MODULE JournalService ---------------------------
(***************************************************************************)
(* The journal operations of service.go: create_draft, post, void and      *)
(* update_draft.  batch_post is a request that posts one entry after the   *)
(* other and stops at the first error, so its steps are those of post.     *)
(***************************************************************************)
EXTENDS LedgerState

\* CreateJournalDraft takes the client's voucher number or counts the rows.
JournalNumber(r) ==
    \E p \in Periods, s \in ManualSources, size \in Sizes :
        /\ At(r, "idle")
        /\ \E n \in {NextVoucherNo(p)} \cup ExplicitNos :
              Start(r, [Idle EXCEPT !.at = "journal_check", !.per = p, !.src = s,
                                    !.size = size, !.no = n])
        /\ UNCHANGED <<invoice, entry, period, late>>

JournalCheck(r) ==
    /\ At(r, "journal_check")
    /\ \/ IsClosed(req[r].per) /\ Return(r)
       \/ /\ PassesCheck(req[r].per)
          /\ Continue(r, [req[r] EXCEPT !.at = "insert_header"])
    /\ UNCHANGED <<invoice, entry, period, late>>

\* JournalStore.Create runs without a transaction: first the header ...
InsertHeader(r) ==
    LET p == req[r].per IN
    /\ At(r, "insert_header") \/ At(r, "update_insert")
    /\ IF Refused(p, req[r].no)
       THEN /\ Return(r)
            /\ UNCHANGED <<entry, late>>
       ELSE \E e \in FreeEntries :
               /\ entry' = [entry EXCEPT ![e] =
                     [NoEntry EXCEPT !.status = "draft", !.per = p,
                                     !.src = req[r].src, !.no = req[r].no,
                                     !.size = req[r].size, !.kind = "manual"]]
               /\ NoteLate(e, p)
               /\ Continue(r, [Idle EXCEPT !.at = "insert_lines", !.ent = e])
    /\ UNCHANGED <<invoice, period>>

\* ... then one INSERT per line, whatever happened to the entry meanwhile.
InsertLine(r) ==
    LET e == req[r].ent  k == entry[e].lines + 1 IN
    /\ At(r, "insert_lines")
    /\ entry' = [entry EXCEPT ![e].lines = k]
    /\ IF k = entry[e].size THEN Return(r) ELSE UNCHANGED <<req, stale>>
    /\ UNCHANGED <<invoice, period, late>>

-----------------------------------------------------------------------------
\* JournalStore.Get: a snapshot of status, period, source and stored lines.  Its
\* two SELECTs are one step: a line or a change of status that comes between
\* them is as good as one that comes after, for the writes test the status.
Snapshot(e, step) ==
    [Idle EXCEPT !.at = step, !.ent = e, !.per = entry[e].per,
                 !.src = entry[e].src, !.no = entry[e].no,
                 !.size = entry[e].size, !.seen = entry[e].status,
                 !.lines = entry[e].lines]

PostGet(r) ==
    \E e \in Entries :
        /\ At(r, "idle")
        /\ Stored(e)
        /\ Start(r, Snapshot(e, "post_check"))
        /\ UNCHANGED <<invoice, entry, period, late>>

\* A closed period, an entry that was posted already, no lines and lines that
\* do not balance all end the request.
PostCheck(r) ==
    LET postable == /\ req[r].seen # "posted"
                    /\ req[r].lines > 0
                    /\ Balanced(req[r].lines, req[r].size)
    IN
    /\ At(r, "post_check")
    /\ \/ (IsClosed(req[r].per) \/ ~postable) /\ Return(r)
       \/ /\ PassesCheck(req[r].per) /\ postable
          /\ Continue(r, [req[r] EXCEPT !.at = "post_commit"])
    /\ UNCHANGED <<invoice, entry, period, late>>

\* Mutant: an entry that is no longer a draft does not end the transaction.
PostCommitRegardless(r) ==
    LET e == req[r].ent  i == req[r].src  draft == entry[e].status = "draft" IN
    /\ At(r, "post_commit") /\ ~RowLocked(i)
    /\ entry' = [entry EXCEPT ![e].status = IF draft THEN "posted" ELSE @,
                               ![e].stamped = @ \/ draft]
    /\ invoice' = IF i # NONE /\ invoice[i].status = "approved"
                  THEN [invoice EXCEPT ![i].status = "posted"] ELSE invoice
    /\ Return(r)
    /\ UNCHANGED <<period, late>>

\* PostTx (WHERE status = 'draft'), MarkPostedTx (WHERE status = 'approved',
\* its result ignored), Commit.
PostCommit(r) ==
    LET e == req[r].ent  i == req[r].src IN
    /\ At(r, "post_commit")
    /\ ~RowLocked(i)
    /\ IF entry[e].status # "draft"
       THEN UNCHANGED <<invoice, entry>>
       ELSE /\ entry' = [entry EXCEPT ![e].status = "posted", ![e].stamped = TRUE]
            /\ invoice' = IF i # NONE /\ invoice[i].status = "approved"
                          THEN [invoice EXCEPT ![i].status = "posted"]
                          ELSE invoice
    /\ Return(r)
    /\ UNCHANGED <<period, late>>

-----------------------------------------------------------------------------
VoidGet(r) ==
    \E e \in Entries :
        /\ At(r, "idle")
        /\ Stored(e)
        /\ Start(r, Snapshot(e, "void_check"))
        /\ UNCHANGED <<invoice, entry, period, late>>

\* The status read before decides between the simple void and the reversal.
VoidCheck(r) ==
    /\ At(r, "void_check")
    /\ \/ IsClosed(req[r].per) /\ Return(r)
       \/ /\ PassesCheck(req[r].per)
          /\ Continue(r, [req[r] EXCEPT !.at =
                IF req[r].seen = "posted" THEN "void_number" ELSE "void_simple"])
    /\ UNCHANGED <<invoice, entry, period, late>>

\* Mutant: VoidTx without its condition on the status.
VoidableAlways(e) == TRUE

\* VoidTx: WHERE status IN ('draft', 'posted').
Voidable(e) == entry[e].status \in {"draft", "posted"}

VoidSimple(r) ==
    LET e == req[r].ent IN
    /\ At(r, "void_simple")
    /\ entry' = IF Voidable(e) THEN [entry EXCEPT ![e].status = "voided"] ELSE entry
    /\ Return(r)
    /\ UNCHANGED <<invoice, period, late>>

\* buildReversal reads the reversal's voucher number through the pool.
VoidNumber(r) ==
    /\ At(r, "void_number")
    /\ \E n \in VoucherNoRead(req[r].per) :
          Continue(r, [req[r] EXCEPT !.at = "void_commit", !.no = n])
    /\ UNCHANGED <<invoice, entry, period, late>>

\* One transaction: insert the reversal with the lines of the snapshot and the
\* source of the original, post it, void the original.
VoidCommit(r) ==
    LET e == req[r].ent  p == req[r].per IN
    /\ At(r, "void_commit")
    /\ IF Refused(p, req[r].no) \/ ~Voidable(e)
       THEN UNCHANGED <<entry, late>>
       ELSE \E v \in FreeEntries :
               /\ entry' = [entry EXCEPT
                     ![e].status = "voided",
                     ![v] = [status |-> "posted", per |-> p, src |-> req[r].src,
                             no |-> req[r].no, stamped |-> TRUE,
                             lines |-> req[r].lines, size |-> req[r].lines,
                             kind |-> "reversal", of |-> e]]
               /\ NoteLate(v, p)
    /\ Return(r)
    /\ UNCHANGED <<invoice, period>>

-----------------------------------------------------------------------------
\* UpdateJournalDraft: the entry read must be a draft; no look at the period.
UpdateGet(r) ==
    \E e \in Entries, s \in ManualSources, size \in Sizes :
        /\ At(r, "idle")
        /\ entry[e].status = "draft"
        /\ Start(r, [Snapshot(e, "update_void") EXCEPT !.size = size, !.src = s])
        /\ UNCHANGED <<invoice, entry, period, late>>

\* The old draft is voided by a statement of its own, and only then are the
\* new lines checked: if they do not balance the request ends here.  The new
\* entry is to carry the period and the voucher number of the old one.
UpdateVoid(r) ==
    LET e == req[r].ent IN
    /\ At(r, "update_void")
    /\ IF ~Voidable(e)
       THEN /\ Return(r)
            /\ UNCHANGED entry
       ELSE /\ entry' = [entry EXCEPT ![e].status = "voided"]
            /\ \/ Continue(r, [req[r] EXCEPT !.at = "update_insert"])
               \/ Return(r)
    /\ UNCHANGED <<invoice, period, late>>

JournalNext(r) ==
    \/ JournalNumber(r) \/ JournalCheck(r) \/ InsertHeader(r) \/ InsertLine(r)
    \/ PostGet(r) \/ PostCheck(r) \/ PostCommit(r)
    \/ VoidGet(r) \/ VoidCheck(r) \/ VoidSimple(r) \/ VoidNumber(r) \/ VoidCommit(r)
    \/ UpdateGet(r) \/ UpdateVoid(r)
==============================================================================
