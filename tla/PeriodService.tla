---------------------------- MODULE PeriodService ----------------------------
(***************************************************************************)
(* The period operations of service.go: close, reopen and lock.  Every     *)
(* change of status is PeriodStore.UpdateStatus, a conditional UPDATE      *)
(* (WHERE status = from), so at most one of two racing requests wins it.   *)
(***************************************************************************)
EXTENDS LedgerState

UpdateStatus(p, to) == period' = [period EXCEPT ![p] = to]

\* Mutant: a close that takes over a period that is being closed.
ClosableAgain(p) == period[p] \in {"open", "closing"}

Closable(p) == period[p] = "open"

\* ClosePeriod announces itself: open -> closing.  The SELECT after the UPDATE
\* may fail and end the request: for the period that is an Abort.
CloseBegin(r) ==
    \E p \in Periods :
        /\ At(r, "idle")
        /\ Closable(p)
        /\ UpdateStatus(p, "closing")
        /\ late' = late \ DocumentsOf(p)
        /\ Start(r, [Idle EXCEPT !.at = "close_invoices", !.per = p])
        /\ UNCHANGED <<invoice, entry>>

\* CloseCheck is three reads at three moments.  The two counts are 0 when the
\* SELECT fails, the trial balance fails the check when it cannot be read.
CountIsZero(docs) == {docs = {}} \cup (IF FaultyReads THEN {TRUE} ELSE {})

CloseInvoices(r) ==
    /\ At(r, "close_invoices")
    /\ \E none \in CountIsZero(Pending(req[r].per)) :
          Continue(r, [req[r] EXCEPT !.at = "close_drafts", !.ok = none])
    /\ UNCHANGED <<invoice, entry, period, late>>

\* Mutant: the second count overwrites the verdict of the first.
CloseDraftsForgets(r) ==
    /\ At(r, "close_drafts")
    /\ Continue(r, [req[r] EXCEPT !.at = "close_balance",
                                  !.ok = Drafts(req[r].per) = {}])
    /\ UNCHANGED <<invoice, entry, period, late>>

CloseDrafts(r) ==
    /\ At(r, "close_drafts")
    /\ \E none \in CountIsZero(Drafts(req[r].per)) :
          Continue(r, [req[r] EXCEPT !.at = "close_balance", !.ok = @ /\ none])
    /\ UNCHANGED <<invoice, entry, period, late>>

\* The posted lines of the period balance if those of each entry do.
TrialBalanced(p) ==
    \A e \in EntriesOf(p) :
        entry[e].status = "posted" => Balanced(entry[e].lines, entry[e].size)

CloseBalance(r) ==
    /\ At(r, "close_balance")
    /\ \E read \in IF FaultyReads THEN BOOLEAN ELSE {TRUE} :
          Continue(r, [req[r] EXCEPT !.at = "close_finish",
                                     !.ok = @ /\ read /\ TrialBalanced(req[r].per)])
    /\ UNCHANGED <<invoice, entry, period, late>>

\* Mutants: a failed close that does not roll back, or to an unknown status.
RollBackNever(p) == UNCHANGED period
RollBackToReopened(p) == UpdateStatus(p, "reopened")

RollBack(p) == UpdateStatus(p, "open")

\* closing -> closed if every check passed, else back to open; the result of
\* the way back is ignored.
CloseFinish(r) ==
    LET p == req[r].per IN
    /\ At(r, "close_finish")
    /\ IF period[p] # "closing"
       THEN UNCHANGED <<period, stale>>
       ELSE IF req[r].ok
            THEN /\ UpdateStatus(p, "closed")
                 /\ stale' = stale \cup
                        {<<q, p>> : q \in {q \in Requests : ~At(q, "idle")}}
            ELSE /\ RollBack(p)
                 /\ UNCHANGED stale
    /\ req' = [req EXCEPT ![r] = Idle]
    /\ UNCHANGED <<invoice, entry, late>>

ReopenPeriod(r) ==
    \E p \in Periods :
        /\ At(r, "idle")
        /\ period[p] = "closed"
        /\ UpdateStatus(p, "open")
        /\ Start(r, Idle)
        /\ UNCHANGED <<invoice, entry, late>>

LockPeriod(r) ==
    \E p \in Periods :
        /\ At(r, "idle")
        /\ period[p] = "closed"
        /\ UpdateStatus(p, "locked")
        /\ Start(r, Idle)
        /\ UNCHANGED <<invoice, entry, late>>

PeriodNext(r) ==
    \/ CloseBegin(r) \/ CloseInvoices(r) \/ CloseDrafts(r) \/ CloseBalance(r)
    \/ CloseFinish(r) \/ ReopenPeriod(r) \/ LockPeriod(r)
==============================================================================
