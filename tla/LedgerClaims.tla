---------------------------- MODULE LedgerClaims ----------------------------
(***************************************************************************)
(* What the documents, comments and names of the repository say of the     *)
(* ledger and the code does not keep.  Each claim is refuted by a run of   *)
(* its own; README.md tells the story of each counterexample.              *)
(***************************************************************************)
EXTENDS FinanceLedger

\* docs/03-domain-model.md, invariants: a locked period cannot be written.
\* PostJournalEntry asks first, outside its transaction, and ignores an error.
NoPostingWhenLocked ==
    [][\A e \in Entries : entry[e].status = "draft" /\ entry'[e].status = "posted"
                          => period[entry[e].per] # "locked"]_vars

\* VoidJournalEntry in service.go: "Posted entries: atomic reversal + void",
\* the simple void is for those not posted.  The status is read long before.
PostedVoidIsReversed ==
    \A e \in Entries : entry[e].status = "voided" /\ entry[e].stamped =>
        \E v \in Entries : entry[v].of = e

\* buildReversal in service.go names the reversal an offset of the original:
\* the two cancel out in the posted lines.  But the original is voided too,
\* ListPostedLines drops it, and the reversal alone stays in the ledger.
ReversalOffsets ==
    \A v \in Entries : entry[v].kind = "reversal" /\ entry[v].status = "posted" =>
        entry[entry[v].of].status = "posted"

\* UpdateJournalDraft in service.go: "Void old draft and create new one
\* in-place".  An update that voided the old draft leaves a new draft with its
\* voucher number; the unique key of the voided row forbids it.
UpdateReplacesDraft ==
    [][\A r \in Requests : At(r, "update_insert") /\ ~At(r, "update_insert")' =>
          \E e \in Entries : /\ entry'[e].status = "draft"
                             /\ entry'[e].per = req[r].per
                             /\ entry'[e].no = req[r].no]_vars

\* docs/03-domain-model.md, invariants: a posted voucher balances.  Of an entry
\* whose first lines balance by themselves, those may be posted before the
\* others are stored.
PostedBalances ==
    \A e \in Entries : entry[e].status = "posted" =>
        Balanced(entry[e].lines, entry[e].size)
==============================================================================
