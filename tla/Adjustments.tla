------------------------------ MODULE Adjustments ------------------------------
(***************************************************************************)
(* The tax adjustments of one entity and year.  UpsertAdjustments stores   *)
(* the records of a batch one statement after the other, without a         *)
(* transaction, and stops at the first error; the client that sees an      *)
(* error, or no answer, sends the batch again.                             *)
(***************************************************************************)
EXTENDS Integers, Sequences, FiniteSets

CONSTANTS
    Senders,   \* clients
    Ids,       \* ids that clients give to records
    Batches,   \* what they send: sequences of [id, category, amount]
    MaxFresh,  \* bounds the ids the service makes up
    NoId

Record    == [id : Ids \cup {NoId}, category : STRING, amount : Int]
MadeUp(n) == <<"made up", n>>

ASSUME AdjustmentAssumption ==
    /\ MaxFresh \in Nat
    /\ \A b \in Batches : b \in Seq(Record)
    /\ \A n \in 0..MaxFresh : MadeUp(n) \notin Ids \cup {NoId}

VARIABLES
    adjustment,  \* rows of tax_adjustments
    sending,     \* per client: the batch, and how many records are stored
    fresh,       \* ids made up so far
    disturbed    \* history: clients whose records others wrote meanwhile

adjustmentVars == <<adjustment, sending, fresh, disturbed>>

Silent == [at |-> "idle", batch |-> <<>>, done |-> 0]

AdjustmentsInit ==
    /\ adjustment = {}
    /\ sending = [c \in Senders |-> Silent]
    /\ fresh = 0
    /\ disturbed = {}

IdsOf(batch)      == {batch[k].id : k \in DOMAIN batch} \ {NoId}
RowsWith(id)      == {r \in adjustment : r.id = id}

\* The id is the primary key, but the conflict that turns the INSERT into an
\* UPDATE is on id and category together.
Storable(r)       == \A row \in RowsWith(r.id) : row.category = r.category
Upserted(r)       == {row \in adjustment : row.id # r.id} \cup {r}

-----------------------------------------------------------------------------
Progress(c, at, done) ==
    sending' = [sending EXCEPT ![c] = [at |-> at, batch |-> sending[c].batch, done |-> done]]

Send == \E c \in Senders, b \in Batches :
    /\ sending[c].at \in {"idle", "stored"}
    /\ sending' = [sending EXCEPT ![c] = [at |-> "sending", batch |-> b, done |-> 0]]
    /\ disturbed' = disturbed \ {c}
    /\ UNCHANGED <<adjustment, fresh>>

\* Writing c's record disturbs the others that sent a record of that id.
Disturb(c, id) ==
    disturbed' = disturbed \cup
        {o \in Senders \ {c} : sending[o].at # "idle" /\ id \in IdsOf(sending[o].batch)}

\* Mutant: an error does not end the loop.
UpsertNextOrSkip == \E c \in Senders :
    LET r == sending[c].batch[sending[c].done + 1] IN
    /\ sending[c].at = "sending" /\ sending[c].done < Len(sending[c].batch)
    /\ adjustment' \in {adjustment, Upserted(r)}
    /\ Progress(c, "sending", sending[c].done + 1)
    /\ Disturb(c, r.id)
    /\ UNCHANGED fresh

\* The next record: a made-up id if it has none.
UpsertNext == \E c \in Senders :
    LET r == sending[c].batch[sending[c].done + 1] IN
    /\ sending[c].at = "sending" /\ sending[c].done < Len(sending[c].batch)
    /\ \/ /\ r.id # NoId /\ Storable(r)
          /\ adjustment' = Upserted(r)
          /\ UNCHANGED fresh
       \/ /\ r.id = NoId /\ fresh < MaxFresh
          /\ fresh' = fresh + 1
          /\ adjustment' = Upserted([r EXCEPT !.id = MadeUp(fresh)])
    /\ Progress(c, "sending", sending[c].done + 1)
    /\ Disturb(c, r.id)

Acknowledge == \E c \in Senders :
    /\ sending[c].at = "sending" /\ sending[c].done = Len(sending[c].batch)
    /\ Progress(c, "stored", sending[c].done)
    /\ UNCHANGED <<adjustment, fresh, disturbed>>

\* The statement is refused, the connection breaks or the answer is lost: what
\* was stored stays.
Fail == \E c \in Senders :
    /\ sending[c].at = "sending"
    /\ Progress(c, "failed", sending[c].done)
    /\ UNCHANGED <<adjustment, fresh, disturbed>>

Retry == \E c \in Senders :
    /\ sending[c].at = "failed"
    /\ Progress(c, "sending", 0)
    /\ UNCHANGED <<adjustment, fresh, disturbed>>

AdjustmentsNext == Send \/ UpsertNext \/ Acknowledge \/ Fail \/ Retry

AdjustmentsSpec == AdjustmentsInit /\ [][AdjustmentsNext]_adjustmentVars

-----------------------------------------------------------------------------
AdjustmentsTypeOK ==
    /\ \A r \in adjustment : Cardinality(RowsWith(r.id)) = 1
    /\ \A c \in Senders : sending[c].done \in 0..Len(sending[c].batch)
    /\ fresh \in 0..MaxFresh

\* Every record has an id, and no two have the same.
OwnIds(batch) ==
    /\ \A k \in DOMAIN batch : batch[k].id # NoId
    /\ \A j, k \in DOMAIN batch : j # k => batch[j].id # batch[k].id

\* A batch whose records carry ids of their own is stored whole once it is
\* acknowledged, each record once, however often it failed half-way and was sent
\* again; records of the same ids from another client, one after the other or
\* interleaved, are what can replace it.  Records without an id are stored anew
\* by every attempt, so SumByYear, and the tax computed from it, counts them
\* twice.
BatchStoredOnce ==
    \A c \in Senders :
        LET batch == sending[c].batch IN
        /\ sending[c].at = "stored" /\ c \notin disturbed /\ OwnIds(batch)
        => {r \in adjustment : r.id \in IdsOf(batch)} = {batch[k] : k \in DOMAIN batch}
==============================================================================
