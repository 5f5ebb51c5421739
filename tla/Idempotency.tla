----------------------------- MODULE Idempotency -----------------------------
(***************************************************************************)
(* The idempotency protocol of executeRequest in api/handler.go: look the  *)
(* key up, execute the capability, save its outcome under the key.  These  *)
(* are three separate steps, without a lock or a transaction around them.  *)
(*                                                                         *)
(* An attempt is one HTTP request; a client that got no answer sends       *)
(* another one with the same key.  A key stands for entity, capability and *)
(* idempotency_key, an input for its SHA-256.                              *)
(***************************************************************************)
CONSTANTS Attempts, Keys, Inputs,
          NONE   \* no attempt, key or input

ASSUME IdempotencyAssumption == NONE \notin Attempts \cup Keys \cup Inputs

VARIABLES
    record,   \* idempotency_records
    attempt,  \* the requests: where they are, what they were answered
    changed,  \* the attempts whose execution changed the books
    before,   \* history: before[b] had ended when b looked its key up
    unsaved   \* history: attempts that executed and did not get to save that

idemVars == <<record, attempt, changed, before, unsaved>>

\* by is the attempt whose outcome was saved.
Record   == [by : Attempts, input : Inputs, status : {"completed", "failed"}]
NoRecord == [by |-> NONE, input |-> NONE, status |-> "none"]
Recorded(k) == record[k] # NoRecord

Ended == {"answered", "replayed", "conflict", "error", "cut"}

\* outcome is that of its own execution; shown the attempt whose outcome the
\* client was answered.
Attempt ==
    [at : {"new", "execute", "save"} \cup Ended, key : Keys \cup {NONE},
     input : Inputs \cup {NONE}, outcome : {"none", "completed", "failed"},
     shown : Attempts \cup {NONE}]
NewAttempt ==
    [at |-> "new", key |-> NONE, input |-> NONE, outcome |-> "none", shown |-> NONE]

Executed(a) == attempt[a].outcome # "none"
Over        == {a \in Attempts : attempt[a].at \in Ended}

Init ==
    /\ record = [k \in Keys |-> NoRecord]
    /\ attempt = [a \in Attempts |-> NewAttempt]
    /\ changed = {}
    /\ before = [a \in Attempts |-> {}]
    /\ unsaved = {}

-----------------------------------------------------------------------------
\* What a lookup of key k with input x leaves: it ends, or goes on to execute.
Looks(a, k, x, next, shown) ==
    /\ attempt' = [attempt EXCEPT ![a] =
          [at |-> next, key |-> k, input |-> x, outcome |-> "none", shown |-> shown]]
    /\ before' = [before EXCEPT ![a] = Over]
    /\ UNCHANGED <<record, changed, unsaved>>

\* Mutant: the hash of the input is not compared.
SameInputAlways(k, x) == TRUE

SameInput(k, x) == record[k].input = x

\* IdempotencyStore.Get: the lookup fails, finds another input, finds the
\* outcome to replay, or finds nothing and the capability is executed.
Lookup(a) ==
    /\ attempt[a].at = "new"
    /\ \E k \in Keys, x \in Inputs :
          \/ Looks(a, k, x, "error", NONE)
          \/ Recorded(k) /\ ~SameInput(k, x) /\ Looks(a, k, x, "conflict", NONE)
          \/ Recorded(k) /\ SameInput(k, x) /\ Looks(a, k, x, "replayed", record[k].by)
          \/ ~Recorded(k) /\ Looks(a, k, x, "execute", NONE)

\* executeCapability: one that fails may have changed the books all the same
\* (batch_post stops half way, update_draft voids before it inserts).
Execute(a) ==
    /\ attempt[a].at = "execute"
    /\ \E outcome \in {"completed", "failed"} :
          /\ attempt' = [attempt EXCEPT ![a].at = "save", ![a].outcome = outcome]
          /\ changed' \in IF outcome = "completed" THEN {changed \cup {a}}
                          ELSE {changed, changed \cup {a}}
    /\ UNCHANGED <<record, before, unsaved>>

\* Mutants: an upsert; a failure that leaves no record.
StoreOverwrites(a) ==
    record' = [record EXCEPT ![attempt[a].key] =
        [by |-> a, input |-> attempt[a].input, status |-> attempt[a].outcome]]
StoreSuccessOnly(a) ==
    LET k == attempt[a].key IN
    record' = IF Recorded(k) \/ attempt[a].outcome = "failed" THEN record
              ELSE [record EXCEPT ![k] =
                        [by |-> a, input |-> attempt[a].input, status |-> "completed"]]
\* Mutant: the record keeps the status of the response.
StoreResponse(a) ==
    LET k == attempt[a].key IN
    record' = IF Recorded(k) THEN record
              ELSE [record EXCEPT ![k] =
                        [by |-> a, input |-> attempt[a].input, status |-> "ok"]]

\* IdempotencyStore.Save: ON CONFLICT DO NOTHING, the first outcome stays.
Store(a) ==
    LET k == attempt[a].key IN
    record' = IF Recorded(k) THEN record
              ELSE [record EXCEPT ![k] = [by |-> a, input |-> attempt[a].input,
                                          status |-> attempt[a].outcome]]

\* Success and failure are saved alike; the error of Save is ignored, and the
\* client is answered what its own execution gave.
Save(a) ==
    /\ attempt[a].at = "save"
    /\ attempt' = [attempt EXCEPT ![a].at = "answered", ![a].shown = a]
    /\ \/ Store(a) /\ UNCHANGED unsaved
       \/ unsaved' = unsaved \cup {a} /\ UNCHANGED record
    /\ UNCHANGED <<changed, before>>

\* The process dies, the execution panics or the client goes away (its
\* context is the one Save uses): no answer, and no record.
Cut(a) ==
    /\ attempt[a].at \in {"execute", "save"}
    /\ attempt' = [attempt EXCEPT ![a].at = "cut"]
    /\ unsaved' = IF attempt[a].at = "save" THEN unsaved \cup {a} ELSE unsaved
    /\ UNCHANGED <<record, changed, before>>

Serve(a) == Lookup(a) \/ Execute(a) \/ Save(a) \/ Cut(a)
Next == \E a \in Attempts : Serve(a)
Spec == Init /\ [][Next]_idemVars

-----------------------------------------------------------------------------
TypeOK ==
    /\ record \in [Keys -> Record \cup {NoRecord}]
    /\ attempt \in [Attempts -> Attempt]
    /\ changed \subseteq Attempts
    /\ before \in [Attempts -> SUBSET Attempts]
    /\ unsaved \subseteq Attempts

\* Get then replay: a replay shows the outcome of an execution of the same key
\* with the same input, however many attempts with other inputs race for the key.
ReplayFits ==
    \A a \in Attempts : attempt[a].at = "replayed" =>
        LET b == attempt[a].shown IN
        /\ b \in Attempts \ {a} /\ Executed(b)
        /\ attempt[b].key = attempt[a].key
        /\ attempt[b].input = attempt[a].input

\* Save keeps the first outcome: all replays of a key show the same execution,
\* also when several attempts executed and saved one after the other.
ReplaysAgree ==
    \A a, b \in Attempts :
        /\ attempt[a].at = "replayed" /\ attempt[b].at = "replayed"
        /\ attempt[a].key = attempt[b].key
        => attempt[a].shown = attempt[b].shown

\* Success and failure are saved: an attempt executes although another one of
\* its key executed and had ended before, only if that one did not get to save.
NoRepeatAfterSave ==
    \A a, b \in Attempts :
        /\ Executed(a) /\ attempt[b].at = "execute"
        /\ attempt[a].key = attempt[b].key
        /\ a \in before[b]
        => a \in unsaved

-----------------------------------------------------------------------------
\* docs/04-development-checklist.md: replaying an idempotency key does not post
\* twice.  Two attempts that look the key up before either has saved both run.
ChangedOnce ==
    \A a, b \in changed : attempt[a].key = attempt[b].key => a = b
==============================================================================
