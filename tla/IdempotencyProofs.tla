-------------------------- MODULE IdempotencyProofs --------------------------
(***************************************************************************)
(* The properties of Idempotency for any number of attempts, keys and      *)
(* inputs.  All follow from one inductive invariant, IdemInv.              *)
(***************************************************************************)
EXTENDS Idempotency, TLAPS

\* A record is the outcome of an attempt that was answered.
RecordsHold ==
    \A k \in Keys : Recorded(k) =>
        LET b == record[k].by IN
        /\ b \in Attempts /\ Executed(b)
        /\ attempt[b].at = "answered"
        /\ attempt[b].key = k /\ attempt[b].input = record[k].input

\* A replay shows what is, and stays, recorded under its key.
ReplaysHold ==
    \A a \in Attempts : attempt[a].at = "replayed" =>
        /\ attempt[a].key \in Keys /\ Recorded(attempt[a].key)
        /\ attempt[a].shown = record[attempt[a].key].by
        /\ attempt[a].input = record[attempt[a].key].input

\* An attempt that was not executed has no outcome; one that is executed, or
\* about to be, has a key and an input; one that is to save has an outcome.
ProgressHolds ==
    \A a \in Attempts :
        /\ attempt[a].at \in {"new", "execute", "replayed"} => ~Executed(a)
        /\ attempt[a].at \in {"execute", "save"} => attempt[a].key \in Keys /\ attempt[a].input \in Inputs
        /\ attempt[a].at = "save" => Executed(a)

\* Whoever executed and ended left a record under its key, or is in unsaved.
SavesHold ==
    \A a \in Attempts : attempt[a].at \in Ended /\ Executed(a) /\ a \notin unsaved =>
        attempt[a].key \in Keys /\ Recorded(attempt[a].key)

\* What had ended before a lookup does not move any more.
PastHolds == \A b \in Attempts : before[b] \subseteq Over

IdemInv ==
    /\ TypeOK /\ RecordsHold /\ ReplaysHold /\ ProgressHolds /\ SavesHold
    /\ PastHolds /\ NoRepeatAfterSave

-----------------------------------------------------------------------------
\* A recorded key has a record, and a record is not NoRecord.
LEMMA RecordedIsRecord ==
    ASSUME TypeOK, NEW k \in Keys
    PROVE  Recorded(k) <=> record[k] \in Record
BY IdempotencyAssumption DEF TypeOK, Recorded, Record, NoRecord

\* No step but a Store changes a record, and Store fills an empty one only.
LEMMA FirstOutcomeStays ==
    ASSUME TypeOK, NEW a \in Attempts, Serve(a)
    PROVE  \A k \in Keys : Recorded(k) => record'[k] = record[k]
<1>1. CASE Save(a)
  BY <1>1 DEF Save, Store, TypeOK
<1>2. CASE Lookup(a) \/ Execute(a) \/ Cut(a)
  BY <1>2 DEF Lookup, Looks, Execute, Cut
<1>3. QED BY <1>1, <1>2 DEF Serve

\* What a step of an attempt does to the state, action by action.
LookupOutcome(a) ==
    /\ attempt[a].at = "new"
    /\ \A b \in Attempts \ {a} : attempt'[b] = attempt[b] /\ before'[b] = before[b]
    /\ before'[a] = Over
    /\ record' = record /\ changed' = changed /\ unsaved' = unsaved
    /\ attempt'[a].key \in Keys /\ attempt'[a].input \in Inputs
    /\ attempt'[a].outcome = "none"
    /\ \/ attempt'[a].at \in {"error", "conflict"} /\ attempt'[a].shown = NONE
       \/ /\ attempt'[a].at = "replayed" /\ Recorded(attempt'[a].key)
          /\ attempt'[a].input = record[attempt'[a].key].input
          /\ attempt'[a].shown = record[attempt'[a].key].by
       \/ /\ attempt'[a].at = "execute" /\ ~Recorded(attempt'[a].key)
          /\ attempt'[a].shown = NONE

LEMMA LookupSteps ==
    ASSUME TypeOK, NEW a \in Attempts, Lookup(a)
    PROVE  LookupOutcome(a) /\ TypeOK'
<1>1. PICK k \in Keys, x \in Inputs :
          \/ Looks(a, k, x, "error", NONE)
          \/ Recorded(k) /\ ~SameInput(k, x) /\ Looks(a, k, x, "conflict", NONE)
          \/ Recorded(k) /\ SameInput(k, x) /\ Looks(a, k, x, "replayed", record[k].by)
          \/ ~Recorded(k) /\ Looks(a, k, x, "execute", NONE)
  BY DEF Lookup
<1>2. PICK next \in {"error", "conflict", "replayed", "execute"},
           shown \in Attempts \cup {NONE} :
        /\ attempt' = [attempt EXCEPT ![a] =
              [at |-> next, key |-> k, input |-> x, outcome |-> "none", shown |-> shown]]
        /\ next \in {"error", "conflict", "execute"} => shown = NONE
        /\ next = "replayed" => Recorded(k) /\ SameInput(k, x) /\ shown = record[k].by
        /\ next = "execute" => ~Recorded(k)
  <2>1. CASE Looks(a, k, x, "error", NONE)
    BY <2>1 DEF Looks
  <2>2. CASE Recorded(k) /\ ~SameInput(k, x) /\ Looks(a, k, x, "conflict", NONE)
    BY <2>2 DEF Looks
  <2>3. CASE Recorded(k) /\ SameInput(k, x) /\ Looks(a, k, x, "replayed", record[k].by)
    <3>1. record[k].by \in Attempts
      BY <2>3, RecordedIsRecord DEF Record
    <3>2. QED BY <2>3, <3>1 DEF Looks
  <2>4. CASE ~Recorded(k) /\ Looks(a, k, x, "execute", NONE)
    BY <2>4 DEF Looks
  <2>5. QED BY <1>1, <2>1, <2>2, <2>3, <2>4
<1> DEFINE local == [at |-> next, key |-> k, input |-> x, outcome |-> "none", shown |-> shown]
<1>4. local \in Attempt
  BY DEF Attempt, Ended
<1>5. /\ attempt' = [attempt EXCEPT ![a] = local]
      /\ before' = [before EXCEPT ![a] = Over]
      /\ UNCHANGED <<record, changed, unsaved>>
  BY <1>1, <1>2 DEF Looks, local
<1>6. attempt'[a] = local
  BY <1>5 DEF TypeOK
<1>7. /\ attempt'[a].at = next /\ attempt'[a].key = k /\ attempt'[a].input = x
      /\ attempt'[a].outcome = "none" /\ attempt'[a].shown = shown
  BY <1>6
<1>8. LookupOutcome(a)
  <2>0. attempt[a].at = "new"
    BY DEF Lookup
  <2>1. \A b \in Attempts \ {a} : attempt'[b] = attempt[b] /\ before'[b] = before[b]
    BY <1>5 DEF TypeOK
  <2>2. before'[a] = Over
    BY <1>5 DEF TypeOK
  <2>3. QED BY <1>2, <1>5, <1>7, <2>0, <2>1, <2>2 DEF LookupOutcome, SameInput
<1>9. TypeOK'
  <2>1. attempt' \in [Attempts -> Attempt]
    BY <1>4, <1>5 DEF TypeOK
  <2>2. before' \in [Attempts -> SUBSET Attempts]
    BY <1>5 DEF TypeOK, Over
  <2>3. record' = record /\ changed' = changed /\ unsaved' = unsaved
    BY <1>5
  <2>4. QED BY <2>1, <2>2, <2>3 DEF TypeOK
<1>10. QED BY <1>8, <1>9

\* An attempt that is past its lookup keeps its key, its input and its past.
Proceeds(a) ==
    /\ \A b \in Attempts \ {a} : attempt'[b] = attempt[b]
    /\ before' = before
    /\ attempt'[a].key = attempt[a].key /\ attempt'[a].input = attempt[a].input

ExecuteOutcome(a) ==
    /\ Proceeds(a)
    /\ attempt[a].at = "execute" /\ attempt'[a].at = "save"
    /\ attempt'[a].outcome \in {"completed", "failed"}
    /\ record' = record /\ unsaved' = unsaved

LEMMA ExecuteSteps ==
    ASSUME TypeOK, NEW a \in Attempts, Execute(a)
    PROVE  ExecuteOutcome(a) /\ TypeOK'
<1>1. PICK outcome \in {"completed", "failed"} :
        /\ attempt' = [attempt EXCEPT ![a].at = "save", ![a].outcome = outcome]
        /\ changed' \in IF outcome = "completed" THEN {changed \cup {a}}
                        ELSE {changed, changed \cup {a}}
  BY DEF Execute
<1>2. attempt[a].at = "execute" /\ UNCHANGED <<record, before, unsaved>>
  BY DEF Execute
<1>3. attempt[a] \in Attempt
  BY DEF TypeOK
<1>4. /\ attempt' \in [Attempts -> Attempt]
      /\ attempt'[a].at = "save" /\ attempt'[a].outcome = outcome
      /\ attempt'[a].key = attempt[a].key /\ attempt'[a].input = attempt[a].input
      /\ \A b \in Attempts \ {a} : attempt'[b] = attempt[b]
  BY <1>1, <1>3 DEF TypeOK, Attempt
<1>5. changed' \subseteq Attempts
  BY <1>1 DEF TypeOK
<1>6. QED BY <1>1, <1>2, <1>4, <1>5 DEF ExecuteOutcome, Proceeds, TypeOK

SaveOutcome(a) ==
    /\ Proceeds(a)
    /\ attempt[a].at = "save" /\ attempt'[a].at = "answered"
    /\ attempt'[a].outcome = attempt[a].outcome
    /\ \/ /\ unsaved' = unsaved
          /\ record'[attempt[a].key] # NoRecord /\ attempt[a].key \in Keys
          /\ \A k \in Keys \ {attempt[a].key} : record'[k] = record[k]
          /\ record'[attempt[a].key] # record[attempt[a].key] =>
                /\ ~Recorded(attempt[a].key)
                /\ record'[attempt[a].key].by = a
                /\ record'[attempt[a].key].input = attempt[a].input
       \/ unsaved' = unsaved \cup {a} /\ record' = record

LEMMA SaveSteps ==
    ASSUME TypeOK, ProgressHolds, NEW a \in Attempts, Save(a)
    PROVE  SaveOutcome(a) /\ TypeOK'
<1> DEFINE k == attempt[a].key
<1>1. /\ attempt[a].at = "save"
      /\ attempt' = [attempt EXCEPT ![a].at = "answered", ![a].shown = a]
      /\ UNCHANGED <<changed, before>>
  BY DEF Save
<1>2. attempt[a] \in Attempt
  BY DEF TypeOK
<1>3. /\ attempt' \in [Attempts -> Attempt]
      /\ attempt'[a].at = "answered" /\ attempt'[a].outcome = attempt[a].outcome
      /\ attempt'[a].key = attempt[a].key /\ attempt'[a].input = attempt[a].input
      /\ \A b \in Attempts \ {a} : attempt'[b] = attempt[b]
  BY <1>1, <1>2 DEF TypeOK, Attempt, Ended
<1>4. /\ k \in Keys /\ attempt[a].input \in Inputs
      /\ attempt[a].outcome \in {"completed", "failed"}
  BY <1>1, <1>2 DEF ProgressHolds, Executed, Attempt
<1>5. CASE Store(a) /\ UNCHANGED unsaved
  <2> DEFINE new == [by |-> a, input |-> attempt[a].input, status |-> attempt[a].outcome]
  <2>1. new \in Record
    BY <1>4 DEF Record
  <2>2. CASE Recorded(k)
    <3>1. record' = record
      BY <1>5, <2>2 DEF Store
    <3>2. QED
      BY <1>1, <1>3, <1>4, <1>5, <2>2, <3>1
      DEF SaveOutcome, Proceeds, TypeOK, Recorded, NoRecord
  <2>3. CASE ~Recorded(k)
    <3>1. record' = [record EXCEPT ![k] = new]
      BY <1>5, <2>3 DEF Store
    <3>2. /\ record' \in [Keys -> Record \cup {NoRecord}]
          /\ record'[k] = new
          /\ \A j \in Keys \ {k} : record'[j] = record[j]
      BY <1>4, <2>1, <3>1 DEF TypeOK
    <3>3. record'[k] # NoRecord
      BY <2>1, <3>2, IdempotencyAssumption DEF NoRecord, Record
    <3>4. record'[k].by = a /\ record'[k].input = attempt[a].input
      BY <3>2
    <3>5. TypeOK'
      BY <1>1, <1>3, <1>5, <3>2 DEF TypeOK
    <3> HIDE DEF new
    <3>6. SaveOutcome(a)
      BY <1>1, <1>3, <1>4, <1>5, <2>3, <3>2, <3>3, <3>4 DEF SaveOutcome, Proceeds
    <3>7. QED BY <3>5, <3>6
  <2>4. QED BY <2>2, <2>3
<1>6. CASE unsaved' = unsaved \cup {a} /\ UNCHANGED record
  BY <1>1, <1>3, <1>6 DEF SaveOutcome, Proceeds, TypeOK
<1>7. QED BY <1>5, <1>6 DEF Save

CutOutcome(a) ==
    /\ Proceeds(a)
    /\ attempt[a].at \in {"execute", "save"} /\ attempt'[a].at = "cut"
    /\ attempt'[a].outcome = attempt[a].outcome
    /\ record' = record
    /\ unsaved' = unsaved \cup (IF attempt[a].at = "save" THEN {a} ELSE {})

LEMMA CutSteps ==
    ASSUME TypeOK, NEW a \in Attempts, Cut(a)
    PROVE  CutOutcome(a) /\ TypeOK'
<1>1. /\ attempt[a].at \in {"execute", "save"}
      /\ attempt' = [attempt EXCEPT ![a].at = "cut"]
      /\ unsaved' = IF attempt[a].at = "save" THEN unsaved \cup {a} ELSE unsaved
      /\ UNCHANGED <<record, changed, before>>
  BY DEF Cut
<1>2. attempt[a] \in Attempt
  BY DEF TypeOK
<1>3. /\ attempt' \in [Attempts -> Attempt]
      /\ attempt'[a].at = "cut" /\ attempt'[a].outcome = attempt[a].outcome
      /\ attempt'[a].key = attempt[a].key /\ attempt'[a].input = attempt[a].input
      /\ \A b \in Attempts \ {a} : attempt'[b] = attempt[b]
  BY <1>1, <1>2 DEF TypeOK, Attempt, Ended
<1>4. QED BY <1>1, <1>3 DEF CutOutcome, Proceeds, TypeOK

-----------------------------------------------------------------------------
LEMMA InitHolds == Init => IdemInv
<1> SUFFICES ASSUME Init PROVE IdemInv
  OBVIOUS
<1>1. /\ \A k \in Keys : ~Recorded(k)
      /\ \A a \in Attempts : attempt[a] = NewAttempt /\ before[a] = {}
  BY DEF Init, Recorded
<1>2. TypeOK
  BY DEF Init, TypeOK, Attempt, NewAttempt
<1>3. Over = {}
  BY <1>1 DEF Over, NewAttempt, Ended
<1>4. RecordsHold /\ ReplaysHold /\ ProgressHolds
  BY <1>1 DEF RecordsHold, ReplaysHold, ProgressHolds, NewAttempt, Executed
<1>5. SavesHold /\ PastHolds /\ NoRepeatAfterSave
  BY <1>1, <1>3 DEF SavesHold, PastHolds, NoRepeatAfterSave, NewAttempt, Executed
<1>6. QED BY <1>2, <1>4, <1>5 DEF IdemInv

LEMMA LookupKeeps ==
    ASSUME IdemInv, NEW a \in Attempts, Lookup(a)
    PROVE  IdemInv'
<1> USE DEF IdemInv
<1>1. LookupOutcome(a) /\ TypeOK'
  BY LookupSteps
<1>2. \A k \in Keys : record[k].by # a \/ ~Recorded(k)
  BY <1>1 DEF RecordsHold, LookupOutcome
<1>3. \A b \in Attempts : a \notin before[b]
  BY <1>1 DEF PastHolds, LookupOutcome, Over, Ended
<1>4. /\ a \notin Over
      /\ Over \subseteq Over'
      /\ Over' \subseteq Over \cup {a}
  BY <1>1 DEF Over, LookupOutcome, Ended
<1>5. RecordsHold'
  BY <1>1, <1>2 DEF LookupOutcome, RecordsHold, Recorded, Executed
<1>6. ReplaysHold'
  BY <1>1 DEF LookupOutcome, ReplaysHold, Recorded
<1>7. ProgressHolds'
  BY <1>1 DEF LookupOutcome, ProgressHolds, Executed
<1>8. SavesHold'
  BY <1>1, <1>4 DEF LookupOutcome, SavesHold, Recorded, Executed, Ended
<1>9. PastHolds'
  BY <1>1, <1>4 DEF LookupOutcome, PastHolds
<1>10. NoRepeatAfterSave'
  <2> SUFFICES ASSUME NEW c \in Attempts, NEW b \in Attempts,
                      Executed(c)', attempt'[b].at = "execute",
                      attempt'[c].key = attempt'[b].key, c \in before'[b]
               PROVE  c \in unsaved'
    BY DEF NoRepeatAfterSave
  <2>1. c # a /\ Executed(c) /\ attempt'[c] = attempt[c] /\ unsaved' = unsaved
    BY <1>1 DEF LookupOutcome, Executed
  <2>2. CASE b = a
    BY <1>1, <2>1, <2>2 DEF LookupOutcome, SavesHold, Over
  <2>3. CASE b # a
    BY <1>1, <2>1, <2>3 DEF LookupOutcome, NoRepeatAfterSave
  <2>4. QED BY <2>2, <2>3
<1>11. QED BY <1>1, <1>5, <1>6, <1>7, <1>8, <1>9, <1>10

LEMMA ExecuteKeeps ==
    ASSUME IdemInv, NEW a \in Attempts, Execute(a)
    PROVE  IdemInv'
<1> USE DEF IdemInv
<1>1. ExecuteOutcome(a) /\ TypeOK'
  BY ExecuteSteps
<1>2. Over' = Over /\ a \notin Over
  BY <1>1 DEF ExecuteOutcome, Proceeds, Over, Ended
<1>3. RecordsHold' /\ ReplaysHold'
  BY <1>1 DEF ExecuteOutcome, Proceeds, RecordsHold, ReplaysHold, Recorded, Executed
<1>4. ProgressHolds'
  BY <1>1 DEF ExecuteOutcome, Proceeds, ProgressHolds, Executed
<1>5. SavesHold' /\ PastHolds'
  <2>1. SavesHold'
    BY <1>1 DEF ExecuteOutcome, Proceeds, SavesHold, Recorded, Executed, Ended
  <2>2. PastHolds'
    BY <1>1, <1>2 DEF ExecuteOutcome, Proceeds, PastHolds
  <2>3. QED BY <2>1, <2>2
<1>6. NoRepeatAfterSave'
  BY <1>1, <1>2 DEF ExecuteOutcome, Proceeds, NoRepeatAfterSave, PastHolds, Executed
<1>7. QED BY <1>1, <1>3, <1>4, <1>5, <1>6

LEMMA SaveKeeps ==
    ASSUME IdemInv, NEW a \in Attempts, Save(a)
    PROVE  IdemInv'
<1> USE DEF IdemInv
<1>1. SaveOutcome(a) /\ TypeOK'
  BY SaveSteps
<1>2. Over' = Over \cup {a} /\ a \notin Over
  BY <1>1 DEF SaveOutcome, Proceeds, Over, Ended
<1>3. \A k \in Keys : Recorded(k) => record'[k] = record[k]
  BY FirstOutcomeStays DEF Serve
<1>4. Executed(a) /\ Executed(a)'
  BY <1>1 DEF SaveOutcome, ProgressHolds, Executed
<1>5. RecordsHold'
  BY <1>1, <1>3, <1>4 DEF SaveOutcome, Proceeds, RecordsHold, Recorded, Executed
<1>6. ReplaysHold'
  BY <1>1, <1>3 DEF SaveOutcome, Proceeds, ReplaysHold, Recorded
<1>7. ProgressHolds'
  BY <1>1 DEF SaveOutcome, Proceeds, ProgressHolds, Executed
<1>8. SavesHold'
  BY <1>1, <1>2, <1>3 DEF SaveOutcome, Proceeds, SavesHold, Recorded, Executed, Ended
<1>9. PastHolds'
  BY <1>1, <1>2 DEF SaveOutcome, Proceeds, PastHolds
<1>10. NoRepeatAfterSave'
  BY <1>1, <1>2 DEF SaveOutcome, Proceeds, NoRepeatAfterSave, PastHolds, Executed
<1>11. QED BY <1>1, <1>5, <1>6, <1>7, <1>8, <1>9, <1>10

LEMMA CutKeeps ==
    ASSUME IdemInv, NEW a \in Attempts, Cut(a)
    PROVE  IdemInv'
<1> USE DEF IdemInv
<1>1. CutOutcome(a) /\ TypeOK'
  BY CutSteps
<1>2. Over' = Over \cup {a} /\ a \notin Over
  BY <1>1 DEF CutOutcome, Proceeds, Over, Ended
<1>3. RecordsHold' /\ ReplaysHold'
  BY <1>1 DEF CutOutcome, Proceeds, RecordsHold, ReplaysHold, Recorded, Executed
<1>4. ProgressHolds'
  BY <1>1 DEF CutOutcome, Proceeds, ProgressHolds, Executed
<1>5. SavesHold'
  BY <1>1, <1>2 DEF CutOutcome, Proceeds, SavesHold, ProgressHolds, Recorded, Executed, Ended
<1>6. PastHolds'
  BY <1>1, <1>2 DEF CutOutcome, Proceeds, PastHolds
<1>7. NoRepeatAfterSave'
  BY <1>1, <1>2 DEF CutOutcome, Proceeds, NoRepeatAfterSave, PastHolds, Executed
<1>8. QED BY <1>1, <1>3, <1>4, <1>5, <1>6, <1>7

LEMMA StutterKeeps ==
    ASSUME IdemInv, UNCHANGED idemVars
    PROVE  IdemInv'
BY DEF idemVars, IdemInv, TypeOK, RecordsHold, ReplaysHold, ProgressHolds, SavesHold,
       PastHolds, NoRepeatAfterSave, Recorded, Executed, Over

LEMMA InvariantHolds == Spec => []IdemInv
<1>1. IdemInv /\ [Next]_idemVars => IdemInv'
  BY LookupKeeps, ExecuteKeeps, SaveKeeps, CutKeeps, StutterKeeps DEF Next, Serve
<1>2. QED BY <1>1, InitHolds, PTL DEF Spec

-----------------------------------------------------------------------------
\* executeRequest, the lookup: whatever races for a key, a replay shows the
\* outcome of an execution of the same key with the same input.
THEOREM ReplayFitsAlways == Spec => []ReplayFits
<1>1. IdemInv => ReplayFits
  BY DEF IdemInv, RecordsHold, ReplaysHold, ProgressHolds, ReplayFits
<1>2. QED BY <1>1, InvariantHolds, PTL

\* Save, ON CONFLICT DO NOTHING: all replays of a key show the same execution,
\* in whatever order attempts save and replay.
THEOREM ReplaysAgreeAlways == Spec => []ReplaysAgree
<1>1. IdemInv => ReplaysAgree
  BY DEF IdemInv, ReplaysHold, ReplaysAgree
<1>2. QED BY <1>1, InvariantHolds, PTL

\* executeRequest saves failures too: an attempt repeats an execution that had
\* ended before it began only if the outcome of that one was not saved.
THEOREM NoRepeatAlways == Spec => []NoRepeatAfterSave
<1>1. IdemInv => NoRepeatAfterSave
  BY DEF IdemInv
<1>2. QED BY <1>1, InvariantHolds, PTL

\* executeRequest and Save: records, attempts and their histories keep their
\* shape, whatever is cut off or lost in between.
THEOREM TypeCorrect == Spec => []TypeOK
<1>1. IdemInv => TypeOK
  BY DEF IdemInv
<1>2. QED BY <1>1, InvariantHolds, PTL
==============================================================================
