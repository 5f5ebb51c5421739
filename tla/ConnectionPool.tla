---------------------------- MODULE ConnectionPool ----------------------------
(***************************************************************************)
(* Connections and row locks: the statements of the service's methods take *)
(* connections from one pool, some of them while their transaction holds   *)
(* another one, and wait for rows that other transactions have locked.     *)
(***************************************************************************)
EXTENDS Naturals, Sequences, FiniteSets

CONSTANTS
    Requests,     \* requests in flight (goroutines)
    Connections,  \* the connections of the pool (pgxpool's MaxConns)
    Rows,         \* rows of each class
    NONE          \* no connection, request or method

\* What is locked: an entry as a draft or as a posted one, an invoice, and the
\* key (period, voucher number) of an entry that is being inserted.  VoidTx waits
\* for a posted entry, PostTx for a draft: a void chooses the transaction only
\* when it read "posted", and no statement turns that into a draft again.
Classes == {"draft", "invoice", "voucher", "posted"}

Step(do, on) == [do |-> do, on |-> on]
Query        == Step("query", "draft")       \* one SELECT on the pool
Update(on)   == Step("update", on)           \* one UPDATE or INSERT on the pool
Begin        == Step("begin", "draft")       \* db.Begin, or rows kept open
Lock(on)     == Step("lock", on)             \* a statement of the transaction
Nested       == Step("nested", "draft")      \* the pool, inside the transaction
Background   == Step("background", "draft")  \* the same, never cancelled
End          == Step("end", "draft")         \* Commit, or rows.Close

\* The methods by what they ask of the pool and the rows.  Statements of one sort
\* that follow each other count once; what a method reads or records after its last
\* write, when it holds nothing any more, and methods that only read, are left out:
\* they ask for less than these.  So is SetDefault, whose transaction locks books.
Rejecting  == <<Update("invoice"), Query>>
Creating   == <<Query, Update("voucher")>>
Discarding == <<Query, Update("draft")>>
TooLate    == <<Query, Update("posted")>>    \* the same, when it was posted since
Listing    == <<Begin, Nested, End>>
Approving  == <<Query, Begin, Lock("invoice"), Nested, Background,
                Lock("voucher"), End>>
Posting    == <<Query, Begin, Lock("draft"), Nested, Lock("invoice"), End>>
Voiding    == <<Query, Begin, Background, Lock("voucher"), Nested,
                Lock("posted"), Nested, End>>

Script ==
    [reject |-> Rejecting, create |-> Creating, discard |-> Discarding,
     tooLate |-> TooLate, list |-> Listing, approve |-> Approving,
     post |-> Posting, void |-> Voiding]

Methods == DOMAIN Script

ASSUME PoolAssumption ==
    /\ IsFiniteSet(Requests) /\ IsFiniteSet(Connections)
    /\ NONE \notin Requests \cup Connections \cup Methods

VARIABLES
    method,  \* the method a request runs, NONE when there is none
    pos,     \* its next statement
    aim,     \* the row of each class it is about
    tx,      \* the connection of its transaction
    stmt,    \* the connection of its statement on the pool
    lock     \* who has locked a row

vars == <<method, pos, aim, tx, stmt, lock>>

Busy(r) == method[r] # NONE
InFlight == {r \in Requests : Busy(r)}
Now(r)  == Script[method[r]][pos[r]]
Does(r, kinds) == Busy(r) /\ Now(r).do \in kinds
OnPool  == {"query", "update", "nested", "background"}

Free == {c \in Connections : \A r \in Requests : tx[r] # c /\ stmt[r] # c}
Target(r) == <<Now(r).on, aim[r][Now(r).on]>>

Init ==
    /\ method = [r \in Requests |-> NONE]
    /\ pos = [r \in Requests |-> 1]
    /\ aim \in [Requests -> [Classes -> Rows]]
    /\ tx = [r \in Requests |-> NONE]
    /\ stmt = [r \in Requests |-> NONE]
    /\ lock = [l \in Classes \X Rows |-> NONE]

-----------------------------------------------------------------------------
\* Mutant: the method goes on after its last statement.
AdvanceBeyond(r) ==
    pos' = [pos EXCEPT ![r] = @ + 1] /\ UNCHANGED method

\* The next statement, or the end of the method.
Advance(r) ==
    IF pos[r] = Len(Script[method[r]])
    THEN method' = [method EXCEPT ![r] = NONE] /\ pos' = [pos EXCEPT ![r] = 1]
    ELSE pos' = [pos EXCEPT ![r] = @ + 1] /\ UNCHANGED method

\* Mutant: the end of a transaction leaves the invoices locked.
UnlockedButInvoices(r) ==
    [l \in DOMAIN lock |->
        IF lock[l] = r /\ l[1] # "invoice" THEN NONE ELSE lock[l]]

Unlocked(r) == [l \in DOMAIN lock |-> IF lock[l] = r THEN NONE ELSE lock[l]]

Arrive(r) ==
    /\ ~Busy(r)
    /\ \E m \in Methods, rows \in [Classes -> Rows] :
          /\ method' = [method EXCEPT ![r] = m]
          /\ aim' = [aim EXCEPT ![r] = rows]
    /\ UNCHANGED <<pos, tx, stmt, lock>>

\* Pool.Exec, Query and QueryRow acquire a connection first ...
Acquire(r) ==
    /\ Does(r, OnPool) /\ stmt[r] = NONE
    /\ \E c \in Free : stmt' = [stmt EXCEPT ![r] = c]
    /\ UNCHANGED <<method, pos, aim, tx, lock>>

\* ... and give it back when the statement is done, which for an UPDATE means
\* that no transaction has the row.
Finish(r) ==
    /\ Does(r, OnPool) /\ stmt[r] # NONE
    /\ Does(r, {"update"}) => lock[Target(r)] = NONE
    /\ stmt' = [stmt EXCEPT ![r] = NONE]
    /\ Advance(r)
    /\ UNCHANGED <<aim, tx, lock>>

BeginTx(r) ==
    /\ Does(r, {"begin"})
    /\ \E c \in Free : tx' = [tx EXCEPT ![r] = c]
    /\ Advance(r)
    /\ UNCHANGED <<aim, stmt, lock>>

LockRow(r) ==
    /\ Does(r, {"lock"})
    /\ lock[Target(r)] = NONE
    /\ lock' = [lock EXCEPT ![Target(r)] = r]
    /\ Advance(r)
    /\ UNCHANGED <<aim, tx, stmt>>

\* Mutant: a transaction that is not ended on the way out.
ReleasesLocksOnly(r) ==
    lock' = Unlocked(r) /\ UNCHANGED <<tx, stmt>>

\* Commit, or the deferred Rollback: the locks and the connections are free.
Releases(r) ==
    /\ lock' = Unlocked(r)
    /\ tx' = [tx EXCEPT ![r] = NONE]
    /\ stmt' = [stmt EXCEPT ![r] = NONE]

EndTx(r) ==
    /\ Does(r, {"end"})
    /\ Releases(r)
    /\ Advance(r)
    /\ UNCHANGED aim

\* A statement fails, or the client is gone and the request's context ends its
\* waiting.  context.Background() is never cancelled, and the errors of what
\* runs under it are ignored.
Fail(r) ==
    /\ Busy(r) /\ ~Does(r, {"background"})
    /\ Releases(r)
    /\ method' = [method EXCEPT ![r] = NONE]
    /\ pos' = [pos EXCEPT ![r] = 1]
    /\ UNCHANGED aim

Proceed(r) == Acquire(r) \/ Finish(r) \/ BeginTx(r) \/ LockRow(r) \/ EndTx(r)

Next == \E r \in Requests : Arrive(r) \/ Proceed(r) \/ Fail(r)

Spec == Init /\ [][Next]_vars

\* The pool's queue and PostgreSQL's lock queues are first come, first served:
\* who can proceed again and again does.
FairSpec == Spec /\ \A r \in Requests : SF_vars(Proceed(r))

-----------------------------------------------------------------------------
TypeOK ==
    /\ method \in [Requests -> Methods \cup {NONE}]
    /\ pos \in [Requests -> Nat \ {0}]
    /\ \A r \in InFlight : pos[r] <= Len(Script[method[r]])
    /\ aim \in [Requests -> [Classes -> Rows]]
    /\ tx \in [Requests -> Connections \cup {NONE}]
    /\ stmt \in [Requests -> Connections \cup {NONE}]
    /\ lock \in [Classes \X Rows -> Requests \cup {NONE}]

\* What a request may have to wait for: a connection, or a row.
WaitsForConnection(r) ==
    /\ Free = {}
    /\ Does(r, {"begin"}) \/ (Does(r, OnPool) /\ stmt[r] = NONE)

WaitsForRow(r) ==
    /\ Does(r, {"lock"}) \/ (Does(r, {"update"}) /\ stmt[r] # NONE)
    /\ lock[Target(r)] # NONE

Waits(r) == WaitsForConnection(r) \/ WaitsForRow(r)

Spare == Cardinality(InFlight) < Cardinality(Connections)

\* ApproveInvoice, PostJournalEntry, VoidJournalEntry and List take a second
\* connection while they hold one and locks: with fewer requests in flight than
\* connections, they never all wait for each other.
SomeoneMoves == Spare /\ InFlight # {} => \E r \in InFlight : ~Waits(r)

\* With fewer requests in flight than connections, every request comes to its
\* end, though others take connections and locks all the time.
EveryRequestEnds == []Spare => \A r \in Requests : Busy(r) ~> ~Busy(r)
==============================================================================
