------------------------------ MODULE PoolProofs ------------------------------
(***************************************************************************)
(* With fewer requests in flight than connections, one of them can always  *)
(* go on: SomeoneMoves for every pool and every set of requests.           *)
(***************************************************************************)
EXTENDS ConnectionPool, FiniteSetTheorems, TLAPS

-----------------------------------------------------------------------------
(* What the methods have in common *)

\* The order in which transactions lock rows.
Rank == [draft |-> 1, invoice |-> 2, voucher |-> 3, posted |-> 4]

\* After its begin a method only locks, nests and ends; it locks in the order of
\* Rank and touches no other row that could be locked; and it closes what it began.
Shape(s) ==
    /\ \A i, j \in 1..Len(s) : i < j /\ s[i].do = "begin" =>
          s[j].do \in {"lock", "nested", "background", "end"}
    /\ \A i, j \in 1..Len(s) :
          i < j /\ s[i].do = "lock" /\ s[j].do \in {"lock", "update"} =>
             s[j].do = "lock" /\ Rank[s[i].on] < Rank[s[j].on]
    /\ \A i \in 1..Len(s) : s[i].do \in {"begin", "lock"} =>
          i < Len(s) /\ s[Len(s)].do = "end"
    /\ \A i \in 1..Len(s) : s[i].on \in Classes
    /\ Len(s) \in Nat \ {0}

LEMMA Shapes == \A m \in Methods : Shape(Script[m])
<1> USE DEF Shape, Rank, Classes, Step, Query, Update, Begin, Lock, Nested,
            Background, End
<1> USE DEF Rejecting, Creating, Discarding, TooLate, Listing, Approving, Posting,
            Voiding
<1>1. Shape(Script.reject)   BY DEF Script
<1>2. Shape(Script.create)   BY DEF Script
<1>3. Shape(Script.discard)  BY DEF Script
<1>4. Shape(Script.list)     BY DEF Script
<1>5. Shape(Script.approve)  BY DEF Script
<1>6. Shape(Script.post)     BY DEF Script
<1>7. Shape(Script.void)     BY DEF Script
<1>8. Shape(Script.tooLate)  BY DEF Script
<1>9. Methods = {"reject", "create", "discard", "tooLate", "list", "approve",
                 "post", "void"}
      BY DEF Methods, Script
<1> QED
  <2> HIDE DEF Shape
  <2> QED  BY <1>1, <1>2, <1>3, <1>4, <1>5, <1>6, <1>7, <1>8, <1>9

-----------------------------------------------------------------------------
(* The inductive invariant *)

Began(r) == \E j \in 1..(pos[r] - 1) : Script[method[r]][j].do = "begin"

LockedBefore(r, class) ==
    \E j \in 1..(pos[r] - 1) : /\ Script[method[r]][j].do = "lock"
                               /\ Script[method[r]][j].on = class

\* A request has a transaction's connection only after its begin, a statement's
\* only at a statement on the pool, and none when it is not in flight.
HoldsOK(r) ==
    /\ ~Busy(r) => pos[r] = 1 /\ tx[r] = NONE /\ stmt[r] = NONE
    /\ tx[r] # NONE => Began(r)
    /\ stmt[r] # NONE => Does(r, OnPool)

\* No connection is given out twice.
Apart ==
    \A r, q \in Requests :
        /\ tx[r] # NONE /\ tx[r] = tx[q] => r = q
        /\ stmt[r] # NONE /\ stmt[r] = stmt[q] => r = q
        /\ tx[r] # NONE => tx[r] # stmt[q]

\* A row is locked by a request that is past its statement for that class.
LocksOK ==
    \A l \in Classes \X Rows, q \in Requests :
        lock[l] = q => Busy(q) /\ LockedBefore(q, l[1])

PoolInv == TypeOK /\ (\A r \in Requests : HoldsOK(r)) /\ Apart /\ LocksOK

LEMMA PoolInit == Init => PoolInv
  BY PoolAssumption
  DEF PoolAssumption, Init, PoolInv, TypeOK, HoldsOK, Apart, LocksOK, Busy, InFlight

\* Where a request that is in flight stands in its method.
LEMMA Position ==
    ASSUME TypeOK, NEW r \in Requests, Busy(r)
    PROVE  /\ method[r] \in Methods /\ Shape(Script[method[r]])
           /\ pos[r] \in 1..Len(Script[method[r]])
           /\ Len(Script[method[r]]) \in Nat
<1>1. method[r] \in Methods  BY DEF TypeOK, Busy
<1>2. Shape(Script[method[r]])  BY <1>1, Shapes
<1>3. Len(Script[method[r]]) \in Nat  BY <1>2 DEF Shape
<1> QED  BY <1>1, <1>2, <1>3 DEF TypeOK, InFlight

\* After the begin: what the statement of a transaction can be.
LEMMA InTransaction ==
    ASSUME TypeOK, NEW r \in Requests, Busy(r), Began(r)
    PROVE  /\ Now(r).do \in {"lock", "nested", "background", "end"}
           /\ pos[r] = Len(Script[method[r]]) => Now(r).do = "end"
<1> DEFINE s == Script[method[r]]
<1>1. PICK j \in 1..(pos[r] - 1) : s[j].do = "begin"  BY DEF Began
<1>2. Shape(s) /\ pos[r] \in 1..Len(s) /\ Len(s) \in Nat  BY Position
<1>3. j \in 1..Len(s) /\ j < pos[r]  BY <1>2
<1> HIDE DEF s
<1>4. /\ s[pos[r]].do \in {"lock", "nested", "background", "end"}
      /\ s[Len(s)].do = "end"
      BY <1>1, <1>2, <1>3 DEF Shape
<1> QED  BY <1>4 DEF Now, s

\* After a lock: rows are waited for in the order of Rank.
LEMMA LockOrder ==
    ASSUME TypeOK, NEW r \in Requests, Busy(r), NEW class, LockedBefore(r, class)
    PROVE  /\ Now(r).do # "update"
           /\ Now(r).do = "lock" => Rank[class] < Rank[Now(r).on]
           /\ pos[r] = Len(Script[method[r]]) => Now(r).do = "end"
<1> DEFINE s == Script[method[r]]
<1>1. PICK j \in 1..(pos[r] - 1) : s[j].do = "lock" /\ s[j].on = class
      BY DEF LockedBefore
<1>2. Shape(s) /\ pos[r] \in 1..Len(s) /\ Len(s) \in Nat  BY Position
<1>3. j \in 1..Len(s) /\ j < pos[r]  BY <1>2
<1> HIDE DEF s
<1>4. /\ s[pos[r]].do \in {"lock", "update"} =>
            s[pos[r]].do = "lock" /\ Rank[class] < Rank[s[pos[r]].on]
      /\ s[Len(s)].do = "end"
      BY <1>1, <1>2, <1>3 DEF Shape
<1> QED  BY <1>4 DEF Now, s

LEMMA AdvanceOutcome ==
    ASSUME TypeOK, NEW r \in Requests, Busy(r), Advance(r)
    PROVE  /\ method' \in [Requests -> Methods \cup {NONE}]
           /\ pos' \in [Requests -> Nat \ {0}]
           /\ \A q \in Requests \ {r} : method'[q] = method[q] /\ pos'[q] = pos[q]
           /\ \/ /\ pos[r] = Len(Script[method[r]])
                 /\ method'[r] = NONE /\ pos'[r] = 1
              \/ /\ pos[r] < Len(Script[method[r]])
                 /\ method'[r] = method[r] /\ pos'[r] = pos[r] + 1
<1> DEFINE n == Len(Script[method[r]])
<1>1. pos[r] \in 1..n /\ n \in Nat  BY Position
<1>2. /\ method \in [Requests -> Methods \cup {NONE}]
      /\ pos \in [Requests -> Nat \ {0}]
      BY DEF TypeOK
<1>3. CASE pos[r] = n
  <2>1. method' = [method EXCEPT ![r] = NONE] /\ pos' = [pos EXCEPT ![r] = 1]
        BY <1>3 DEF Advance
  <2> QED  BY <1>2, <1>3, <2>1
<1>4. CASE pos[r] # n
  <2>1. pos' = [pos EXCEPT ![r] = pos[r] + 1] /\ method' = method
        BY <1>4 DEF Advance
  <2>2. pos[r] < n /\ pos[r] + 1 \in Nat \ {0}  BY <1>1, <1>4
  <2> HIDE DEF n
  <2>3. pos' \in [Requests -> Nat \ {0}]  BY <1>2, <2>1, <2>2
  <2> QED  BY <1>2, <2>1, <2>2, <2>3 DEF n
<1> QED  BY <1>3, <1>4

\* Begin and lock are never the last statement.
LEMMA NotLast ==
    ASSUME TypeOK, NEW r \in Requests, Does(r, {"begin", "lock"})
    PROVE  pos[r] < Len(Script[method[r]]) /\ Now(r).on \in Classes
<1>1. /\ Shape(Script[method[r]]) /\ pos[r] \in 1..Len(Script[method[r]])
      BY Position DEF Does
<1> QED  BY <1>1 DEF Shape, Does, Now

-----------------------------------------------------------------------------
(* What a step leaves alone *)

Others(r) ==
    \A q \in Requests \ {r} : /\ method'[q] = method[q] /\ pos'[q] = pos[q]
                             /\ tx'[q] = tx[q] /\ stmt'[q] = stmt[q]

\* The request goes on, keeps its locks and what it began.
Forward(r) == method'[r] = method[r] /\ pos'[r] = pos[r] + 1

LEMMA ForwardKeeps ==
    ASSUME TypeOK, NEW r \in Requests, Forward(r)
    PROVE  /\ Busy(r) => Busy(r)'
           /\ Began(r) => Began(r)'
           /\ \A class : LockedBefore(r, class) => LockedBefore(r, class)'
<1>1. pos[r] \in Nat \ {0}  BY DEF TypeOK
<1>2. 1..(pos[r] - 1) \subseteq 1..(pos'[r] - 1)  BY <1>1 DEF Forward
<1> QED  BY <1>2 DEF Forward, Busy, Began, LockedBefore

LEMMA OthersKeep ==
    ASSUME PoolInv, NEW r \in Requests, Others(r), NEW q \in Requests \ {r}
    PROVE  /\ HoldsOK(q)' /\ Busy(q)' = Busy(q)
           /\ \A class : LockedBefore(q, class)' = LockedBefore(q, class)
<1>1. HoldsOK(q)  BY DEF PoolInv
<1>2. /\ method'[q] = method[q] /\ pos'[q] = pos[q]
      /\ tx'[q] = tx[q] /\ stmt'[q] = stmt[q]
      BY DEF Others
<1> QED  BY <1>1, <1>2 DEF HoldsOK, Busy, Began, Does, Now, LockedBefore

\* Connections are only given back.
LEMMA FewerConnections ==
    ASSUME PoolInv,
           \A q \in Requests : tx'[q] \in {tx[q], NONE} /\ stmt'[q] \in {stmt[q], NONE}
    PROVE  Apart'
  BY DEF PoolInv, Apart

\* Rows are only unlocked; r keeps those it can account for.
LEMMA FewerLocks ==
    ASSUME PoolInv, NEW r \in Requests, Others(r),
           \A l \in Classes \X Rows :
              /\ lock'[l] \in {lock[l], NONE}
              /\ lock[l] = r /\ lock'[l] = r => Busy(r)' /\ LockedBefore(r, l[1])'
    PROVE  LocksOK'
<1>1. SUFFICES ASSUME NEW l \in Classes \X Rows, NEW q \in Requests, lock'[l] = q
               PROVE  Busy(q)' /\ LockedBefore(q, l[1])'
      BY DEF LocksOK
<1>2. lock[l] = q
      BY <1>1, PoolAssumption DEF PoolAssumption
<1>3. Busy(q) /\ LockedBefore(q, l[1])
      BY <1>2 DEF PoolInv, LocksOK
<1>4. CASE q = r  BY <1>1, <1>2, <1>4
<1>5. CASE q # r  BY <1>3, <1>5, OthersKeep
<1> QED  BY <1>4, <1>5

LEMMA Assemble ==
    ASSUME PoolInv, NEW r \in Requests, Others(r), TypeOK', HoldsOK(r)', Apart', LocksOK'
    PROVE  PoolInv'
<1>1. \A q \in Requests : HoldsOK(q)'  BY OthersKeep
<1> QED  BY <1>1 DEF PoolInv

-----------------------------------------------------------------------------
(* The steps *)

\* Type correctness of a step that advances.
LEMMA AdvanceTypes ==
    ASSUME TypeOK, NEW r \in Requests, Busy(r), Advance(r), aim' = aim,
           tx' \in [Requests -> Connections \cup {NONE}],
           stmt' \in [Requests -> Connections \cup {NONE}],
           lock' \in [Classes \X Rows -> Requests \cup {NONE}]
    PROVE  TypeOK'
<1>1. \A q \in Requests : method'[q] # NONE => pos'[q] <= Len(Script[method'[q]])
  <2>1. \A q \in Requests \ {r} : method'[q] = method[q] /\ pos'[q] = pos[q]
        BY AdvanceOutcome
  <2>2. \/ method'[r] = NONE
        \/ /\ pos[r] < Len(Script[method[r]])
           /\ method'[r] = method[r] /\ pos'[r] = pos[r] + 1
        BY AdvanceOutcome
  <2>3. pos[r] \in 1..Len(Script[method[r]]) /\ Len(Script[method[r]]) \in Nat
        BY Position
  <2>4. method'[r] # NONE => pos'[r] <= Len(Script[method'[r]])
        BY <2>2, <2>3
  <2> QED  BY <2>1, <2>4 DEF TypeOK, InFlight, Busy
<1> QED  BY <1>1, AdvanceOutcome DEF TypeOK, InFlight, Busy

LEMMA ArriveKeeps == ASSUME PoolInv, NEW r \in Requests, Arrive(r) PROVE PoolInv'
<1>1. PICK m \in Methods, rows \in [Classes -> Rows] :
         /\ method' = [method EXCEPT ![r] = m]
         /\ aim' = [aim EXCEPT ![r] = rows]
      BY DEF Arrive
<1>2. /\ ~Busy(r) /\ UNCHANGED <<pos, tx, stmt, lock>> /\ TypeOK /\ HoldsOK(r)
      BY DEF Arrive, PoolInv
<1>3. method'[r] = m /\ \A q \in Requests \ {r} : method'[q] = method[q]
      BY <1>1, <1>2 DEF TypeOK
<1>4. Others(r)  BY <1>2, <1>3 DEF Others
<1>5. pos[r] = 1 /\ tx[r] = NONE /\ stmt[r] = NONE  BY <1>2 DEF HoldsOK
<1>6. TypeOK'
  <2>1. /\ method' \in [Requests -> Methods \cup {NONE}]
        /\ aim' \in [Requests -> [Classes -> Rows]]
        BY <1>1, <1>2 DEF TypeOK
  <2>2. Len(Script[m]) \in Nat \ {0}  BY Shapes DEF Shape
  <2>3. \A q \in Requests : method'[q] # NONE => pos'[q] <= Len(Script[method'[q]])
        BY <1>2, <1>3, <1>5, <2>2 DEF TypeOK, InFlight, Busy
  <2> QED  BY <1>2, <2>1, <2>3 DEF TypeOK, InFlight, Busy
<1>7. HoldsOK(r)'
  <2>1. m # NONE  BY PoolAssumption DEF PoolAssumption
  <2> QED  BY <1>2, <1>3, <1>5, <2>1 DEF HoldsOK, Busy
<1>8. Apart'  BY <1>2, FewerConnections
<1>9. LocksOK'
  <2>1. \A l \in Classes \X Rows : lock[l] # r
        BY <1>2 DEF PoolInv, LocksOK
  <2> QED  BY <1>2, <1>4, <2>1, FewerLocks
<1> QED  BY <1>4, <1>6, <1>7, <1>8, <1>9, Assemble

LEMMA AcquireKeeps == ASSUME PoolInv, NEW r \in Requests, Acquire(r) PROVE PoolInv'
<1>1. PICK c \in Free : stmt' = [stmt EXCEPT ![r] = c]  BY DEF Acquire
<1>2. /\ Does(r, OnPool) /\ UNCHANGED <<method, pos, aim, tx, lock>>
      /\ TypeOK /\ HoldsOK(r) /\ Apart
      BY DEF Acquire, PoolInv
<1>3. stmt'[r] = c /\ \A q \in Requests \ {r} : stmt'[q] = stmt[q]
      BY <1>1, <1>2 DEF TypeOK
<1>4. Others(r)  BY <1>2, <1>3 DEF Others
<1>5. TypeOK'
  <2>1. stmt' \in [Requests -> Connections \cup {NONE}]
        BY <1>1, <1>2 DEF TypeOK, Free
  <2> QED  BY <1>2, <2>1 DEF TypeOK, InFlight, Busy
<1>6. HoldsOK(r)'
      BY <1>2 DEF HoldsOK, Does, Busy, Now, Began
<1>7. Apart'
      BY <1>2, <1>3 DEF Apart, Free
<1>8. LocksOK'
      BY <1>2 DEF PoolInv, LocksOK, Busy, LockedBefore
<1> QED  BY <1>4, <1>5, <1>6, <1>7, <1>8, Assemble

LEMMA FinishKeeps == ASSUME PoolInv, NEW r \in Requests, Finish(r) PROVE PoolInv'
<1>1. /\ Does(r, OnPool) /\ Busy(r) /\ Now(r).do \in OnPool
      /\ stmt' = [stmt EXCEPT ![r] = NONE]
      /\ Advance(r) /\ UNCHANGED <<aim, tx, lock>>
      /\ TypeOK /\ HoldsOK(r)
      BY DEF Finish, PoolInv, Does
<1>2. stmt'[r] = NONE /\ \A q \in Requests \ {r} : stmt'[q] = stmt[q]
      BY <1>1 DEF TypeOK
<1>3. Others(r)  BY <1>1, <1>2, AdvanceOutcome DEF Others
<1>4. TypeOK'
  <2>1. /\ stmt' \in [Requests -> Connections \cup {NONE}]
        /\ tx' \in [Requests -> Connections \cup {NONE}]
        /\ lock' \in [Classes \X Rows -> Requests \cup {NONE}]
        BY <1>1 DEF TypeOK
  <2> QED  BY <1>1, <2>1, AdvanceTypes
<1>5. Now(r).do # "end"  BY <1>1 DEF OnPool
\* At its last statement the request has neither transaction nor locks.
<1>6. CASE pos[r] = Len(Script[method[r]])
  <2>1. tx[r] = NONE
        BY <1>1, <1>5, <1>6, InTransaction DEF HoldsOK
  <2>2. \A l \in Classes \X Rows : lock[l] # r
        BY <1>1, <1>5, <1>6, LockOrder DEF PoolInv, LocksOK
  <2>3. method'[r] = NONE /\ pos'[r] = 1
        BY <1>1, <1>6, AdvanceOutcome
  <2>4. HoldsOK(r)'  BY <1>1, <1>2, <2>1, <2>3 DEF HoldsOK, Busy
  <2>5. LocksOK'     BY <1>1, <1>3, <2>2, FewerLocks
  <2>6. Apart'       BY <1>1, <1>2, FewerConnections
  <2> QED  BY <1>3, <1>4, <2>4, <2>5, <2>6, Assemble
<1>7. CASE pos[r] # Len(Script[method[r]])
  <2>1. Forward(r)  BY <1>1, <1>7, AdvanceOutcome DEF Forward
  <2>2. Busy(r)' /\ (Began(r) => Began(r)')
        /\ \A class : LockedBefore(r, class) => LockedBefore(r, class)'
        BY <1>1, <2>1, ForwardKeeps
  <2>3. HoldsOK(r)'  BY <1>1, <1>2, <2>2 DEF HoldsOK
  <2>4. LocksOK'
    <3>1. \A l \in Classes \X Rows : lock[l] = r => LockedBefore(r, l[1])
          BY DEF PoolInv, LocksOK
    <3> QED  BY <1>1, <1>3, <2>2, <3>1, FewerLocks
  <2>5. Apart'       BY <1>1, <1>2, FewerConnections
  <2> QED  BY <1>3, <1>4, <2>3, <2>4, <2>5, Assemble
<1> QED  BY <1>6, <1>7

LEMMA BeginKeeps == ASSUME PoolInv, NEW r \in Requests, BeginTx(r) PROVE PoolInv'
<1>1. PICK c \in Free : tx' = [tx EXCEPT ![r] = c]  BY DEF BeginTx
<1>2. /\ Busy(r) /\ Now(r).do = "begin" /\ Does(r, {"begin", "lock"})
      /\ Advance(r) /\ UNCHANGED <<aim, stmt, lock>>
      /\ TypeOK /\ HoldsOK(r) /\ Apart
      BY DEF BeginTx, PoolInv, Does
<1>3. tx'[r] = c /\ \A q \in Requests \ {r} : tx'[q] = tx[q]
      BY <1>1, <1>2 DEF TypeOK
<1>4. Others(r)  BY <1>2, <1>3, AdvanceOutcome DEF Others
<1>5. Forward(r)  BY <1>2, NotLast, AdvanceOutcome DEF Forward
<1>6. /\ Busy(r)'
      /\ \A class : LockedBefore(r, class) => LockedBefore(r, class)'
      BY <1>2, <1>5, ForwardKeeps
<1>7. TypeOK'
  <2>1. /\ tx' \in [Requests -> Connections \cup {NONE}]
        /\ stmt' \in [Requests -> Connections \cup {NONE}]
        /\ lock' \in [Classes \X Rows -> Requests \cup {NONE}]
        BY <1>1, <1>2 DEF TypeOK, Free
  <2> QED  BY <1>2, <2>1, AdvanceTypes
<1>8. HoldsOK(r)'
  <2>1. stmt[r] = NONE  BY <1>2 DEF HoldsOK, Does, OnPool
  <2>2. Began(r)'
    <3>1. pos[r] \in 1..(pos'[r] - 1)  BY <1>2, <1>5 DEF Forward, TypeOK
    <3> QED  BY <1>2, <1>5, <3>1 DEF Forward, Began, Now
  <2> QED  BY <1>2, <1>6, <2>1, <2>2 DEF HoldsOK
<1>9. Apart'  BY <1>2, <1>3 DEF Apart, Free
<1>10. LocksOK'
  <2>1. \A l \in Classes \X Rows : lock[l] = r => LockedBefore(r, l[1])
        BY DEF PoolInv, LocksOK
  <2> QED  BY <1>2, <1>4, <1>6, <2>1, FewerLocks
<1> QED  BY <1>4, <1>7, <1>8, <1>9, <1>10, Assemble

LEMMA LockKeeps == ASSUME PoolInv, NEW r \in Requests, LockRow(r) PROVE PoolInv'
<1>1. /\ Busy(r) /\ Now(r).do = "lock" /\ Does(r, {"begin", "lock"})
      /\ lock[Target(r)] = NONE
      /\ lock' = [lock EXCEPT ![Target(r)] = r]
      /\ Advance(r) /\ UNCHANGED <<aim, tx, stmt>>
      /\ TypeOK /\ HoldsOK(r)
      BY DEF LockRow, PoolInv, Does
<1>2. Target(r) \in Classes \X Rows /\ Target(r)[1] = Now(r).on
      BY <1>1, NotLast DEF Target, TypeOK
<1>3. /\ lock'[Target(r)] = r
      /\ \A l \in Classes \X Rows : l # Target(r) => lock'[l] = lock[l]
      BY <1>1, <1>2 DEF TypeOK
<1>4. Others(r)  BY <1>1, AdvanceOutcome DEF Others
<1>5. Forward(r)  BY <1>1, NotLast, AdvanceOutcome DEF Forward
<1>6. /\ Busy(r)' /\ (Began(r) => Began(r)')
      /\ \A class : LockedBefore(r, class) => LockedBefore(r, class)'
      BY <1>1, <1>5, ForwardKeeps
<1>7. TypeOK'
  <2>1. /\ tx' \in [Requests -> Connections \cup {NONE}]
        /\ stmt' \in [Requests -> Connections \cup {NONE}]
        /\ lock' \in [Classes \X Rows -> Requests \cup {NONE}]
        BY <1>1 DEF TypeOK
  <2> QED  BY <1>1, <2>1, AdvanceTypes
<1>8. HoldsOK(r)'
  <2>1. stmt[r] = NONE  BY <1>1 DEF HoldsOK, Does, OnPool
  <2> QED  BY <1>1, <1>6, <2>1 DEF HoldsOK
<1>9. Apart'  BY <1>1, FewerConnections
<1>10. LocksOK'
  <2>0. PICK class : class = Now(r).on  OBVIOUS
  <2>1. LockedBefore(r, class)'
    <3>1. pos[r] \in 1..(pos'[r] - 1)  BY <1>1, <1>5 DEF Forward, TypeOK
    <3> QED  BY <1>1, <1>5, <2>0, <3>1 DEF Forward, LockedBefore, Now
  <2>2. SUFFICES ASSUME NEW l \in Classes \X Rows, NEW q \in Requests, lock'[l] = q
                 PROVE  Busy(q)' /\ LockedBefore(q, l[1])'
        BY DEF LocksOK
  <2>3. CASE l = Target(r)
    <3>1. q = r /\ l[1] = class  BY <1>2, <1>3, <2>0, <2>2, <2>3
    <3> QED  BY <1>6, <2>1, <3>1
  <2>4. CASE l # Target(r)
    <3>1. Busy(q) /\ LockedBefore(q, l[1])
          BY <1>3, <2>2, <2>4 DEF PoolInv, LocksOK
    <3>2. CASE q = r  BY <1>6, <3>1, <3>2
    <3>3. CASE q # r  BY <1>4, <3>1, <3>3, OthersKeep
    <3> QED  BY <3>2, <3>3
  <2> QED  BY <2>3, <2>4
<1> QED  BY <1>4, <1>7, <1>8, <1>9, <1>10, Assemble

\* Commit and Rollback leave nothing behind.
LEMMA ReleaseOutcome ==
    ASSUME PoolInv, NEW r \in Requests, Releases(r)
    PROVE  /\ tx' \in [Requests -> Connections \cup {NONE}]
           /\ stmt' \in [Requests -> Connections \cup {NONE}]
           /\ lock' \in [Classes \X Rows -> Requests \cup {NONE}]
           /\ tx'[r] = NONE /\ stmt'[r] = NONE
           /\ \A q \in Requests \ {r} : tx'[q] = tx[q] /\ stmt'[q] = stmt[q]
           /\ \A l \in Classes \X Rows : /\ lock'[l] \in {lock[l], NONE}
                                       /\ lock'[l] # r
<1>1. TypeOK  BY DEF PoolInv
<1>2. DOMAIN lock = Classes \X Rows  BY <1>1 DEF TypeOK
<1>3. r # NONE  BY PoolAssumption DEF PoolAssumption
<1>4. lock' = [l \in Classes \X Rows |-> IF lock[l] = r THEN NONE ELSE lock[l]]
      BY <1>2 DEF Releases, Unlocked
<1>5. /\ lock' \in [Classes \X Rows -> Requests \cup {NONE}]
      /\ \A l \in Classes \X Rows : lock'[l] \in {lock[l], NONE} /\ lock'[l] # r
      BY <1>1, <1>3, <1>4 DEF TypeOK
<1>6. tx' = [tx EXCEPT ![r] = NONE] /\ stmt' = [stmt EXCEPT ![r] = NONE]
      BY DEF Releases
<1> QED  BY <1>1, <1>5, <1>6 DEF TypeOK

LEMMA EndKeeps == ASSUME PoolInv, NEW r \in Requests, EndTx(r) PROVE PoolInv'
<1>1. Busy(r) /\ Releases(r) /\ Advance(r) /\ aim' = aim /\ TypeOK
      BY DEF EndTx, PoolInv, Does
<1>2. Others(r)  BY <1>1, AdvanceOutcome, ReleaseOutcome DEF Others
<1>3. TypeOK'  BY <1>1, AdvanceTypes, ReleaseOutcome
<1>4. HoldsOK(r)'
  <2>1. tx'[r] = NONE /\ stmt'[r] = NONE  BY <1>1, ReleaseOutcome
  <2>2. method'[r] = NONE => pos'[r] = 1
        BY <1>1, AdvanceOutcome DEF Busy
  <2> QED  BY <2>1, <2>2 DEF HoldsOK, Busy
<1>5. Apart'  BY <1>1, ReleaseOutcome, FewerConnections
<1>6. LocksOK'  BY <1>1, <1>2, ReleaseOutcome, FewerLocks
<1> QED  BY <1>2, <1>3, <1>4, <1>5, <1>6, Assemble

LEMMA FailKeeps == ASSUME PoolInv, NEW r \in Requests, Fail(r) PROVE PoolInv'
<1>1. /\ Releases(r) /\ aim' = aim /\ TypeOK
      /\ method' = [method EXCEPT ![r] = NONE] /\ pos' = [pos EXCEPT ![r] = 1]
      BY DEF Fail, PoolInv
<1>2. /\ method'[r] = NONE /\ pos'[r] = 1
      /\ \A q \in Requests \ {r} : method'[q] = method[q] /\ pos'[q] = pos[q]
      BY <1>1 DEF TypeOK
<1>3. Others(r)  BY <1>1, <1>2, ReleaseOutcome DEF Others
<1>4. TypeOK'
  <2>1. /\ method' \in [Requests -> Methods \cup {NONE}]
        /\ pos' \in [Requests -> Nat \ {0}]
        BY <1>1 DEF TypeOK
  <2>2. \A q \in Requests : method'[q] # NONE => pos'[q] <= Len(Script[method'[q]])
        BY <1>1, <1>2 DEF TypeOK, InFlight, Busy
  <2> QED  BY <1>1, <2>1, <2>2, ReleaseOutcome DEF TypeOK, InFlight, Busy
<1>5. HoldsOK(r)'  BY <1>1, <1>2, ReleaseOutcome DEF HoldsOK, Busy
<1>6. Apart'  BY <1>1, ReleaseOutcome, FewerConnections
<1>7. LocksOK'  BY <1>1, <1>3, ReleaseOutcome, FewerLocks
<1> QED  BY <1>3, <1>4, <1>5, <1>6, <1>7, Assemble

LEMMA PoolStep == PoolInv /\ [Next]_vars => PoolInv'
<1> SUFFICES ASSUME PoolInv, [Next]_vars PROVE PoolInv'  OBVIOUS
<1>1. CASE UNCHANGED vars
  <2>1. UNCHANGED <<method, pos, aim, tx, stmt, lock>>  BY <1>1 DEF vars
  <2>2. TypeOK'  BY <2>1 DEF PoolInv, TypeOK, InFlight, Busy
  <2>3. \A r \in Requests : HoldsOK(r)'
        BY <2>1 DEF PoolInv, HoldsOK, Busy, Began, Does, Now
  <2>4. Apart'  BY <2>1 DEF PoolInv, Apart
  <2>5. LocksOK'  BY <2>1 DEF PoolInv, LocksOK, Busy, LockedBefore
  <2> QED  BY <2>2, <2>3, <2>4, <2>5 DEF PoolInv
<1>2. CASE Next
  BY <1>2, ArriveKeeps, AcquireKeeps, FinishKeeps, BeginKeeps, LockKeeps, EndKeeps,
     FailKeeps
  DEF Next, Proceed
<1> QED  BY <1>1, <1>2

-----------------------------------------------------------------------------
(* Somebody moves *)

\* Who holds two connections has what its statement needs.
LEMMA TwoConnections ==
    ASSUME PoolInv, NEW r \in Requests, tx[r] # NONE, stmt[r] # NONE
    PROVE  Busy(r) /\ ~Waits(r)
<1>1. TypeOK /\ HoldsOK(r)  BY DEF PoolInv
<1>2. Busy(r) /\ Began(r) /\ Now(r).do \in OnPool
      BY <1>1 DEF HoldsOK, Does
<1>3. Now(r).do \in {"nested", "background"}
      BY <1>1, <1>2, InTransaction DEF OnPool
<1> QED  BY <1>2, <1>3 DEF Waits, WaitsForConnection, WaitsForRow, Does

\* If no connection is free, fewer requests than connections hold them all: one
\* of them holds two.
LEMMA PoolExhausted ==
    ASSUME PoolInv, Spare, Free = {}
    PROVE  \E r \in InFlight : ~Waits(r)
<1>1. \A c \in Connections : \E r \in InFlight : tx[r] = c \/ stmt[r] = c
  <2>1. SUFFICES ASSUME NEW c \in Connections
                 PROVE  \E r \in InFlight : tx[r] = c \/ stmt[r] = c
        OBVIOUS
  <2>2. PICK r \in Requests : tx[r] = c \/ stmt[r] = c  BY DEF Free
  <2>3. c # NONE  BY PoolAssumption DEF PoolAssumption
  <2>4. Busy(r)  BY <2>2, <2>3 DEF PoolInv, HoldsOK
  <2> QED  BY <2>2, <2>4 DEF InFlight
<1> DEFINE holder == [c \in Connections |->
                         CHOOSE r \in InFlight : tx[r] = c \/ stmt[r] = c]
<1>2. \A c \in Connections :
         holder[c] \in InFlight /\ (tx[holder[c]] = c \/ stmt[holder[c]] = c)
      BY <1>1
<1>3. holder \in [Connections -> InFlight]  BY <1>2
<1>4. IsFiniteSet(Connections) /\ IsFiniteSet(InFlight)
  <2>1. InFlight \subseteq Requests  BY DEF InFlight
  <2> QED  BY <2>1, PoolAssumption, FS_Subset DEF PoolAssumption
<1> HIDE DEF holder
<1>5. PICK c, d \in Connections : c # d /\ holder[c] = holder[d]
      BY <1>3, <1>4, FS_PigeonHole DEF Spare
<1> DEFINE r == holder[c]
<1>6. r \in InFlight /\ r \in Requests  BY <1>2 DEF InFlight
<1>7. c # NONE /\ d # NONE  BY PoolAssumption DEF PoolAssumption
<1>8. tx[r] # NONE /\ stmt[r] # NONE  BY <1>2, <1>5, <1>7
<1> QED  BY <1>6, <1>8, TwoConnections

\* Who waits for a row waits for a request that, if it waits for a row as well,
\* waits for one of a higher rank.
LEMMA WaitsUpward ==
    ASSUME PoolInv, Free # {}, NEW r \in InFlight, Waits(r)
    PROVE  /\ Now(r).on \in Classes
           /\ \E q \in InFlight : Waits(q) => Rank[Now(r).on] < Rank[Now(q).on]
<1>1. r \in Requests /\ Busy(r) /\ TypeOK  BY DEF InFlight, PoolInv
<1>2. lock[Target(r)] # NONE  BY DEF Waits, WaitsForConnection, WaitsForRow
<1>3. Now(r).on \in Classes
      BY <1>1, Position DEF Shape, Now
<1>4. Target(r) \in Classes \X Rows /\ Target(r)[1] = Now(r).on
      BY <1>1, <1>3 DEF Target, TypeOK
<1> DEFINE q == lock[Target(r)]
<1>5. q \in Requests  BY <1>1, <1>2, <1>4 DEF TypeOK
<1>6. Busy(q) /\ LockedBefore(q, Now(r).on)
      BY <1>4, <1>5 DEF PoolInv, LocksOK
<1>7. ASSUME Waits(q) PROVE Rank[Now(r).on] < Rank[Now(q).on]
  <2>1. Now(q).do \in {"lock", "update"}
        BY <1>7 DEF Waits, WaitsForConnection, WaitsForRow, Does
  <2> HIDE DEF q
  <2> QED  BY <1>1, <1>5, <1>6, <2>1, LockOrder
<1> QED  BY <1>3, <1>5, <1>6, <1>7 DEF InFlight

LEMMA RowsFree ==
    ASSUME PoolInv, Free # {}, InFlight # {}
    PROVE  \E r \in InFlight : ~Waits(r)
<1> SUFFICES ASSUME \A r \in InFlight : Waits(r) PROVE FALSE  OBVIOUS
<1>1. \A r \in InFlight : Rank[Now(r).on] \in 1..4
      BY WaitsUpward DEF Rank, Classes
<1>2. \A r \in InFlight : \E q \in InFlight : Rank[Now(r).on] < Rank[Now(q).on]
      BY WaitsUpward
<1> DEFINE Someone(n) == \E r \in InFlight : Rank[Now(r).on] >= n
<1>3. ASSUME NEW n \in 1..4, Someone(n) PROVE Someone(n + 1)
  <2>1. PICK r \in InFlight : Rank[Now(r).on] >= n  BY <1>3
  <2>2. PICK q \in InFlight : Rank[Now(r).on] < Rank[Now(q).on]  BY <1>2
  <2>3. Rank[Now(q).on] >= n + 1  BY <1>1, <2>1, <2>2
  <2> QED  BY <2>3
<1>4. Someone(1)  BY <1>1
<1>5. Someone(2) /\ Someone(3) /\ Someone(4) /\ Someone(5)
  <2> HIDE DEF Someone
  <2>1. Someone(2)  BY <1>3, <1>4
  <2>2. Someone(3)  BY <1>3, <2>1
  <2>3. Someone(4)  BY <1>3, <2>2
  <2>4. Someone(5)  BY <1>3, <2>3
  <2> QED  BY <2>1, <2>2, <2>3, <2>4
<1> QED  BY <1>1, <1>5

\* The methods' nested connections and row locks: as long as fewer requests are
\* in flight than the pool has connections, they never all wait for each other.
THEOREM SomeoneMovesAlways == Spec => []SomeoneMoves
<1>1. PoolInv => SomeoneMoves
      BY PoolExhausted, RowsFree DEF SomeoneMoves
<1> QED  BY <1>1, PoolInit, PoolStep, PTL DEF Spec

\* Begin, acquire and release: requests hold connections of the pool and rows of
\* the tables only, and each stays inside the script of its method.
THEOREM TypeCorrect == Spec => []TypeOK
<1>1. PoolInv => TypeOK
      BY DEF PoolInv
<1> QED  BY <1>1, PoolInit, PoolStep, PTL DEF Spec
==============================================================================
