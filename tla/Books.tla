--------------------------------- MODULE Books ---------------------------------
(***************************************************************************)
(* The accounting books of one entity: which exist, which is the default,  *)
(* and where the documents of requests go that name no book.               *)
(*                                                                         *)
(* SetDefault is one transaction of two UPDATEs under READ COMMITTED.  The *)
(* first clears the flag of every book in the snapshot it takes, one row   *)
(* after the other, waiting for rows that other transactions hold; the     *)
(* second takes a new snapshot and sets the flag of one book.              *)
(***************************************************************************)
EXTENDS FiniteSets

CONSTANTS
    AllBooks,   \* ids of books, those not created yet included
    Switchers,  \* concurrent calls of SetDefault
    Seed,       \* the book migration 019 installs, or NoBook
    NoBook

ASSUME BooksAssumption == NoBook \notin AllBooks /\ Seed \in AllBooks \cup {NoBook}

VARIABLES
    books,      \* rows of accounting_books
    default,    \* those with is_default
    switch,     \* the transactions in flight
    astray,     \* history: the ways in which a document went to an id no book has
    overlap     \* history: a book was created while a transaction was in flight

bookVars == <<books, default, switch, astray, overlap>>

Transaction ==
    [at : {"idle", "clearing"}, target : AllBooks \cup {NoBook},
     seen : SUBSET AllBooks, locked : SUBSET AllBooks]
Idle      == [at |-> "idle", target |-> NoBook, seen |-> {}, locked |-> {}]
InFlight  == {s \in Switchers : switch[s].at # "idle"}
LockedBy(s, b) == b \in switch[s].locked

BooksInit ==
    /\ books = {Seed} \ {NoBook}
    /\ default = {Seed} \ {NoBook}
    /\ switch = [s \in Switchers |-> Idle]
    /\ astray = {}
    /\ overlap = FALSE

-----------------------------------------------------------------------------
\* The handler never asks for a default, so a new book is none.
CreateBook == \E b \in AllBooks \ books :
    /\ books' = books \cup {b}
    /\ overlap' = (overlap \/ InFlight # {})
    /\ UNCHANGED <<default, switch, astray>>

\* Mutant: only the rows that carry the flag are cleared, and locked.
SetDefaultBeginFlagged == \E s \in Switchers, b \in AllBooks :
    /\ switch[s].at = "idle"
    /\ switch' = [switch EXCEPT ![s] =
            [at |-> "clearing", target |-> b, seen |-> default, locked |-> {}]]
    /\ UNCHANGED <<books, default, astray, overlap>>

\* The first UPDATE of SetDefault takes its snapshot; the id may be unknown.
SetDefaultBegin == \E s \in Switchers, b \in AllBooks :
    /\ switch[s].at = "idle"
    /\ switch' = [switch EXCEPT ![s] =
            [at |-> "clearing", target |-> b, seen |-> books, locked |-> {}]]
    /\ UNCHANGED <<books, default, astray, overlap>>

SetDefaultClear == \E s \in Switchers : \E b \in switch[s].seen \ switch[s].locked :
    /\ switch[s].at = "clearing"
    /\ \A r \in Switchers : ~LockedBy(r, b)
    /\ switch' = [switch EXCEPT ![s] =
            [at |-> "clearing", target |-> switch[s].target, seen |-> switch[s].seen,
             locked |-> switch[s].locked \cup {b}]]
    /\ UNCHANGED <<books, default, astray, overlap>>

\* Mutant: the number of rows of the second UPDATE is not looked at.
SetDefaultCommitBlind == \E s \in Switchers :
    LET b == switch[s].target IN
    /\ switch[s].at = "clearing" /\ switch[s].seen = switch[s].locked
    /\ \A r \in Switchers \ {s} : ~LockedBy(r, b)
    /\ default' = (default \ switch[s].seen) \cup ({b} \cap books)
    /\ switch' = [switch EXCEPT ![s] = Idle]
    /\ UNCHANGED <<books, astray, overlap>>

\* The second UPDATE: no such row and everything rolls back, otherwise commit.
SetDefaultCommit == \E s \in Switchers :
    LET b == switch[s].target IN
    /\ switch[s].at = "clearing" /\ switch[s].seen = switch[s].locked
    /\ \A r \in Switchers \ {s} : ~LockedBy(r, b)
    /\ default' = IF b \in books THEN (default \ switch[s].seen) \cup {b} ELSE default
    /\ switch' = [switch EXCEPT ![s] = Idle]
    /\ UNCHANGED <<books, astray, overlap>>

\* A lost client, a crash, or PostgreSQL breaking a deadlock of row locks.
SetDefaultAbort == \E s \in Switchers :
    /\ switch[s].at # "idle"
    /\ switch' = [switch EXCEPT ![s] = Idle]
    /\ UNCHANGED <<books, default, astray, overlap>>

\* An id that is given is looked up, and one that no book has passes: GetByID
\* answers nil without an error, and nil is not looked at.  Without an id it is
\* some default.  When there is none or the SELECT fails, ResolveBook returns
\* an error, which the handler drops: it goes on with the empty id.
ResolveBook(asked, failed) ==
    IF failed THEN {NoBook}
    ELSE IF asked # NoBook THEN {asked}
    ELSE IF default = {} THEN {NoBook} ELSE default

WriteDocument ==
    \E asked \in AllBooks \cup {NoBook}, failed \in BOOLEAN :
    \E b \in ResolveBook(asked, failed) :
        /\ astray' = IF b \in books THEN astray
                     ELSE astray \cup {IF failed THEN "unread"
                                       ELSE IF asked # NoBook THEN "unknown" ELSE "no_default"}
        /\ UNCHANGED <<books, default, switch, overlap>>

BooksNext ==
    \/ CreateBook
    \/ SetDefaultBegin \/ SetDefaultClear \/ SetDefaultCommit \/ SetDefaultAbort
    \/ WriteDocument

BooksSpec == BooksInit /\ [][BooksNext]_bookVars

-----------------------------------------------------------------------------
BooksTypeOK ==
    /\ books \subseteq AllBooks /\ default \subseteq books
    /\ astray \subseteq {"unread", "unknown", "no_default"} /\ overlap \in BOOLEAN
    /\ switch \in [Switchers -> Transaction]
    /\ \A s \in Switchers :
          /\ switch[s].seen \subseteq books /\ switch[s].locked \subseteq switch[s].seen

\* "At most one default book per entity" (docs/03-domain-model.md:54) is what
\* BookStore.SetDefault is to ensure; no unique index does.  It does as long as
\* no book is created while a transaction is in flight: the new book is not in
\* the snapshot that is cleared, and if it becomes the default meanwhile, there
\* are two.
OneDefault == ~overlap => \A b, c \in default : b = c

\* An entity that was given a default book keeps one, whatever ids SetDefault is
\* called with and wherever it is cut off: no document goes astray for want of
\* a default.  The other two ways are open: a failed SELECT of ResolveBook
\* leaves a request with the empty id although a default exists, and an id that
\* no book has is accepted.
DefaultServes == Seed # NoBook => "no_default" \notin astray
==============================================================================
