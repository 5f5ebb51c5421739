# A verification project for the finance provider

The repository is a provider service in Go: an HTTP API of "capabilities" over
the books of a company (invoices, journal entries, accounting periods, tax
figures), stored in PostgreSQL.  This directory holds TLA+ models of it, the TLC
runs that check them and the proofs TLAPS checks.  Line numbers refer to `src/`;
`service.go` is `src/internal/service/service.go`, `handler.go` is
`src/internal/api/handler.go`, and the stores are in `src/internal/store/postgres/`.

Run a model with `tlc -config Ledger_periods.cfg MCFinanceLedger.tla`, the proofs
with `tlapm M.tla` for M in FinanceLedgerProofs, VoucherProofs, IdempotencyProofs,
PoolProofs, SumTheorems, ReportProofs, StatementProofs and BackOfficeProofs.

## 1. Inventory

| Part | State | Operations | Interacts with |
|---|---|---|---|
| HTTP API (`api/handler.go`) | none of its own | execute (V2, V3), preview, validate, resources | calls the service; keeps idempotency records around every writing capability |
| Idempotency (`handler.go:296-377`, `idempotency.go`) | `idempotency_records`, one row per entity, capability and key | Get, Save (ON CONFLICT DO NOTHING) | wraps every write |
| Invoices (`service.go`, `invoice.go`) | `invoices.status`: pending_review, approved, rejected, posted; also verification, usage and deduction statuses, red letter links | create_draft, import_einvoice, approve, reject, red_letter, verify, usage | approval builds a journal draft; posting that draft marks the invoice; the period is asked before most writes |
| Journal (`service.go`, `journal.go`) | `journal_entries` (draft, posted, voided; voucher number; source), `journal_lines` | create_draft, post, batch_post, void, update_draft, trial balance | posting marks the source invoice; the period is asked before most writes |
| Periods (`service.go`, `period.go`) | `accounting_periods.status`: open, closing, closed, locked | close (with CloseCheck), reopen, lock | CloseCheck counts invoices and drafts and reads the trial balance |
| Books and accounts (`book.go`, `account.go`) | books, one of them default; chart of accounts | create, list, set default, resolve | every operation that names no book asks for the default |
| Database (`db.go`) | the connection pool | Begin, queries on the pool | every statement takes a connection |
| Tax engine (`engine/tax.go`, `pit.go`, `cit.go`, `stamp.go`, `adjustments.go`) | none; the caller keeps what was withheld or prepaid | VAT and surcharges, individual and corporate income tax, prepayments, settlement, stamp duty, tax adjustments | the CIT report calls the settlement |
| Reports (`service.go:1390-1760`, `engine/report.go`, `report_mapping.go`) | none (mappings are seeded) | trial and account balance, VAT summary, cross check and return, cross-tax validation, profit statement, balance sheet, CIT report | read posted lines and posted invoices |
| Risk and consistency (`engine/risk.go`, `consistency.go`, `service.go:1826-2050`) | stored scans and checks, read by no operation | detectors, score, risk scan, consistency run, enhanced close check | read posted lines, invoices and bank transactions |
| Reconciliation (`service.go:1300-`, `reconciliation.go`) | shipments, bank transactions and the invoice each is matched to | upsert, match, unmatch, three-way match | lists approved invoices |
| Tax adjustments (`service.go:1784`, `tax.go`) | `tax_adjustments` | upsert of a batch, sum of a year | the CIT report adds the sum |
| Tax returns, profiles, mappings (`tax.go`, `report_mapping.go`) | rows | upserts | - |
| Audit (`audit.go`) | append-only log | Log after every write, error ignored | - |
| Catalog, provider types, configuration, main | static | - | - |

### What is hard here

There is no lock in the Go code.  Every HTTP request is a goroutine, every service
method a sequence of SQL statements on a pool, and only four places open a
transaction (`service.go:421`, `:577`, `:626`, `book.go:104`).  So the hard behaviours are

* **check, then act**: the period status, the entry's status and the voucher number
  are read some statements before they are used (`service.go:551`, `:617`, `:482`);
* **half-written data**: an entry's lines are separate INSERTs (`journal.go:21`);
  `update_draft` voids in one statement and inserts in others (`service.go:1249`);
* **conditional updates** as the only defence (`WHERE status = ...`): the approval,
  the posting, the void and all period changes rest on them;
* **ignored errors**: `closed, _ := IsClosed` fails open, `NextVoucherNo` fails to "",
  the counts of CloseCheck fail to 0, Save of an idempotency record is not looked at;
* **death in the middle**: the process or the client's context may end between any two
  statements; "closing" then stays, an executed request has no record;
* **batches without a transaction**: adjustments are stored one by one (`service.go:1784`), and
  the client that sees an error sends all of them again;
* **protocols kept by the caller**: withholding and prepayments over a year work only if the
  answers of earlier calls come back as arguments of later ones (`pit.go:123`, `cit.go:28`);
* **boundaries**: brackets, exemptions, ceilings and tolerances, where two neighbouring
  amounts take different branches;
* **two sources of one figure**: the VAT return is computed from invoices, the ledger from
  vouchers, and a profit in three different ways;
* **the pool**: methods inside a transaction, and `List` with its rows still open, take a
  second connection (`service.go:928`, `journal.go:130`), some of them under a context
  that is never cancelled.

### What makes each component correct

* Invoices: an approval and its journal draft exist together, once per invoice;
  "posted" is backed by an entry that was posted.
* Journal: a posted entry balances and has all its lines; a reversal belongs to exactly
  one voided entry and mirrors it; voucher numbers of a period are dense and unique.
* Periods: one closer at a time, which gives "closing" back; a close overlooks nothing;
  after it nobody writes but who was under way; "locked" is final.
* Idempotency: a replay shows the outcome of the same request, always the same one, and
  what was saved is not executed again.
* Pool: no set of transactions waits for itself, and every request comes to its end.
* Books: one default book, and always one.  Reconciliation: one payment per invoice.
* Adjustments: what was acknowledged is stored whole and once, whatever was repeated.
* Tax: no larger base with less tax, the table of brackets is a marginal tax, a year of
  single calls comes out like the year at once.
* Reports: the figures from invoices and those from vouchers agree; subtotals are the sums
  of their rows; what is found does not depend on the order in which it was looked at.

## 2. The models

### The ledger: LedgerState, InvoiceService, JournalService, PeriodService, FinanceLedger

`LedgerState` holds the rows of one book and the store's statements; the three service
modules hold the methods, one action per committed statement or transaction;
`FinanceLedger` composes them and states the properties.

| TLA+ | Code |
|---|---|
| `invoice[i]` | a row of `invoices`; `i` stands for the invoice number, unique per book (migration 003) |
| `entry[e]` | a row of `journal_entries` with `lines` of its `size` lines stored; `stamped` is `posted_at IS NOT NULL`; `kind` and `of` record which method built it |
| `period[p]` | `accounting_periods.status`, "absent" when there is no row |
| `req[r]` | one request in flight: `at` is the next statement of its method, the other fields the Go locals the rest of the method uses |
| `stale`, `late` | history, read by no action: who was under way when a period was last closed; which documents entered a period after closing had begun |
| `InvoiceCheck`, `InvoiceFind`, `InvoiceInsert` | CreateInvoiceDraft: IsClosed, FindByInvoiceNo, Create |
| `ImportFind` | ImportEInvoice, which never asks for the period |
| `ApproveGet`, `ApproveCheck`, `ApproveBegin`, `ApproveCommit` | ApproveInvoice: Get, IsClosed, then the transaction from ApproveTx (row lock) to Commit |
| `JournalNumber`, `JournalCheck`, `InsertHeader`, `InsertLine` | CreateJournalDraft and JournalStore.Create, line by line |
| `PostGet`, `PostCheck`, `PostCommit` | PostJournalEntry; batch_post is a request that runs it again and again |
| `VoidGet`, `VoidCheck`, `VoidSimple`, `VoidNumber`, `VoidCommit` | VoidJournalEntry, both branches, chosen by the status read in `VoidGet` |
| `UpdateGet`, `UpdateVoid`, then `InsertHeader`, `InsertLine` | UpdateJournalDraft |
| `CloseBegin`, `CloseInvoices`, `CloseDrafts`, `CloseBalance`, `CloseFinish` | ClosePeriod with the three reads of CloseCheck |
| `ReopenPeriod`, `LockPeriod`, `RejectInvoice` | one conditional UPDATE each |
| `Abort` | the process or the request ends between two statements; an open transaction rolls back |

Abstractions.  Statements are atomic and see what is committed (READ COMMITTED).  A
transaction takes effect at its commit; where it holds an invoice's row lock across
other statements (`approve_begin` to `approve_commit`) the lock is modelled
(`RowLocked`).  The two SELECTs of `JournalStore.Get` are one step (see the comment
at `Snapshot`).  Amounts are not modelled as numbers: `sound` says whether an invoice's
amounts pass `buildJournalDraft`, and whether the first k of n lines balance is the
constant `BalancedPrefix`.  The order of the INSERTs within one transaction is not
visible and left out.  Several books are several copies of this model: no statement
touches two.  Entries are numbered by id; the id chosen for a new row is any free one.

Constants that switch behaviour: `FaultyReads` lets a SELECT fail whose error the code
drops; `MayAbort` lets requests die; `ManualSources` are the source ids a client may put
on its own entries (PostJournalEntry marks that invoice posted as well);
`ExplicitNos` are voucher numbers a client may choose.

### BookContract, the abstract specification

What a book promises, as atomic steps over three status functions: an invoice is
approved in the step that creates a draft, it becomes posted in a step that posts an
entry, a posted entry leaves by a void or together with the posting of its reversal,
and a period moves along open - closing - closed - locked with the ways back.
`FinanceLedger!Contract` is the refinement mapping (the status columns), and
`KeepsContract` the property that every statement of every request is one step of the
contract or none.

### LedgerClaims

What the documents, comments and names of the repository say and the code does not
keep; each claim has a run of its own (section 3).

### Idempotency

`executeRequest` around any capability: `Lookup` (Get, compare the hash, replay or
409), `Execute`, `Save`, `Cut`.  A key stands for entity, capability and key.  An
execution is one step with an outcome; one that fails may still have changed the books.
`before` and `unsaved` are history.

### ConnectionPool

The service's methods reduced to what they wait for.  Each method is a sequence of
statements (`Approving`, `Posting`, `Voiding`, `Listing`, ...), and each statement says
what it asks of the pool and of the rows.

| TLA+ | Code |
|---|---|
| `tx[r]`, `BeginTx`, `EndTx` | the connection from `db.Begin` to Commit; for `List`, from `Pool.Query` to `rows.Close` |
| `stmt[r]`, `Acquire`, `Finish` | the connection one statement on the pool takes and gives back |
| `lock`, `LockRow` | rows a transaction's UPDATE or INSERT has locked, by class: a draft, an invoice, the unique key of a voucher number, a posted entry |
| `Nested`, `Background` | a statement on the pool while a transaction or rows are open; `buildJournalDraft` and `buildReversal` run theirs under `context.Background()` |
| `Fail` | a statement fails or the client's context ends it, and the deferred Rollback runs; not possible under `context.Background()` |

Which row a request is about is arbitrary (`aim`); what rows contain, and so which branch
a method takes, is not modelled: each branch that waits for something is a script.  The
transaction of `SetDefault` (`book.go:104`) takes no second connection and locks rows of
books only; it is in `Books`.

### TaxEngine and TaxDesk

`TaxEngine` is the arithmetic of the calculators, one operator per function.  The code
computes in float64 yuan and rounds to the cent with `math.Round`; the operators compute
in integer cents and round the exact quotient half away from zero (`Share`).  Where the two
could differ, a product that falls on half a cent only up to the representation error of
a float, the model takes the exact result.

`TaxDesk` plays the callers.  `Answer` keeps the last stateless question and its
answer, so that `MoreBaseMoreTax` can compare two answers to the same question with
different bases.  `WithholdMonth` is an employer who calls CalcPIT twelve times and sends
what was withheld so far; `EndQuarter`, `AdjustYear` and `SettleYear` are a company that
calls CalcQuarterlyPrepay four times, one of the adjustment calculators and
CalcAnnualSettlement.

### RiskEngine and RiskDesk

`RiskEngine` holds the detectors and the four comparisons of `consistency.go`; a finding is
its severity, its texts are left out.  `RiskDesk` lists and corrects filings in any order,
books purchases to suppliers and asks comparisons one after another.  The Go map that
DetectSupplierConcentration ranges over is an arbitrary sequence of its keys.  What the code
sorts is the one ascending sequence of its members (`Ascending`).

### Reports and Vouchers

`Reports` holds the reports of `service.go` and `engine/report.go` as functions of the
posted lines and invoices a SELECT returns.  An account code is the sequence of its
digits: prefixes are what the mappings of migration 018 select by.

| TLA+ | Code |
|---|---|
| `Statement` | the pass over the mapping that `BuildProfitStatement` and `BuildBalanceSheet` share: rows first, then subtotals in display order |
| `ProfitFields`, `SectionOrder` | the switch that fills the fields of a profit statement, and the table that puts the rows of a balance sheet into sections; a code they do not have is in no field, or in no section |
| `FallbackProfit` | fallbackProfitStatement: `AmountUnder` where it tests a prefix, `AmountAt` where it compares whole codes |
| `failed` | the SELECTs that fail in one call of RiskScan (`ScanReads`) or RunConsistencyCheck (`ConsistencyReads`), whose errors the code drops |
| `ListedInvoices`, `ListedEntries` | the newest `ListLimit` rows of a list, none when it failed; the lines of an entry may be missing on their own (`journal.go:129`) |

`Vouchers` is the counterpart of `FinanceLedger`: there methods interleave and amounts are
left out, here a method is one step and its lines carry amounts.  It has the posting
lines of `buildJournalDraft`, the reversal, red letters, and as the only race
UpdateInvoiceDraft, whose UPDATE does not repeat the test of the status.  Its properties
evaluate the reports in every state, those that drop errors with every set of failing SELECTs.

### Books, Adjustments, Reconciliation

| TLA+ | Code |
|---|---|
| `switch[s]`, `SetDefaultBegin`, `SetDefaultClear`, `SetDefaultCommit`, `SetDefaultAbort` | the transaction of BookStore.SetDefault: the UPDATE that clears works on a snapshot (`seen`) and locks row by row (`locked`), the second sets the new default |
| `ResolveBook`, `WriteDocument` | where a document goes, with a book or without one, and when the SELECT fails: an unknown id passes, and the handler drops the error and goes on with the empty id; `astray` notes each way to an id no book has |
| `Send`, `UpsertNext`, `Acknowledge`, `Fail`, `Retry` | UpsertAdjustments: one INSERT ... ON CONFLICT per record, and a client that repeats the batch |
| `ThreeWayMatch`, `MatchBankToInvoice`, `UnmatchBankFromInvoice` | the LEFT JOINs of the summary, and the unconditional UPDATEs of the match |
| `Review` | approval and posting, as far as the three-way match sees them |

### BackOffice

The composition of the desks.  They share no table and no variable (the reports are
already composed with the vouchers they read), so the product of their states would only
repeat each of them in every state of the others; the constant variable `desk` puts a
behaviour at one of the ten desks and leaves the rest in their initial states.

## 3. The runs

All runs end in seconds to a few minutes on two workers.

| Run | Bounds | What it shows |
|---|---|---|
| `ledger_approvals` | 2 requests, 1 invoice, 2 entries, 1 period, cuts allowed, clients may name the invoice as source of their own entries | `TypeOK`, `OneDraftPerApproval`, `PostedInvoiceBacked`, and `KeepsContract`: the refinement of BookContract |
| `ledger_journals` | 2 requests, 3 entries of 2 lines, no single line balances | `ReversalsMatch`, `VouchersDense`, `PostedComplete` |
| `ledger_periods` | 2 requests, 1 invoice, 1 entry, 1 period, fair | `OneCloser`, `OnlyStragglersWrite`, `CloseOverlooksNothing`, `ClosingEnds` |
| `idempotency` | 4 attempts, 1 key, 2 inputs, failures and cuts | `TypeOK`, `ReplayFits`, `ReplaysAgree`, `NoRepeatAfterSave` |
| `connection_pool` | 3 requests, 3 connections, 1 row of each class, fair | `TypeOK`, `SomeoneMoves`, `EveryRequestEnds` |
| `back_office` | see below | `BackOfficeTypeOK`; tax: `BracketsMarginal`, `MoreBaseMoreTax`, `WithholdingTracksYear`, `QuartersSettle`; risk: `RunsMaximal`, `ConcentrationOrderFree`, `LevelFollowsDistance`; reports: `BooksBalance`, `VATMatchesLedger`, `CrossCheckComplete`, `ReturnMatchesEngine`, `StatementsAddUp`, `StatementsCountOnce`, `ProfitsReconcile`, `PostedBooksPassOnlyUnread`, `DangerIsNotLow`; records: `OneDefault`, `DefaultServes`, `BatchStoredOnce`, `DoublePaymentNeedsOldSummary` |
| `claim_locked_race` | 2 requests, 1 entry | refutes "a locked period cannot be written" |
| `claim_void_reversed` | 2 requests, 2 entries | refutes "posted entries are voided with a reversal" |
| `claim_offset` | 1 request, 2 entries | refutes that a reversal offsets what it reverses |
| `claim_update` | 1 request, 2 entries | refutes "void old draft and create new one in place" |
| `claim_balance` | 2 requests, 1 entry of 4 lines, the first 2 balance | refutes "every voucher balances" |
| `claim_idempotency` | 2 attempts, 1 key, 1 input | refutes "replaying a key does not post twice" |

Why the bounds are enough.  Every hazard of section 1 is a race of two: one request
stopped between its read and its write while another one runs whole methods; since a
request that returned is idle again and may start any method, two requests give
arbitrarily long histories, limited by the documents only.  One invoice suffices for
its own life (no statement relates two invoices); two entries are an approval draft and
a client's own, or an entry and its reversal; three are an entry, its reversal and a
third that races them for a voucher number.  The runs differ in what they leave out so that each
stays small: aborts in `ledger_approvals`, half-stored entries in `ledger_journals`,
fairness in `ledger_periods`.  `ledger_periods` has no symmetry because it checks
liveness.  In `idempotency` four attempts are two that execute and two that replay
around the second save; keys do not interact, so one is enough.  In `connection_pool` the
premise of both properties, fewer requests in flight than connections, holds with two in
flight and fails with three, so the run has states on both sides of it: two that each
hold a connection and compete for the third and for the rows, and three that have taken
all connections and wait for a fourth.  One row of each class makes every pair of requests
collide.

The bounds of `back_office`, desk by desk:

* Questions: every pair of amounts at and next to the thresholds of the engine, in yuan
  and in single cents; a behaviour asks one question with any base again and again (`Answer`),
  since answers to different questions are not compared.
* Payroll: four salaries, one of them zero, in every order over twelve months; together
  they cross every bracket.  Year: five results of a quarter, losses included, and both
  kinds of enterprise around 1,000,000 and 3,000,000.
* Filings: five months, so that two runs with a gap between them exist, in any order of
  listing, filing and correction.  Purchases: three suppliers and `MaxPurchases` = 30, enough
  for ties and for shares on both sides of 30% and 50%.  Comparisons: 16 amounts around
  5, 10, 50 and 100 percent and around the absolute tolerances.
* Vouchers: two invoices (a red letter needs a second one), three different deals (a
  sale, a purchase, a difference of a cent), three manual entries of which a behaviour
  writes one (a cost on a sub-account, surcharges and expenses inside and beside 5601 to 5603 in
  one; an account that counts twice in another; the third does not balance), `MaxVouchers` = 3:
  a voucher, its reversal and another.  `ListLimit` = 2, where the code has 1000, so that three
  posted entries are more than a list returns.  Ids are used in turn
  and one UpdateInvoiceDraft is in flight at a time, because further ones would only write the same row.
  Every set of failing SELECTs, and every set of entries whose lines were read, is tried in
  every state.
* Books: three books and two switchers, one more book than can be switched between.
  Adjustments: two senders, three batches that overlap in their ids, `MaxFresh` = 2.
  Reconciliation: two invoices, three transactions, two clerks, `MaxShipments` = 1.

The calls of SetDefault, the books but the seeded one and the bank transactions are symmetric: they
are model values no action or property tells apart.  `back_office` checks safety only, for which that is
sound.  Clerks and senders are few and keep their names.

The runs `idempotency` (every attempt is used once) and `back_office` (a year has twelve months, the
vouchers are used up) may stop, and `connection_pool` does stop when the premise fails, so
these three do not check for deadlock; the ledger runs do.

Fairness.  `FairSpec` has weak fairness of `Handle(r)` for a request that has begun and
of nothing else: a goroutine that runs is scheduled, and PostgreSQL answers its
statements.  No client has to send anything, so the first step of a method is not
fair, and `Abort` is excluded in that run: with crashes `ClosingEnds` is false
(section 5).  In `ConnectionPool`, `FairSpec` has strong fairness of `Proceed(r)`: pgxpool
serves waiting callers in their order and PostgreSQL queues for a row or key likewise, so
a request for which a connection or a row becomes free again and again gets it.
`EveryRequestEnds` does not need `Fail` or `Arrive` to be fair; with weak
fairness it is false, since others may take the connection each time.

### What the counterexamples say

* `claim_locked_race`: a post reads the entry and finds the period open; another request
  closes (the draft was counted before the entry was written, or the entry was drafted
  meanwhile) and locks it; then the post commits.  The period is read outside the
  transaction and not tested again (`service.go:551`, `:577`).
* `claim_void_reversed`: a void reads a draft; a post commits; the simple void takes
  effect, because `VoidTx` accepts draft and posted alike.  The posted amounts vanish
  without a reversal.
* `claim_offset`: post, then void.  The original becomes "voided", the reversal
  "posted"; the reports count posted entries only, so they show the negative of the
  original instead of nothing.
* `claim_update`: the voided row keeps its voucher number, the new draft wants the same
  one, and the unique key refuses it after the void was committed: the draft is lost.
* `claim_balance`: the writer has stored two of four lines, these balance, another
  request posts the entry, and the writer goes on to store the other two.
* `claim_idempotency`: two attempts look the key up before either has saved.

## 4. The proofs

The proofs are checked by TLAPS for all values of the constants that satisfy the
assumption of the module that declares them (`LedgerAssumption`, `IdempotencyAssumption`,
`PoolAssumption`: any finite sets of requests and connections, `ListLimitAssumption`, `TaxAssumption`,
`RiskAssumption`, `VoucherAssumption`, `BooksAssumption`, `AdjustmentAssumption`,
`ReconciliationAssumption`).

| Module | Extends | About |
|---|---|---|
| `FinanceLedgerProofs` | FinanceLedger | types, the closing of a period, invoices |
| `VoucherProofs` | FinanceLedgerProofs | entries, reversals, voucher numbers, what a close overlooks, and the refinement of BookContract |
| `IdempotencyProofs`, `PoolProofs` | Idempotency, ConnectionPool | replays; waiting for connections and rows |
| `SumTheorems` | only library modules | sums over finite sets |
| `ReportProofs` | Vouchers, SumTheorems | vouchers with amounts, the trial balance and the VAT reports over them |
| `StatementProofs` | ReportProofs | profit statement, balance sheet, CIT report |
| `BackOfficeProofs` | BackOffice, StatementProofs | taxes, records, risk, and the desks together |

The theorems about a desk of `BackOffice` are about the specification of that desk
(`TaxSpec`, `RiskSpec`, `VoucherSpec`, `BooksSpec`, `AdjustmentsSpec`,
`ReconciliationSpec`), whose steps are the ones `BackOffice` composes; `EveryDeskForItself`
carries them to `BackOfficeSpec`.

| Theorem | Says |
|---|---|
| `TypeCorrect` (FinanceLedgerProofs, IdempotencyProofs, PoolProofs) | Spec => []TypeOK |
| `OneCloserAlways` | Spec => []OneCloser |
| `StragglersOnly` | if FaultyReads = FALSE, Spec => []OnlyStragglersWrite |
| `OneDraftAlways` | Spec => []OneDraftPerApproval |
| `PostedBackedAlways` | Spec => []PostedInvoiceBacked |
| `PostedCompleteAlways` | if no proper prefix of an entry balances, Spec => []PostedComplete |
| `ReversalsMatchAlways` | under the same assumption, Spec => []ReversalsMatch |
| `VouchersDenseAlways` | if ExplicitNos = {} and FaultyReads = FALSE, Spec => []VouchersDense |
| `CloseOverlooksNothingAlways` | if FaultyReads = FALSE, Spec => []CloseOverlooksNothing |
| `KeepsContractAlways` | Spec => KeepsContract: FinanceLedger implements BookContract |
| `ReplayFitsAlways`, `ReplaysAgreeAlways`, `NoRepeatAlways` | Spec => [] of ReplayFits, ReplaysAgree, NoRepeatAfterSave |
| `SomeoneMovesAlways` | Spec => []SomeoneMoves |
| `TaxGrows`, `TaxMarginal` | TaxSpec => MoreBaseMoreTax, TaxSpec => []BracketsMarginal |
| `YearWithheld`, `YearSettled` | TaxSpec => [] of WithholdingTracksYear, QuartersSettle |
| `DefaultUnique`, `DefaultKept` | BooksSpec => [] of OneDefault, DefaultServes |
| `BatchesRepeatable` | AdjustmentsSpec => []BatchStoredOnce |
| `PaidOnceOnFreshSummaries` | ReconciliationSpec => []DoublePaymentNeedsOldSummary |
| `VoucherRowsTyped` | VoucherSpec => []VoucherTypeOK |
| `BooksAlwaysBalance` | VoucherSpec => []BooksBalance |
| `VATAlwaysMatchesLedger` | VoucherSpec => []VATMatchesLedger |
| `CrossChecksComplete`, `ReturnsMatchEngine` | VoucherSpec => [] of CrossCheckComplete, ReturnMatchesEngine |
| `StatementsAlwaysAddUp`, `StatementsAlwaysCountOnce`, `ProfitsAlwaysReconcile` | VoucherSpec => [] of StatementsAddUp, StatementsCountOnce, ProfitsReconcile |
| `EnhancedCheckPassesOnlyUnread`, `DangerNeverLow` | VoucherSpec => [] of PostedBooksPassOnlyUnread, DangerIsNotLow |
| `RunsAlwaysMaximal`, `LevelsOrderFree` | RiskSpec => [] of RunsMaximal, ConcentrationOrderFree |
| `GraverWhenFurther` | RiskSpec => LevelFollowsDistance |
| `EveryDeskForItself` | BackOfficeSpec => the specification of each of the six desks |
| `BackOfficeTyped`, `BackOfficeCorrect` | BackOfficeSpec => []BackOfficeTypeOK, and all invariants and action properties of the run `back_office` |

**Types.**  `TypeOK` alone is not inductive: a request that is closing writes
`period[req[r].per]`, one that inserts an invoice writes `invoice[req[r].inv]`, and the
locals could be NONE.  `TypeInv` adds `LocalOK`: at each step of a method the locals it
is going to use are set.  The lemmas go action by action; a document's row is built from
locals, so most of the work is that a row built from well-typed locals is well typed.

**One closer.**  `OneCloser` is inductive together with `TypeInv`: only `CloseBegin`
takes a period to "closing" and it needs "open", so there is no closer yet; whoever
takes a period out of "closing" is a closer and therefore the only one.  `DocumentStepOutcome`
says that steps of invoices and entries leave the periods alone and start no closer;
`PeriodSteps` says what each period action does to both.

**Stragglers.**  A request enters the part behind its check only from a check that saw
the period not shut; when a period is closed all requests in flight are put into
`stale`.  Without `FaultyReads = FALSE` the statement is false: an `IsClosed` that
fails reads as "not closed".

**One draft per approval.**  `ApprovalInv` adds two things to the property.
`ApprovingOK`: a request inside ApproveInvoice holds the invoice in the period it still
has; between ApproveTx and Commit that invoice is under review and no other request is
there with it, which is what the row lock of the conditional UPDATE gives.
`UnusedEntries`: a row that was never inserted is nobody's draft.  All steps but
`ApproveCommit` leave the drafts of approvals alone (`EntriesElsewhere`) and move an
invoice only by inserting, rejecting or posting it (`InvoicesElsewhere`), and
`ElsewhereKeeps` says that this preserves the invariant; `ApproveCommitKeeps` is the
one step that approves: the invoice is still under review, so it had no draft.

**Posted invoices are backed.**  PostJournalEntry marks the invoice its snapshot names,
some statements after it was read.  `PostingInv` therefore says that the entry of
such a snapshot is still stored and still has that source (`ReadOK`), which holds because
entries are never deleted and keep source and posting date (`EntriesPersist`); only
`PostCommit` posts an invoice (`OnlyPostCommitPosts`), together with the entry it read.

**Idempotency.**  `IdemInv` adds to the properties: a record belongs to an attempt that
was answered and has that key and input (`RecordsHold`); a replay shows what is still
recorded (`ReplaysHold`, by `FirstOutcomeStays`); who executed and ended left a record
or is in `unsaved` (`SavesHold`); what had ended before a lookup never moves again
(`PastHolds`).

**Someone moves.**  `PoolInv` says that connections are handed out once (`Apart`), that a
transaction's connection is held only after its begin (`HoldsOK`), and that a row is locked
by a request that is past its statement for that class (`LocksOK`).  If no connection is
free, a request holds two by the pigeonhole principle, since fewer are in flight than there
are connections; it is running a nested statement and can finish it.  If one is free, only
rows can be waited for; the locker of such a row is in flight and waits, if at all, for a
row of a higher class (`Rank`: draft, invoice, voucher, posted; `LockOrder`), so the one
with the highest row waits for nothing.  `Shapes` checks that every script locks in that
order and ends what it begins: a method that locks in another order fails there.

**Vouchers.**  `VoucherProofs` rests on two lemmas that go through all actions once:
`RowEffects` says what a step does to the journal (a new row, a line, a posting, a void, a
reversal), `LocalEffects` what it does to the locals of its request.  `StoredRows` follows:
no row is deleted or changes what it stands for.

* *Posted entries are complete.*  `CompleteInv` adds that a request about to post holds a
  snapshot that balanced and whose lines are at most those stored, and that a row has
  never more lines than its size while its writer is the only one who adds to them.  If
  only all the lines balance (`NoPartBalances`), the snapshot had all of them.  Without the
  assumption the statement is false; that is the run `claim_balance`.
* *Reversals match.*  `ReversalInv` says what a request that reverses has read: a posted, hence
  complete entry, whose lines, period and source cannot change any more; VoidTx then
  voids it in the transaction that inserts the reversal, so a second reversal finds it
  voided.
* *Voucher numbers.*  `NumberInv`: the numbers in every period are 1 to n, and a number
  held by a request is at most the next one.  Rows are never deleted, so a number that was counted
  earlier can only have become too small; then the unique key refuses it.
* *Closing.*  `CloseInv` says what the two counts have established for the rest of the
  close.  While it runs, the period is "closing" by `OneCloser`, so each document that enters it is
  noted in `late`; `NewPending` and `NewDraft` are the only ways in.  The beginning of
  another close forgets only documents of its own period, which is open.

**The contract.**  `StepKeepsContract` is the step simulation: each step of
FinanceLedger, read through the status columns, is a step of BookContract or none.  It
needs `ApprovalInv` (the invoice ApproveCommit approves is under review), `PostingInv` (the
entry PostCommit posts is stored), `OneCloser` (only "closing" is closed) and
`ReversingOK`: VoidTx accepts drafts too, and a draft that is reversed would leave the
contract, but a request gets there only with an entry it has read as posted, and
no entry goes back to being a draft (`PostedStays`).

**Taxes.**  `AnswerInv` writes each answer as a function of its base; that each of these functions grows
with the base (`AnswersGrow`) is shown bracket by bracket and carries `TaxGrows`; that the
table of rates and quick deductions equals the sum of the slices carries `TaxMarginal`.
`PayrollInv` is the property with the types: a month withholds the difference to the highest
accumulated tax, or nothing.  `YearInv` adds to `QuartersSettle` that what was paid covers
the tax of the result so far, exactly if the result never fell.

**Records.**  `BooksInv`: unless a book was created meanwhile, a transaction that clears has all books in its
snapshot, so its commit leaves one default; and it sets the new default or rolls back, so
there is always one.  `AdjustmentsInv`: of an undisturbed batch with ids of its own, the
records up to the one reached are stored, each once; a retry from the start only rewrites
them.  `ReconciliationInv`: a summary that no match has overtaken shows only
invoices without a payment.

**Sums.**  `SumFunction` of the community modules is a fold that takes the elements of a set in an
order nobody names.  `SumTheorems` shows what every report needs of it: one element can
be taken out (`SumSteps`), a sum over a union, over the fibres of a map, under a renaming, of a
difference.  The library's induction rules take an operator as a parameter and are of no
use here; instead `NatUpwards` and `SubsetsUpwards` say, for a set of numbers or of finite sets
in place of a predicate, that one which is closed under the next step has them all, by the
well-foundedness of the numbers.  `SubsetRecursion` gives the fold its recursive equation from
there; that the sum does not depend on the order follows by `AnyFirst`.

**Vouchers with amounts.**  `VoucherInv` is inductive: the rows are typed, only finitely many
invoices exist, every entry, drafts too, balances in its own lines (`EntriesBalance`), manual entries
name no invoice and reversals are never drafts (`KindsOK`), an invoice has at most one voucher
from its approval, with exactly the lines `buildJournalDraft` makes of it unless it has
drifted (`ApprovalsOK`), and a posted invoice has a posted voucher, or one that was
reversed (`PostedBacked`).  Each report is then a sum over the posted lines that is regrouped:

* *Trial balance.*  `EntryByEntry` turns the sum over accounts into one over entries, where
  each is balanced.
* *VAT.*  `LedgerOfInvoices` maps posted vouchers to their invoices one to one, and the lines
  of each on the VAT accounts are its tax; summed over invoices this is VATSummary.  The property
  leaves out what the code does not keep in step: drifted invoices, reversals (they stay posted while
  the invoice stays posted too), and entries of clients on the accounts that are compared.
* *Cross check.*  The groups by computed rate are the fibres of a map on the invoices.
* *Return.*  For a net to pay, VATReturn and the engine round the same three shares; for a
  credit each of the three is within half a cent of its share (`ShareRounds`).
* *Rows of the statements.*  An account is a sequence of digits; whether a prefix matches it is decided by
  its first four, which reduces both mappings to a finite table.  `ApprovalReportedOnce`: every
  line an approval writes, whatever the goods, is selected by one row of the two mappings.
* *Statements.*  `StatementSettles`: in a mapping in which every formula uses only rows that
  precede it in display order (`WellOrdered`, shown for both seeded mappings), the one pass
  reads only final amounts (`ProfitRead`, `BalanceRead`).  `FieldsRead` and `SectionsRead` say what
  of them the answers show; what a total contains and no shown row does is an amount under
  the prefixes of a row that is left out.
* *Every amount once.*  The totals unfold into the amounts of 7 rows of the balance sheet on
  the assets' and 10 on the other side; the 10 rows of the profit statement join them, and the
  sum over rows and lines is exchanged (`RowsCountOnce`): a line counts as often as rows select it,
  which is once.
* *Profit.*  The prefix laws (`PrefixLaws`) say which prefixes exclude or contain each other; the
  sums of the three computations then split into the same parts, and what is left over are the
  terms of `ProfitsReconcile`.  The CIT report reads a column of an account balance
  (`BalanceColumn`), which is the amount the statement takes when all lines are on that side.
* *Consistency.*  A list of posted entries that does not fail shows the newest one
  (`SomethingListed`), so its number differs from that of no invoices; a list that fails makes
  the counts and the sums equal, and then only the bank decides.
* *Scan.*  The findings of a half that is read do not depend on what else fails (`DangerStays`), and
  one finding of 15 points lifts the score over "low" (`ScoreAtLeast`).

**Risk.**  `RunsMaximal`: the pass over the sorted months holds, at each position, the run
that is open there and, listed once and in order, every maximal run that ended before (`Open`,
`Tabulates`); the flush at the end closes the last one.  For suppliers, the level found depends
only on which shares occur (`SeenAll`, `LevelOfOrder`), not on when.  `ComparedInv` ties the
stored rank to the question and the distance, and each grading grows with the distance
although percentages are rounded (`QuotientGrows`, `GraverWhenFurther`).

**The desks together.**  No action of one desk changes a variable of another, so a
step of the whole is a step or a stutter of each.  A behaviour of `BackOffice` has one
desk at work; the theorems about the single specifications do not depend on that.

Only model-checked: `EveryRequestEnds` and `ClosingEnds`, which need fairness (and ENABLED)
and are out of the prover's reach.  The claims of the `claim_` runs are false and have no proof.

## 5. What the code does not keep, and no run claims

* Import, red letter, reject and `update_draft` never ask for the period
  (`service.go:1157`, `:1109`, `:447`, `:1239`), so a locked period can be written without any race.
* `IsClosed` fails open; a period without a row, or in "closing", is not closed.
* A process that dies within ClosePeriod leaves "closing" for ever: close wants open,
  reopen and lock want closed, and nothing recovers at start.
* A document inserted after its count in CloseCheck ends up pending, or a draft, in a
  closed period (that is `late` in `CloseOverlooksNothing`).
* The voided draft of an approved invoice leaves the invoice approved for good.
* A voucher number chosen by a client blocks automatic numbers when the count
  reaches it; `VouchersDense` is about automatic numbers.
* A replayed answer carries its data as a base64 string and the status "completed"
  (`handler.go:321`), unlike the first answer.
* A red letter has negative amounts, which `buildJournalDraft` refuses: it can never be
  approved and keeps CloseCheck of its period from passing until it is rejected; its
  number is the original's with "-RED", so an invoice gets one red letter at most
  (`service.go:1127`).
* As many requests in flight as the pool has connections can each hold one and wait for
  another for ever.  Requests that wait under their own context leave when the client
  does; approvals in `buildJournalDraft` and voids in `buildReversal` wait under
  `context.Background()` (`service.go:918`, `:938`, `:1077`) and do not.
* `ExecuteV3` falls back to `Execute` after it has consumed the request body
  (`handler.go:238`), so the fallback answers "malformed body".
* The reports count posted entries only and a reversal's lines keep their accounts with the
  sides exchanged; `ReportBuilder` adds the amount of the side a line is on as positive
  (`service.go:1380`), so a reversed expense raises the expense.  `ProfitsReconcile` compares the CIT
  report, which reads one column, for books without contra entries only, for that reason.
* The prefix "6" of the revenue row also covers the accounts 6111, 6301, 6711 and 6801 that have
  rows of their own: their amounts count twice (migration 018).  `report.go:170` expects the
  code "tax_surcharge" where the mapping says "tax_and_surcharge": the field TaxAndSurcharge of
  every profit statement is 0, although the profits have the surcharges taken off
  (`StatementsAddUp` reads them from the row).
* The balance sheet shows a row only if `sectionOrder` (`report.go:241`) has its code, and most codes
  the migration seeds are not among them (`monetary_funds`, `accounts_receivable`, `fixed_assets`,
  `intangible_assets`, `short_term_borrow`, `accounts_payable`, `payroll_payable`, `taxes_payable`,
  `long_term_borrow`, and four subtotals): money, receivables, fixed assets and taxes are in the
  totals and in no row of the answer.  `StatementsAddUp` states the totals with these amounts as
  their own terms.
* Three computations of a profit differ: the statement selects costs and surcharges by prefix, its
  fallback compares whole codes (`service.go:2151`, `:2153`) and so ignores sub-accounts, and the
  CIT report ignores 5403 and takes all of 56.  `ProfitsReconcile` says by how much.
* VATReturn computes surcharges of a negative net as well: a credit of 100 is returned as a burden of
  -112, where the tax engine says 0 (`ReturnMatchesEngine`).
* A half of a risk scan whose SELECT fails is left out without a trace (`service.go:1836`, `:1870`,
  `:1886`), and the score is that of the rest; `DangerIsNotLow` is about what was read.
* ResolveBook accepts an id no book of the entity has, since GetByID answers nil without an error
  (`service.go:77`), although `docs/01-architecture.md:163` wants every book_id checked; and when
  its SELECT fails the handler drops the error and writes under the empty id, also of an entity
  with a default book.  `DefaultServes` excludes neither.
* The invoice-to-VAT comparison of a consistency run compares two totals of the same
  source (`service.go:1978`); the invoice-to-journal one counts invoices that are approved
  and not yet posted against entries that are posted.  So the enhanced close check fails once
  everything is posted, but passes when its list of entries fails, because the errors of its
  SELECTs are dropped (`service.go:1975`, `:1996`, `:1997`, `:2032`) and nothing is then compared
  with nothing (`PostedBooksPassOnlyUnread`).
* The support of several elders adds their number, capped at 1500, to an amount of money
  (`pit.go:180`).
* A comment calls the tax of a small enterprise above 1,000,000 an effective 10%
  (`cit.go:89`); the code taxes the part above at 10%, which is what `MoreBaseMoreTax` needs.
* A book created while SetDefault runs may become a second default (`OneDefault` excludes it
  by `overlap`).
* Adjustments without ids are stored again by every retry, and `SumByYear` adds up all books
  of an entity.  The CIT report takes the prepayments as 0.
* Posted invoices disappear from the three-way match, their open payments with them.
* UpdateInvoiceDraft, SetDefault, the update of a book and the deletion of shipments have no
  caller in the API.  The first two are modelled, because their statements would race as soon as
  they had one.

## 6. Not modelled

* Audit log: appended after the commit, errors ignored, read by nobody inside the system.
* Capability catalog and provider types: static data.  Configuration, main, migrations: start-up
  wiring; the keys and seeds of the migrations are part of the models of the tables.
* Chart of accounts, tax profiles, stored returns, report mappings, saved scans: upserts or
  inserts of independent rows that no modelled operation reads back; mappings are taken
  as seeded.
* verify and confirm_usage: they set columns of an invoice that no other operation tests.
* Previews, validations and resources read and answer; exports format a report.
* Failing SELECTs are modelled where the ledger, ResolveBook, the risk scan and the consistency
  run drop their errors.  Elsewhere in the reports an error ends the call without a change and is left out, with one
  exception: GenerateCITReport skips the months whose balance it cannot read (`service.go:1721`) and
  takes the sum of adjustments and the tax profile as absent when their SELECTs fail
  (`:1738`, `:1744`); the model has the months and sums that were read.
* Sums of floats, whose last digit may depend on the order of summation, and the name of the top
  supplier, which depends on the order of the map when two tie (`risk.go:343`): amounts are whole
  cents, and `ConcentrationOrderFree` is about the level.
* CalcAnnualSettlement is only called with the rate of 25%, and so it is modelled with it;
  the reports are functions of one state, although their SELECTs are several.
* Texts, names and the layout of answers.
