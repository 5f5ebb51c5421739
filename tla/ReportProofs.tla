----------------------------- MODULE ReportProofs -----------------------------
(***************************************************************************)
(* Vouchers and the reports over them, for any invoices, deals and manual  *)
(* entries: one inductive invariant of the handlers, VoucherInv, and what  *)
(* it makes of every report that is computed from the posted entries and   *)
(* invoices.                                                               *)
(***************************************************************************)
EXTENDS Vouchers, SumTheorems

-----------------------------------------------------------------------------
(* Rows *)

\* The rows that the invoices and the vouchers of the model are made of.
DealRow == [direction : {"input", "output", "debit"}, net : Int, tax : Int, gross : Int,
            goods : Goods, seller : STRING \cup {NoDeal.seller}]
BillRow == [status : {"absent", "pending_review", "approved", "rejected", "posted"},
            deal : DealRow, of : InvoiceIds \cup {0}]
LineRow == [account : Seq(Nat), dir : {"debit", "credit"}, debit : Int, credit : Int]
VoucherRow == [status : {"draft", "posted", "voided"}, kind : {"approval", "manual", "reversal"},
               src : InvoiceIds \cup {0}, lines : Seq(LineRow)]

\* Every table holds rows of its type.
RowsOK ==
    /\ bill \in [InvoiceIds -> BillRow]
    /\ updating \in [InvoiceIds -> DealRow]
    /\ voucher \in Seq(VoucherRow)
    /\ Len(voucher) <= MaxVouchers
    /\ drifted \subseteq InvoiceIds

\* BuildJournalLines writes three lines.
LEMMA LinesOfDeal ==
    ASSUME NEW d \in DealRow
    PROVE  /\ BuildJournalLines(d) \in Seq(LineRow)
           /\ Len(BuildJournalLines(d)) = 3
<1>1. /\ Bank \in Seq(Nat) /\ Receivable \in Seq(Nat) /\ InputVAT \in Seq(Nat)
      /\ OutputVAT \in Seq(Nat) /\ Revenue \in Seq(Nat)
    BY DEF Bank, Receivable, InputVAT, OutputVAT, Revenue
<1>2. ResolveInputAccount(d.goods) \in Seq(Nat)
    BY DEF ResolveInputAccount
<1>3. \A a \in Seq(Nat), x \in Int : Debit(a, x) \in LineRow /\ Credit(a, x) \in LineRow
    BY DEF Debit, Credit, LineRow
<1>4. InputLines(d) \in Seq(LineRow) /\ Len(InputLines(d)) = 3
    BY <1>1, <1>2, <1>3 DEF InputLines, DealRow
<1>5. OutputLines(d) \in Seq(LineRow) /\ Len(OutputLines(d)) = 3
    BY <1>1, <1>3 DEF OutputLines, DealRow
<1> QED
    BY <1>4, <1>5 DEF BuildJournalLines

\* A reversal swaps the sums of the two columns.
LEMMA ReversedRows ==
    ASSUME NEW lines \in Seq(LineRow)
    PROVE  /\ ReversedLines(lines) \in Seq(LineRow)
           /\ Debits(ReversedLines(lines)) = Credits(lines)
           /\ Credits(ReversedLines(lines)) = Debits(lines)
<1> DEFINE r == ReversedLines(lines)
<1>1. DOMAIN r = DOMAIN lines /\ DOMAIN lines = 1..Len(lines)
    BY DEF ReversedLines
<1>2. \A k \in DOMAIN lines : /\ r[k] \in LineRow
                              /\ r[k].debit = lines[k].credit /\ r[k].credit = lines[k].debit
  <2> TAKE k \in DOMAIN lines
  <2>1. lines[k] \in LineRow
      BY <1>1
  <2>2. r[k] = [account |-> lines[k].account,
                dir |-> IF lines[k].dir = "debit" THEN "credit" ELSE "debit",
                debit |-> lines[k].credit, credit |-> lines[k].debit]
      BY DEF ReversedLines
  <2> HIDE DEF r
  <2> QED
      BY <2>1, <2>2 DEF LineRow
<1>3. r \in Seq(LineRow)
  <2>1. r = [k \in 1..Len(lines) |-> r[k]]
      BY <1>1 DEF ReversedLines
  <2> HIDE DEF r
  <2> QED
      BY <1>1, <1>2, <2>1
<1>4. [k \in DOMAIN r |-> r[k].debit] = [k \in DOMAIN lines |-> lines[k].credit]
    BY <1>1, <1>2
<1>5. [k \in DOMAIN r |-> r[k].credit] = [k \in DOMAIN lines |-> lines[k].debit]
    BY <1>1, <1>2
<1> QED
    BY <1>3, <1>4, <1>5 DEF Debits, Credits

\* The deals that are entered are rows.
LEMMA DealsTyped == NoDeal \in DealRow /\ Deals \subseteq DealRow
<1>1. NoDeal \in DealRow
    BY DEF NoDeal, DealRow, Goods
<1>2. ASSUME NEW d \in Deals PROVE d \in DealRow
    BY VoucherAssumption DEF DealRow
<1> QED
    BY <1>1, <1>2

\* So is the red letter of one.
LEMMA RedLetterDeal ==
    ASSUME NEW d \in DealRow
    PROVE  [d EXCEPT !.direction = "debit", !.net = -@, !.tax = -@, !.gross = -@] \in DealRow
<1>1. -d.net \in Int /\ -d.tax \in Int /\ -d.gross \in Int
    BY DEF DealRow
<1>2. \A n, t, g \in Int :
          [d EXCEPT !.direction = "debit", !.net = n, !.tax = t, !.gross = g] \in DealRow
    BY DEF DealRow
<1> QED
    BY <1>1, <1>2

\* What SetBill leaves.
LEMMA BillWritten ==
    ASSUME RowsOK, NEW i \in InvoiceIds, NEW row \in BillRow, SetBill(i, row)
    PROVE  /\ bill' \in [InvoiceIds -> BillRow]
           /\ \A j \in InvoiceIds : bill'[j] = IF j = i THEN row ELSE bill[j]
BY DEF RowsOK, SetBill

\* Writing a status is writing the row with that status.
LEMMA BillStatusWritten ==
    ASSUME RowsOK, NEW i \in InvoiceIds,
           NEW s \in {"absent", "pending_review", "approved", "rejected", "posted"}
    PROVE  /\ bill[i] \in BillRow
           /\ [bill[i] EXCEPT !.status = s] \in BillRow
           /\ [bill EXCEPT ![i].status = s] = [bill EXCEPT ![i] = [bill[i] EXCEPT !.status = s]]
BY DEF RowsOK, BillRow

\* An INSERT of a voucher adds one row and leaves the others.
LEMMA VoucherAdded ==
    ASSUME RowsOK, Len(voucher) < MaxVouchers, NEW row \in VoucherRow
    PROVE  /\ Append(voucher, row) \in Seq(VoucherRow)
           /\ Len(Append(voucher, row)) <= MaxVouchers
           /\ DOMAIN Append(voucher, row) = (DOMAIN voucher) \cup {Len(voucher) + 1}
           /\ Len(voucher) + 1 \notin DOMAIN voucher
           /\ Append(voucher, row)[Len(voucher) + 1] = row
           /\ \A w \in DOMAIN voucher : Append(voucher, row)[w] = voucher[w]
<1> USE VoucherAssumption DEF RowsOK
<1>1. Len(voucher) \in Nat /\ DOMAIN voucher = 1..Len(voucher)
    OBVIOUS
<1> QED
    BY <1>1

\* An UPDATE of a voucher's status leaves everything else.
LEMMA VoucherMarked ==
    ASSUME RowsOK, NEW v \in DOMAIN voucher, NEW s \in {"draft", "posted", "voided"},
           NEW new, new = [voucher EXCEPT ![v].status = s]
    PROVE  /\ new \in Seq(VoucherRow)
           /\ Len(new) = Len(voucher) /\ DOMAIN new = DOMAIN voucher
           /\ \A w \in DOMAIN voucher :
                 new[w] = IF w = v THEN [voucher[v] EXCEPT !.status = s] ELSE voucher[w]
<1> USE DEF RowsOK
<1>1. DOMAIN voucher = 1..Len(voucher) /\ Len(voucher) \in Nat
    OBVIOUS
<1>2. \A w \in DOMAIN voucher : voucher[w] \in VoucherRow
    OBVIOUS
<1>3. [voucher[v] EXCEPT !.status = s] \in VoucherRow
    BY <1>2 DEF VoucherRow
<1>4. DOMAIN new = DOMAIN voucher
    OBVIOUS
<1>5. \A w \in DOMAIN voucher :
          new[w] = IF w = v THEN [voucher[v] EXCEPT !.status = s] ELSE voucher[w]
    OBVIOUS
<1>6. new \in [1..Len(voucher) -> VoucherRow]
    BY <1>1, <1>2, <1>3, <1>5
<1> QED
    BY <1>1, <1>4, <1>5, <1>6

\* The tables start empty.
LEMMA RowsInit == VoucherInit => RowsOK
<1> SUFFICES ASSUME VoucherInit PROVE RowsOK
    OBVIOUS
<1>1. NoBill \in BillRow
    BY DealsTyped DEF NoBill, BillRow
<1>2. <<>> \in Seq(VoucherRow) /\ Len(<<>>) = 0
    OBVIOUS
<1> QED
    BY <1>1, <1>2, DealsTyped, VoucherAssumption DEF VoucherInit, RowsOK

\* Every handler writes rows.
LEMMA RowsStep == RowsOK /\ [VoucherNext]_voucherVars => RowsOK'
<1> SUFFICES ASSUME RowsOK, [VoucherNext]_voucherVars PROVE RowsOK'
    OBVIOUS
<1>0. \A i \in InvoiceIds : bill[i] \in BillRow
    BY DEF RowsOK
<1>1. CASE CreateInvoice
  <2>1. PICK i \in InvoiceIds, d \in Deals :
            SetBill(i, [status |-> "pending_review", deal |-> d, of |-> 0])
      BY <1>1 DEF CreateInvoice
  <2>2. [status |-> "pending_review", deal |-> d, of |-> 0] \in BillRow
      BY DealsTyped DEF BillRow
  <2> QED
      BY <1>1, <2>1, <2>2, BillWritten DEF CreateInvoice, RowsOK
<1>2. CASE CreateRedLetterInvoice
  <2>1. PICK i \in InvoiceIds, j \in InvoiceIds :
            SetBill(j, [status |-> "pending_review", of |-> i,
                        deal |-> [bill[i].deal EXCEPT !.direction = "debit",
                                     !.net = -@, !.tax = -@, !.gross = -@]])
      BY <1>2 DEF CreateRedLetterInvoice
  <2>2. bill[i].deal \in DealRow
      BY <1>0 DEF BillRow
  <2>3. [bill[i].deal EXCEPT !.direction = "debit", !.net = -@, !.tax = -@, !.gross = -@] \in DealRow
      BY <2>2, RedLetterDeal
  <2> QED
      BY <1>2, <2>1, <2>3, BillWritten DEF CreateRedLetterInvoice, RowsOK, BillRow
<1>3. CASE RejectInvoice
    BY <1>3, BillWritten, BillStatusWritten DEF RejectInvoice, RowsOK
<1>4. CASE ApproveInvoice
  <2>1. PICK i \in InvoiceIds :
            /\ Len(voucher) < MaxVouchers
            /\ AddVoucher("draft", "approval", i, BuildJournalLines(bill[i].deal))
            /\ SetBill(i, [bill[i] EXCEPT !.status = "approved"])
      BY <1>4 DEF ApproveInvoice
  <2>2. bill[i].deal \in DealRow
      BY <1>0 DEF BillRow
  <2>3. [status |-> "draft", kind |-> "approval", src |-> i, lines |-> BuildJournalLines(bill[i].deal)]
            \in VoucherRow
      BY <2>2, LinesOfDeal DEF VoucherRow
  <2>4. voucher' \in Seq(VoucherRow) /\ Len(voucher') <= MaxVouchers
      BY <2>1, <2>3, VoucherAdded DEF AddVoucher
  <2>5. bill' \in [InvoiceIds -> BillRow]
      BY <2>1, BillWritten, BillStatusWritten
  <2> QED
      BY <1>4, <2>4, <2>5 DEF ApproveInvoice, RowsOK
<1>5. CASE UpdateInvoiceDraftRead
    BY <1>5, DealsTyped DEF UpdateInvoiceDraftRead, RowsOK
<1>6. CASE UpdateInvoiceDraftWrite
  <2>1. PICK i \in InvoiceIds :
            /\ SetBill(i, [bill[i] EXCEPT !.deal = updating[i]])
            /\ updating' = [updating EXCEPT ![i] = NoDeal]
            /\ drifted' \in {drifted, drifted \cup {i}}
      BY <1>6 DEF UpdateInvoiceDraftWrite
  <2>2. [bill[i] EXCEPT !.deal = updating[i]] \in BillRow
      BY <1>0 DEF BillRow, RowsOK
  <2> QED
      BY <1>6, <2>1, <2>2, BillWritten, DealsTyped DEF UpdateInvoiceDraftWrite, RowsOK
<1>7. CASE CreateJournalDraft
  <2>1. PICK lines \in ManualEntries :
            Len(voucher) < MaxVouchers /\ AddVoucher("draft", "manual", 0, lines)
      BY <1>7 DEF CreateJournalDraft
  <2>2. [status |-> "draft", kind |-> "manual", src |-> 0, lines |-> lines] \in VoucherRow
      BY VoucherAssumption DEF VoucherRow, LineRow
  <2> QED
      BY <1>7, <2>1, <2>2, VoucherAdded DEF AddVoucher, CreateJournalDraft, RowsOK
<1>8. CASE PostJournalEntry
  <2>1. PICK v \in DOMAIN voucher :
            /\ voucher' = [voucher EXCEPT ![v].status = "posted"]
            /\ bill' = IF voucher[v].src \in InvoiceIds /\ bill[voucher[v].src].status = "approved"
                       THEN [bill EXCEPT ![voucher[v].src].status = "posted"] ELSE bill
      BY <1>8 DEF PostJournalEntry
  <2>2. voucher' \in Seq(VoucherRow) /\ Len(voucher') = Len(voucher)
      BY <2>1, VoucherMarked
  <2>3. bill' \in [InvoiceIds -> BillRow]
      BY <2>1, BillWritten, BillStatusWritten DEF RowsOK, SetBill
  <2> QED
      BY <1>8, <2>2, <2>3 DEF PostJournalEntry, RowsOK
<1>9. CASE VoidDraft
  <2>1. PICK v \in DOMAIN voucher : voucher' = [voucher EXCEPT ![v].status = "voided"]
      BY <1>9 DEF VoidDraft
  <2>2. voucher' \in Seq(VoucherRow) /\ Len(voucher') = Len(voucher)
      BY <2>1, VoucherMarked
  <2> QED
      BY <1>9, <2>2 DEF VoidDraft, RowsOK
<1>10. CASE VoidPosted
  <2>1. PICK v \in DOMAIN voucher :
            /\ Len(voucher) < MaxVouchers
            /\ voucher' = Append([voucher EXCEPT ![v].status = "voided"],
                         [status |-> "posted", kind |-> "reversal", src |-> voucher[v].src,
                          lines |-> ReversedLines(voucher[v].lines)])
      BY <1>10 DEF VoidPosted
  <2>2. voucher[v] \in VoucherRow
      BY DEF RowsOK
  <2>3. [status |-> "posted", kind |-> "reversal", src |-> voucher[v].src,
         lines |-> ReversedLines(voucher[v].lines)] \in VoucherRow
      BY <2>2, ReversedRows DEF VoucherRow
  <2> DEFINE marked == [voucher EXCEPT ![v].status = "voided"]
             row == [status |-> "posted", kind |-> "reversal", src |-> voucher[v].src,
                     lines |-> ReversedLines(voucher[v].lines)]
  <2>4. marked \in Seq(VoucherRow) /\ Len(marked) = Len(voucher)
      BY VoucherMarked
  <2>5. voucher' = Append(marked, row) /\ Len(voucher) \in Nat
      BY <2>1 DEF RowsOK
  <2>6. row \in VoucherRow /\ Len(voucher) < MaxVouchers /\ MaxVouchers \in Nat
      BY <2>1, <2>3, VoucherAssumption
  <2>7. voucher' \in Seq(VoucherRow) /\ Len(voucher') <= MaxVouchers
    <3> HIDE DEF marked, row
    <3> QED
        BY <2>4, <2>5, <2>6
  <2> QED
      BY <1>10, <2>7 DEF VoidPosted, RowsOK
<1>11. CASE UNCHANGED voucherVars
    BY <1>11 DEF voucherVars, RowsOK
<1> QED
    BY <1>1, <1>2, <1>3, <1>4, <1>5, <1>6, <1>7, <1>8, <1>9, <1>10, <1>11 DEF VoucherNext

\* Vouchers keeps VoucherTypeOK: no handler writes a row with a status, a source or an
\* account that the table does not know.
THEOREM VoucherRowsTyped == VoucherSpec => []VoucherTypeOK
<1>1. RowsOK => VoucherTypeOK
  <2> SUFFICES ASSUME RowsOK PROVE VoucherTypeOK
      OBVIOUS
  <2>1. \A i \in InvoiceIds : bill[i] \in BillRow
      BY DEF RowsOK
  <2>2. \A v \in DOMAIN voucher : voucher[v] \in VoucherRow
      BY DEF RowsOK
  <2> QED
      BY <2>1, <2>2 DEF RowsOK, VoucherTypeOK, BillRow, VoucherRow
<1> QED
    BY <1>1, RowsInit, RowsStep, PTL DEF VoucherSpec

-----------------------------------------------------------------------------
(* What a step does *)

\* Finitely many invoices were ever entered, however many ids there are.
BillsFinite == IsFiniteSet({i \in InvoiceIds : bill[i].status # "absent"})

\* Every entry balances to the cent, drafts too: buildJournalDraft and CreateJournalDraft
\* compare before they insert, a reversal swaps the columns.
EntriesBalance == \A v \in DOMAIN voucher : Debits(voucher[v].lines) = Credits(voucher[v].lines)

\* Manual entries name no invoice, and reversals are inserted posted.
KindsOK ==
    \A v \in DOMAIN voucher :
        /\ voucher[v].kind = "manual" => voucher[v].src = 0
        /\ voucher[v].kind = "reversal" => voucher[v].status # "draft"

\* The entry of an approval is the draft of its invoice, and of no other entry; they are
\* posted together; and unless the invoice was written after it was approved, its lines
\* are those of the invoice as it is.
IsDraftOf(lines, d) == Draftable(d) /\ lines = BuildJournalLines(d)

ApprovalOK(v) ==
    LET i == voucher[v].src IN
    /\ i \in InvoiceIds
    /\ bill[i].status \in {"approved", "posted"}
    /\ voucher[v].status = "draft" => bill[i].status = "approved"
    /\ voucher[v].status = "posted" => bill[i].status = "posted"
    /\ \E d \in DealRow : IsDraftOf(voucher[v].lines, d)
    /\ i \notin drifted => IsDraftOf(voucher[v].lines, bill[i].deal)
    /\ \A w \in DOMAIN voucher : voucher[w].kind = "approval" /\ voucher[w].src = i => w = v
ApprovalsOK == \A v \in DOMAIN voucher : voucher[v].kind = "approval" => ApprovalOK(v)

\* An invoice that is posted has an entry that is, or that was and is reversed.
Backs(v, i) ==
    /\ voucher[v].kind = "approval" /\ voucher[v].src = i
    /\ \/ voucher[v].status = "posted"
       \/ \E w \in DOMAIN voucher : voucher[w].kind = "reversal"
PostedBacked ==
    \A i \in InvoiceIds : bill[i].status = "posted" => \E v \in DOMAIN voucher : Backs(v, i)

\* VATMatchesLedger and BooksBalance compare sums over tables; what makes them equal is said
\* row by row here, and this is inductive.
VoucherInv == RowsOK /\ BillsFinite /\ EntriesBalance /\ KindsOK /\ ApprovalsOK /\ PostedBacked

\* Nothing is booked at first.
LEMMA VoucherInv_Init == VoucherInit => VoucherInv
<1> SUFFICES ASSUME VoucherInit PROVE VoucherInv
    OBVIOUS
<1>1. DOMAIN voucher = {}
    BY DEF VoucherInit
<1>2. {i \in InvoiceIds : bill[i].status # "absent"} = {}
    BY DEF VoucherInit, NoBill
<1>3. \A i \in InvoiceIds : bill[i].status # "posted"
    BY DEF VoucherInit, NoBill
<1>4. BillsFinite
    BY <1>2, FS_EmptySet DEF BillsFinite
<1> QED
    BY <1>1, <1>3, <1>4, RowsInit
       DEF VoucherInv, EntriesBalance, KindsOK, ApprovalsOK, PostedBacked

\* A step enters at most one invoice.
LEMMA FewerBills ==
    ASSUME BillsFinite, NEW j,
           \A i \in InvoiceIds : bill'[i].status # "absent" => bill[i].status # "absent" \/ i = j
    PROVE  BillsFinite'
<1> DEFINE A == {i \in InvoiceIds : bill[i].status # "absent"}
           B == {i \in InvoiceIds : bill'[i].status # "absent"}
<1>1. B \in SUBSET (A \cup {j})
    OBVIOUS
<1>2. IsFiniteSet(A)
    BY DEF BillsFinite
<1> HIDE DEF A, B
<1>3. IsFiniteSet(B)
    BY <1>1, <1>2, FS_AddElement, FS_Subset
<1> QED
    BY <1>3 DEF B, BillsFinite

\* A step that changes one invoice which no entry names, and no entry, keeps the
\* invariant.
LEMMA QuietStep ==
    ASSUME VoucherInv, voucher' = voucher, drifted' = drifted, RowsOK',
           NEW j \in InvoiceIds, bill[j].status \notin {"approved", "posted"},
           bill'[j].status \notin {"approved", "posted"},
           \A i \in InvoiceIds : i # j => bill'[i] = bill[i]
    PROVE  VoucherInv'
<1>1. BillsFinite'
    BY FewerBills DEF VoucherInv
<1>2. EntriesBalance' /\ KindsOK'
    BY DEF VoucherInv, EntriesBalance, KindsOK
<1>3. ApprovalsOK'
  <2> SUFFICES ASSUME NEW v \in DOMAIN voucher, voucher[v].kind = "approval"
               PROVE  ApprovalOK(v)'
      BY DEF ApprovalsOK
  <2>1. ApprovalOK(v)
      BY DEF VoucherInv, ApprovalsOK
  <2>2. bill'[voucher[v].src] = bill[voucher[v].src]
      BY <2>1 DEF ApprovalOK
  <2> QED
      BY <2>1, <2>2 DEF ApprovalOK
<1>4. PostedBacked'
    BY DEF VoucherInv, PostedBacked, Backs
<1> QED
    BY <1>1, <1>2, <1>3, <1>4 DEF VoucherInv

\* An entry that balances by itself keeps every entry balanced.
LEMMA AddedDraft ==
    ASSUME VoucherInv, RowsOK', Len(voucher) < MaxVouchers,
           NEW row \in VoucherRow, voucher' = Append(voucher, row),
           row.kind # "reversal" \/ row.status # "draft", row.kind = "manual" => row.src = 0,
           Debits(row.lines) = Credits(row.lines)
    PROVE  EntriesBalance' /\ KindsOK'
<1>1. RowsOK
    BY DEF VoucherInv
<1>2. \A w \in DOMAIN voucher' : \/ w \in DOMAIN voucher /\ voucher'[w] = voucher[w]
                                 \/ voucher'[w] = row
    BY <1>1, VoucherAdded
<1> QED
    BY <1>2 DEF VoucherInv, EntriesBalance, KindsOK

\* ApproveTx marks the invoice approved and inserts the draft of its lines.
LEMMA ApproveInvoice_Inv ==
    ASSUME VoucherInv, RowsOK', ApproveInvoice
    PROVE  VoucherInv'
<1>1. PICK i \in InvoiceIds :
          /\ bill[i].status = "pending_review" /\ Draftable(bill[i].deal)
          /\ Len(voucher) < MaxVouchers
          /\ ValidateBalanced(BuildJournalLines(bill[i].deal))
          /\ AddVoucher("draft", "approval", i, BuildJournalLines(bill[i].deal))
          /\ SetBill(i, [bill[i] EXCEPT !.status = "approved"])
          /\ UNCHANGED <<updating, drifted>>
    BY DEF ApproveInvoice
<1> DEFINE n == Len(voucher) + 1
           d == bill[i].deal
           row == [status |-> "draft", kind |-> "approval", src |-> i,
                   lines |-> BuildJournalLines(d)]
<1>2. RowsOK /\ bill[i] \in BillRow /\ d \in DealRow /\ i # 0
    BY VoucherAssumption DEF VoucherInv, RowsOK, BillRow
<1>3. row \in VoucherRow
    BY <1>2, LinesOfDeal DEF VoucherRow
<1>4. /\ DOMAIN voucher' = (DOMAIN voucher) \cup {n} /\ n \notin DOMAIN voucher
      /\ voucher'[n] = row
      /\ \A w \in DOMAIN voucher : voucher'[w] = voucher[w]
  <2> HIDE DEF row
  <2> QED  BY <1>1, <1>2, <1>3, VoucherAdded DEF AddVoucher, row
<1>5. \A j \in InvoiceIds : bill'[j] = IF j = i THEN [bill[i] EXCEPT !.status = "approved"] ELSE bill[j]
    BY <1>1, <1>2, BillWritten, BillStatusWritten
<1>6. bill'[i].status = "approved" /\ bill'[i].deal = d
    BY <1>2, <1>5 DEF BillRow
<1>7. BillsFinite'
    BY <1>5, FewerBills DEF VoucherInv
<1>8. EntriesBalance' /\ KindsOK'
    BY <1>1, <1>4 DEF VoucherInv, EntriesBalance, KindsOK, ValidateBalanced, MoneyEqual
<1>9. ASSUME NEW w \in DOMAIN voucher, voucher[w].kind = "approval"
      PROVE  ApprovalOK(w) /\ voucher[w].src # i
    BY <1>1, <1>9 DEF VoucherInv, ApprovalsOK, ApprovalOK
<1>10. ASSUME NEW v \in DOMAIN voucher', voucher'[v].kind = "approval" PROVE ApprovalOK(v)'
  <2>1. CASE v \in DOMAIN voucher
      BY <1>1, <1>4, <1>5, <1>9, <1>10, <2>1 DEF ApprovalOK
  <2>2. CASE v = n
    <3>1. voucher'[v].src = i /\ voucher'[v].status = "draft" /\
          voucher'[v].lines = BuildJournalLines(d)
        BY <1>4, <2>2
    <3>2. \A w \in DOMAIN voucher' : voucher'[w].kind = "approval" /\ voucher'[w].src = i => w = v
        BY <1>4, <1>9, <2>2
    <3> HIDE DEF n, row
    <3> QED
        BY <1>1, <1>2, <1>6, <3>1, <3>2 DEF ApprovalOK, IsDraftOf
  <2> QED
      BY <1>4, <2>1, <2>2
<1>11. PostedBacked'
  <2> SUFFICES ASSUME NEW j \in InvoiceIds, bill'[j].status = "posted"
               PROVE  \E v \in DOMAIN voucher' : Backs(v, j)'
      BY DEF PostedBacked
  <2>1. bill[j].status = "posted"
      BY <1>5, <1>6
  <2>2. PICK v \in DOMAIN voucher : Backs(v, j)
      BY <2>1 DEF VoucherInv, PostedBacked
  <2> QED
      BY <1>4, <2>2 DEF Backs
<1> QED
    BY <1>7, <1>8, <1>10, <1>11 DEF VoucherInv, ApprovalsOK

\* UpdateInvoiceDraft writes an invoice that may have been approved since it was read;
\* then it is among the drifted, and only its entry is known to be a draft of some deal.
LEMMA UpdateInvoiceDraftWrite_Inv ==
    ASSUME VoucherInv, RowsOK', UpdateInvoiceDraftWrite
    PROVE  VoucherInv'
<1>1. PICK i \in InvoiceIds :
          /\ updating[i] # NoDeal
          /\ SetBill(i, [bill[i] EXCEPT !.deal = updating[i]])
          /\ drifted' = IF bill[i].status \in {"approved", "posted"} /\ bill[i].deal # updating[i]
                        THEN drifted \cup {i} ELSE drifted
          /\ UNCHANGED voucher
    BY DEF UpdateInvoiceDraftWrite
<1>2. bill[i] \in BillRow /\ RowsOK
    BY DEF VoucherInv, RowsOK
<1>3. [bill[i] EXCEPT !.deal = updating[i]] \in BillRow
    BY <1>2 DEF VoucherInv, RowsOK, BillRow
<1>4. \A j \in InvoiceIds : bill'[j] = IF j = i THEN [bill[i] EXCEPT !.deal = updating[i]] ELSE bill[j]
    BY <1>1, <1>2, <1>3, BillWritten
<1>5. bill'[i].status = bill[i].status /\ bill'[i].deal = updating[i]
    BY <1>2, <1>4 DEF BillRow
<1>6. \A j \in InvoiceIds : bill'[j].status = bill[j].status
    BY <1>4, <1>5
<1>7. BillsFinite'
    BY <1>6, FewerBills DEF VoucherInv
<1>8. EntriesBalance' /\ KindsOK' /\ PostedBacked'
    BY <1>1, <1>6 DEF VoucherInv, EntriesBalance, KindsOK, PostedBacked, Backs
<1>9. ASSUME NEW v \in DOMAIN voucher, voucher[v].kind = "approval" PROVE ApprovalOK(v)'
  <2>1. ApprovalOK(v)
      BY <1>9 DEF VoucherInv, ApprovalsOK
  <2>2. voucher[v].src \notin drifted' =>
            bill'[voucher[v].src].deal = bill[voucher[v].src].deal /\ voucher[v].src \notin drifted
      BY <1>1, <1>4, <1>5, <2>1 DEF ApprovalOK
  <2> QED
      BY <1>1, <1>6, <2>1, <2>2 DEF ApprovalOK
<1> QED
    BY <1>1, <1>7, <1>8, <1>9 DEF VoucherInv, ApprovalsOK

\* CreateJournalDraft inserts a manual entry that balances and names no invoice.
LEMMA CreateJournalDraft_Inv ==
    ASSUME VoucherInv, RowsOK', CreateJournalDraft
    PROVE  VoucherInv'
<1>1. PICK lines \in ManualEntries :
          /\ Len(voucher) < MaxVouchers /\ ValidateBalanced(lines)
          /\ AddVoucher("draft", "manual", 0, lines)
          /\ UNCHANGED <<bill, updating, drifted>>
    BY DEF CreateJournalDraft
<1> DEFINE n == Len(voucher) + 1
           row == [status |-> "draft", kind |-> "manual", src |-> 0, lines |-> lines]
<1>2. row \in VoucherRow /\ RowsOK
    BY VoucherAssumption DEF VoucherRow, LineRow, VoucherInv
<1>3. /\ DOMAIN voucher' = (DOMAIN voucher) \cup {n} /\ n \notin DOMAIN voucher
      /\ voucher'[n] = row
      /\ \A w \in DOMAIN voucher : voucher'[w] = voucher[w]
  <2> HIDE DEF row
  <2> QED  BY <1>1, <1>2, VoucherAdded DEF AddVoucher, row
<1>4. EntriesBalance' /\ KindsOK'
    BY <1>1, <1>3 DEF VoucherInv, EntriesBalance, KindsOK, ValidateBalanced, MoneyEqual
<1>5. ApprovalsOK'
    BY <1>1, <1>3 DEF VoucherInv, ApprovalsOK, ApprovalOK
<1>6. PostedBacked'
  <2> SUFFICES ASSUME NEW j \in InvoiceIds, bill[j].status = "posted"
               PROVE  \E v \in DOMAIN voucher' : Backs(v, j)'
      BY <1>1 DEF PostedBacked
  <2>1. PICK v \in DOMAIN voucher : Backs(v, j)
      BY DEF VoucherInv, PostedBacked
  <2> QED
      BY <1>3, <2>1 DEF Backs
<1> QED
    BY <1>1, <1>4, <1>5, <1>6 DEF VoucherInv, BillsFinite

\* PostJournalEntryTx posts the entry and the invoice it names.
LEMMA PostJournalEntry_Inv ==
    ASSUME VoucherInv, RowsOK', PostJournalEntry
    PROVE  VoucherInv'
<1>1. PICK v \in DOMAIN voucher :
          /\ voucher[v].status = "draft"
          /\ voucher' = [voucher EXCEPT ![v].status = "posted"]
          /\ bill' = IF voucher[v].src \in InvoiceIds /\ bill[voucher[v].src].status = "approved"
                     THEN [bill EXCEPT ![voucher[v].src].status = "posted"] ELSE bill
          /\ UNCHANGED <<updating, drifted>>
    BY DEF PostJournalEntry
<1> DEFINE i == voucher[v].src
<1>2. RowsOK /\ voucher[v] \in VoucherRow
    BY DEF VoucherInv, RowsOK
<1>3. /\ DOMAIN voucher' = DOMAIN voucher
      /\ \A w \in DOMAIN voucher : w # v => voucher'[w] = voucher[w]
      /\ voucher'[v].status = "posted" /\ voucher'[v].kind = voucher[v].kind
      /\ voucher'[v].src = i /\ voucher'[v].lines = voucher[v].lines
  <2>1. /\ DOMAIN voucher' = DOMAIN voucher
        /\ \A w \in DOMAIN voucher :
              voucher'[w] = IF w = v THEN [voucher[v] EXCEPT !.status = "posted"] ELSE voucher[w]
      BY <1>1, <1>2, VoucherMarked
  <2> QED
      BY <1>2, <2>1 DEF VoucherRow
<1>4. \A j \in InvoiceIds :
          /\ bill'[j].deal = bill[j].deal
          /\ bill'[j].status = IF j = i /\ bill[j].status = "approved" THEN "posted" ELSE bill[j].status
    BY <1>1, <1>2 DEF RowsOK, BillRow
<1>5. BillsFinite'
    BY <1>4, FewerBills DEF VoucherInv
<1>6. EntriesBalance' /\ KindsOK'
    BY <1>1, <1>3 DEF VoucherInv, EntriesBalance, KindsOK
<1>7. ASSUME NEW w \in DOMAIN voucher, voucher[w].kind = "approval" PROVE ApprovalOK(w)'
  <2>1. ApprovalOK(w)
      BY <1>7 DEF VoucherInv, ApprovalsOK
  <2>2. /\ voucher'[w].src = voucher[w].src /\ voucher'[w].lines = voucher[w].lines
        /\ voucher[w].src \in InvoiceIds
        /\ bill'[voucher[w].src].deal = bill[voucher[w].src].deal
        /\ drifted' = drifted
      BY <1>1, <1>3, <1>4, <2>1 DEF ApprovalOK
  <2>3. bill'[voucher[w].src].status \in {"approved", "posted"}
      BY <1>4, <2>1 DEF ApprovalOK
  <2>4. voucher'[w].status = "draft" => bill'[voucher[w].src].status = "approved"
    <3>1. CASE w = v
        BY <1>3, <3>1
    <3>2. CASE w # v
      <4>1. CASE i = voucher[w].src /\ voucher[v].kind = "approval"
          BY <2>1, <3>2, <4>1 DEF ApprovalOK
      <4>2. CASE i # voucher[w].src
          BY <1>3, <1>4, <2>1, <3>2, <4>2 DEF ApprovalOK
      <4>3. CASE voucher[v].kind # "approval"
        <5>1. voucher[v].kind = "manual"
            BY <1>1, <1>2, <4>3 DEF VoucherInv, KindsOK, VoucherRow
        <5>2. i = 0
            BY <5>1 DEF VoucherInv, KindsOK
        <5>3. i # voucher[w].src
            BY <2>2, <5>2, VoucherAssumption
        <5> QED
            BY <4>2, <5>3
      <4> QED
          BY <4>1, <4>2, <4>3
    <3> QED
        BY <3>1, <3>2
  <2>5. voucher'[w].status = "posted" => bill'[voucher[w].src].status = "posted"
    <3>1. CASE w = v
        BY <1>1, <1>4, <2>1, <3>1 DEF ApprovalOK
    <3>2. CASE w # v
        BY <1>3, <1>4, <2>1, <3>2 DEF ApprovalOK
    <3> QED
        BY <3>1, <3>2
  <2>6. \A x \in DOMAIN voucher' : voucher'[x].kind = "approval" /\ voucher'[x].src = voucher[w].src =>
        x = w
      BY <1>3, <2>1 DEF ApprovalOK
  <2> QED
      BY <2>1, <2>2, <2>3, <2>4, <2>5, <2>6 DEF ApprovalOK, IsDraftOf
<1>8. PostedBacked'
  <2> SUFFICES ASSUME NEW j \in InvoiceIds, bill'[j].status = "posted"
               PROVE  \E w \in DOMAIN voucher' : Backs(w, j)'
      BY DEF PostedBacked
  <2>1. CASE bill[j].status = "posted"
    <3>1. PICK w \in DOMAIN voucher : Backs(w, j)
        BY <2>1 DEF VoucherInv, PostedBacked
    <3> QED
        BY <1>3, <3>1 DEF Backs
  <2>2. CASE bill[j].status # "posted"
    <3>1. j = i
        BY <1>4, <2>2
    <3>2. voucher[v].kind = "approval"
        BY <1>1, <1>2, <3>1, VoucherAssumption DEF VoucherInv, KindsOK, VoucherRow
    <3>3. Backs(v, j)'
        BY <1>3, <3>1, <3>2 DEF Backs
    <3> QED
        BY <1>3, <3>3
  <2> QED
      BY <2>1, <2>2
<1> QED
    BY <1>3, <1>5, <1>6, <1>7, <1>8 DEF VoucherInv, ApprovalsOK

\* VoidJournalEntryTx of a draft leaves the invoice approved without an entry to post.
LEMMA VoidDraft_Inv ==
    ASSUME VoucherInv, RowsOK', VoidDraft
    PROVE  VoucherInv'
<1>1. PICK v \in DOMAIN voucher :
          /\ voucher[v].status = "draft"
          /\ voucher' = [voucher EXCEPT ![v].status = "voided"]
          /\ UNCHANGED <<bill, updating, drifted>>
    BY DEF VoidDraft
<1>2. RowsOK /\ voucher[v] \in VoucherRow
    BY DEF VoucherInv, RowsOK
<1>3. /\ DOMAIN voucher' = DOMAIN voucher
      /\ \A w \in DOMAIN voucher : w # v => voucher'[w] = voucher[w]
      /\ voucher'[v].status = "voided" /\ voucher'[v].kind = voucher[v].kind
      /\ voucher'[v].src = voucher[v].src /\ voucher'[v].lines = voucher[v].lines
  <2>1. /\ DOMAIN voucher' = DOMAIN voucher
        /\ \A w \in DOMAIN voucher :
              voucher'[w] = IF w = v THEN [voucher[v] EXCEPT !.status = "voided"] ELSE voucher[w]
      BY <1>1, <1>2, VoucherMarked
  <2> QED
      BY <1>2, <2>1 DEF VoucherRow
<1>4. EntriesBalance' /\ KindsOK'
    BY <1>1, <1>3 DEF VoucherInv, EntriesBalance, KindsOK
<1>5. ASSUME NEW w \in DOMAIN voucher, voucher[w].kind = "approval" PROVE ApprovalOK(w)'
  <2>1. ApprovalOK(w)
      BY <1>5 DEF VoucherInv, ApprovalsOK
  <2> QED
      BY <1>1, <1>3, <2>1 DEF ApprovalOK
<1>6. PostedBacked'
  <2> SUFFICES ASSUME NEW j \in InvoiceIds, bill[j].status = "posted"
               PROVE  \E w \in DOMAIN voucher' : Backs(w, j)'
      BY <1>1 DEF PostedBacked
  <2>1. PICK w \in DOMAIN voucher : Backs(w, j)
      BY DEF VoucherInv, PostedBacked
  <2>2. CASE w # v
      BY <1>3, <2>1, <2>2 DEF Backs
  <2>3. CASE w = v
    <3>1. ApprovalOK(v) /\ bill[j].status = "approved"
        BY <1>1, <2>1, <2>3 DEF VoucherInv, ApprovalsOK, ApprovalOK, Backs
    <3> QED
        BY <3>1
  <2> QED
      BY <2>2, <2>3
<1> QED
    BY <1>1, <1>3, <1>4, <1>5, <1>6 DEF VoucherInv, ApprovalsOK, BillsFinite

\* VoidJournalEntryTx of a posted entry inserts the reversal and leaves the invoice posted.
LEMMA VoidPosted_Inv ==
    ASSUME VoucherInv, RowsOK', VoidPosted
    PROVE  VoucherInv'
<1>1. PICK v \in DOMAIN voucher :
          /\ voucher[v].status = "posted" /\ Len(voucher) < MaxVouchers
          /\ voucher' = Append([voucher EXCEPT ![v].status = "voided"],
                         [status |-> "posted", kind |-> "reversal", src |-> voucher[v].src,
                          lines |-> ReversedLines(voucher[v].lines)])
          /\ UNCHANGED <<bill, updating, drifted>>
    BY DEF VoidPosted
<1> DEFINE marked == [voucher EXCEPT ![v].status = "voided"]
           n == Len(voucher) + 1
           row == [status |-> "posted", kind |-> "reversal", src |-> voucher[v].src,
                   lines |-> ReversedLines(voucher[v].lines)]
<1>2. RowsOK /\ voucher[v] \in VoucherRow
    BY DEF VoucherInv, RowsOK
<1>3. /\ marked \in Seq(VoucherRow) /\ Len(marked) = Len(voucher) /\ DOMAIN marked = DOMAIN voucher
      /\ \A w \in DOMAIN voucher : w # v => marked[w] = voucher[w]
      /\ marked[v].status = "voided" /\ marked[v].kind = voucher[v].kind
      /\ marked[v].src = voucher[v].src /\ marked[v].lines = voucher[v].lines
  <2>1. /\ marked \in Seq(VoucherRow) /\ Len(marked) = Len(voucher) /\ DOMAIN marked = DOMAIN voucher
        /\ \A w \in DOMAIN voucher :
              marked[w] = IF w = v THEN [voucher[v] EXCEPT !.status = "voided"] ELSE voucher[w]
      BY <1>2, VoucherMarked
  <2> QED
      BY <1>2, <2>1 DEF VoucherRow
<1>4. row \in VoucherRow /\ Debits(row.lines) = Credits(row.lines)
    BY <1>2, ReversedRows DEF VoucherRow, VoucherInv, EntriesBalance
<1>5. row.kind = "reversal" /\ row.status = "posted"
    OBVIOUS
<1>6. /\ DOMAIN voucher' = (DOMAIN voucher) \cup {n} /\ n \notin DOMAIN voucher
      /\ voucher'[n] = row
      /\ \A w \in DOMAIN voucher : voucher'[w] = marked[w]
  <2>1. voucher' = Append(marked, row)
      BY <1>1
  <2>2. DOMAIN marked = 1..Len(marked) /\ Len(marked) \in Nat
      BY <1>3
  <2> HIDE DEF row, marked
  <2> QED
      BY <1>3, <1>4, <2>1, <2>2
<1> HIDE DEF row, marked, n
<1>7. EntriesBalance' /\ KindsOK'
  <2>1. \A w \in DOMAIN voucher' : Debits(voucher'[w].lines) = Credits(voucher'[w].lines)
      BY <1>3, <1>4, <1>6 DEF VoucherInv, EntriesBalance
  <2>2. \A w \in DOMAIN voucher' :
            /\ voucher'[w].kind = "manual" => voucher'[w].src = 0
            /\ voucher'[w].kind = "reversal" => voucher'[w].status # "draft"
      BY <1>3, <1>5, <1>6 DEF VoucherInv, KindsOK
  <2> QED
      BY <2>1, <2>2 DEF EntriesBalance, KindsOK
<1>8. ASSUME NEW w \in DOMAIN voucher', voucher'[w].kind = "approval" PROVE ApprovalOK(w)'
  <2>1. w \in DOMAIN voucher /\ voucher[w].kind = "approval"
      BY <1>3, <1>5, <1>6, <1>8
  <2>2. ApprovalOK(w)
      BY <2>1 DEF VoucherInv, ApprovalsOK
  <2>3. /\ voucher'[w].src = voucher[w].src /\ voucher'[w].lines = voucher[w].lines
        /\ voucher'[w].status \in {"voided", voucher[w].status}
      BY <1>3, <1>6, <2>1
  <2>4. \A x \in DOMAIN voucher' : voucher'[x].kind = "approval" /\ voucher'[x].src = voucher[w].src =>
        x = w
      BY <1>3, <1>5, <1>6, <2>2 DEF ApprovalOK
  <2> QED
      BY <1>1, <2>2, <2>3, <2>4 DEF ApprovalOK, IsDraftOf
<1>9. PostedBacked'
  <2> SUFFICES ASSUME NEW j \in InvoiceIds, bill[j].status = "posted"
               PROVE  \E w \in DOMAIN voucher' : Backs(w, j)'
      BY <1>1 DEF PostedBacked
  <2>1. PICK w \in DOMAIN voucher : Backs(w, j)
      BY DEF VoucherInv, PostedBacked
  <2>2. voucher'[w].kind = "approval" /\ voucher'[w].src = j
      BY <1>3, <1>6, <2>1 DEF Backs
  <2>3. n \in DOMAIN voucher' /\ voucher'[n].kind = "reversal"
      BY <1>5, <1>6
  <2>4. Backs(w, j)'
      BY <2>2, <2>3 DEF Backs
  <2> QED
      BY <1>6, <2>4
<1> QED
    BY <1>1, <1>7, <1>8, <1>9 DEF VoucherInv, ApprovalsOK, BillsFinite

\* Every handler keeps the invariant.
LEMMA VoucherInv_Step == VoucherInv /\ [VoucherNext]_voucherVars => VoucherInv'
<1> SUFFICES ASSUME VoucherInv, [VoucherNext]_voucherVars PROVE VoucherInv'
    OBVIOUS
<1>0. RowsOK /\ RowsOK'
    BY RowsStep DEF VoucherInv
<1>1. CASE CreateInvoice
  <2>1. PICK i \in InvoiceIds, d \in Deals :
            /\ bill[i].status = "absent"
            /\ SetBill(i, [status |-> "pending_review", deal |-> d, of |-> 0])
            /\ UNCHANGED <<voucher, drifted>>
      BY <1>1 DEF CreateInvoice
  <2> QED
      BY <1>0, <2>1, QuietStep DEF SetBill, RowsOK
<1>2. CASE CreateRedLetterInvoice
  <2>1. PICK j \in InvoiceIds : \E row :
            /\ bill[j].status = "absent" /\ row.status = "pending_review" /\ SetBill(j, row)
            /\ UNCHANGED <<voucher, drifted>>
      BY <1>2 DEF CreateRedLetterInvoice
  <2> QED
      BY <1>0, <2>1, QuietStep DEF SetBill, RowsOK
<1>3. CASE RejectInvoice
  <2>1. PICK i \in InvoiceIds :
            /\ bill[i].status = "pending_review"
            /\ SetBill(i, [bill[i] EXCEPT !.status = "rejected"])
            /\ UNCHANGED <<voucher, drifted>>
      BY <1>3 DEF RejectInvoice
  <2>2. bill[i] \in BillRow
      BY <1>0 DEF RowsOK
  <2>3. bill'[i].status = "rejected" /\ \A j \in InvoiceIds : j # i => bill'[j] = bill[j]
      BY <1>0, <2>1, <2>2 DEF SetBill, RowsOK, BillRow
  <2> QED
      BY <1>0, <2>1, <2>3, QuietStep
<1>4. CASE ApproveInvoice
    BY <1>0, <1>4, ApproveInvoice_Inv
<1>5. CASE UpdateInvoiceDraftRead \/ UNCHANGED voucherVars
  <2>1. bill' = bill /\ voucher' = voucher /\ drifted' = drifted
      BY <1>5 DEF UpdateInvoiceDraftRead, voucherVars
  <2>2. BillsFinite' /\ EntriesBalance' /\ KindsOK'
      BY <2>1 DEF VoucherInv, BillsFinite, EntriesBalance, KindsOK
  <2>3. ApprovalsOK' /\ PostedBacked'
      BY <2>1 DEF VoucherInv, ApprovalsOK, ApprovalOK, PostedBacked, Backs
  <2> QED
      BY <1>0, <2>2, <2>3 DEF VoucherInv
<1>6. CASE UpdateInvoiceDraftWrite
    BY <1>0, <1>6, UpdateInvoiceDraftWrite_Inv
<1>7. CASE CreateJournalDraft
    BY <1>0, <1>7, CreateJournalDraft_Inv
<1>8. CASE PostJournalEntry
    BY <1>0, <1>8, PostJournalEntry_Inv
<1>9. CASE VoidDraft
    BY <1>0, <1>9, VoidDraft_Inv
<1>10. CASE VoidPosted
    BY <1>0, <1>10, VoidPosted_Inv
<1> QED
    BY <1>1, <1>2, <1>3, <1>4, <1>5, <1>6, <1>7, <1>8, <1>9, <1>10 DEF VoucherNext

\* The invariant holds in every state.
LEMMA VoucherInvAlways == VoucherSpec => []VoucherInv
BY VoucherInv_Init, VoucherInv_Step, PTL DEF VoucherSpec

-----------------------------------------------------------------------------
(* Sums over the posted lines *)

\* The posted entries, and a line of one as the reports read it.
Posted == {v \in DOMAIN voucher : voucher[v].status = "posted"}
LineAt(v, k) ==
    [account |-> voucher[v].lines[k].account, dir |-> voucher[v].lines[k].dir,
     debit |-> voucher[v].lines[k].debit, credit |-> voucher[v].lines[k].credit, key |-> <<v, k>>]
VoucherPlaces(v) == {<<v, k>> : k \in DOMAIN voucher[v].lines}
PostedPlaces == UNION {VoucherPlaces(v) : v \in Posted}

\* A row of the journal.
LEMMA EntriesTyped ==
    ASSUME VoucherInv, NEW v \in DOMAIN voucher
    PROVE  /\ voucher[v] \in VoucherRow /\ voucher[v].lines \in Seq(LineRow)
           /\ DOMAIN voucher[v].lines = 1..Len(voucher[v].lines) /\ Len(voucher[v].lines) \in Nat
           /\ \A k \in DOMAIN voucher[v].lines : voucher[v].lines[k] \in LineRow
<1>1. voucher[v] \in VoucherRow
    BY DEF VoucherInv, RowsOK
<1>2. voucher[v].lines \in Seq(LineRow)
    BY <1>1 DEF VoucherRow
<1> QED
    BY <1>1, <1>2

\* There are finitely many posted lines to be numbered,
LEMMA PlacesFinite ==
    ASSUME VoucherInv
    PROVE  /\ IsFiniteSet(Posted) /\ IsFiniteSet(PostedPlaces)
           /\ \A v \in DOMAIN voucher : IsFiniteSet(DOMAIN voucher[v].lines)
<1>1. DOMAIN voucher = 1..Len(voucher) /\ Len(voucher) \in Nat
    BY DEF VoucherInv, RowsOK
<1>2. IsFiniteSet(Posted)
  <2>1. IsFiniteSet(DOMAIN voucher)
      BY <1>1, FS_Interval
  <2>2. Posted \in SUBSET DOMAIN voucher
      BY DEF Posted
  <2> QED
      BY <2>1, <2>2, FS_Subset
<1>3. ASSUME NEW v \in DOMAIN voucher PROVE IsFiniteSet(DOMAIN voucher[v].lines)
    BY EntriesTyped, FS_Interval
<1>4. ASSUME NEW v \in Posted PROVE IsFiniteSet(VoucherPlaces(v))
  <2> DEFINE m == [k \in DOMAIN voucher[v].lines |-> <<v, k>>]
  <2>1. m \in Surjection(DOMAIN voucher[v].lines, VoucherPlaces(v))
      BY DEF Surjection, VoucherPlaces
  <2>2. IsFiniteSet(DOMAIN voucher[v].lines)
      BY <1>3 DEF Posted
  <2> HIDE DEF m
  <2> QED
      BY <2>1, <2>2, FS_Surjection
<1> DEFINE all == {VoucherPlaces(v) : v \in Posted}
           m == [v \in Posted |-> VoucherPlaces(v)]
<1>5. m \in Surjection(Posted, all)
    BY DEF Surjection
<1>6. \A p \in all : IsFiniteSet(p)
    BY <1>4
<1>7. PostedPlaces = UNION all
    BY DEF PostedPlaces
<1>8. IsFiniteSet(PostedPlaces)
  <2> HIDE DEF m, all
  <2>1. IsFiniteSet(all)
      BY <1>2, <1>5, FS_Surjection
  <2> QED
      BY <2>1, <1>6, <1>7, FS_UNION
<1> QED
    BY <1>2, <1>3, <1>8

\* and a sum over the posted lines is taken entry by entry.
LEMMA PostedLineSum ==
    ASSUME VoucherInv, NEW f, \A l \in PostedLines : f[l] \in Int
    PROVE  SumOn(f, PostedLines) =
              SumOn([v \in Posted |-> SumOn([k \in DOMAIN voucher[v].lines |-> f[LineAt(v, k)]],
                                            DOMAIN voucher[v].lines)], Posted)
<1> DEFINE P == PostedPlaces
           at == [p \in P |-> LineAt(p[1], p[2])]
           e == [p \in P |-> f[at[p]]]
           of == [p \in P |-> p[1]]
           D(v) == DOMAIN voucher[v].lines
           byEntry == [v \in Posted |-> SumOn(e, {p \in P : of[p] = v})]
           goal == [v \in Posted |-> SumOn([k \in D(v) |-> f[LineAt(v, k)]], D(v))]
<1>1. IsFiniteSet(Posted) /\ IsFiniteSet(P) /\ \A v \in Posted : IsFiniteSet(D(v))
    BY PlacesFinite DEF Posted
<1>2. \A v \in Posted : \A k \in D(v) : <<v, k>> \in P
    BY DEF PostedPlaces, VoucherPlaces
<1>3. \A p \in P : p[1] \in Posted /\ p[2] \in D(p[1]) /\ p = <<p[1], p[2]>>
    BY DEF PostedPlaces, VoucherPlaces
<1>4. PostedLines = {at[p] : p \in P}
  <2>1. ASSUME NEW l \in PostedLines PROVE \E p \in P : l = at[p]
    <3>1. \E v \in Posted : \E k \in D(v) : l = LineAt(v, k)
        BY DEF PostedLines, Posted, LineAt
    <3>2. PICK v \in Posted : \E k \in D(v) : l = LineAt(v, k)
        BY <3>1
    <3>3. PICK k \in D(v) : l = LineAt(v, k)
        BY <3>2
    <3>4. <<v, k>> \in P
        BY <1>2
    <3> QED
        BY <3>3, <3>4
  <2>2. ASSUME NEW p \in P PROVE at[p] \in PostedLines
    <3>1. p[1] \in Posted /\ p[2] \in D(p[1]) /\ at[p] = LineAt(p[1], p[2])
        BY <1>3
    <3> HIDE DEF at, P
    <3> QED
        BY <3>1 DEF PostedLines, Posted, LineAt
  <2> QED
      BY <2>1, <2>2
<1>5. \A p, q \in P : at[p] = at[q] => p = q
  <2> SUFFICES ASSUME NEW p \in P, NEW q \in P, at[p] = at[q] PROVE p = q
      OBVIOUS
  <2>1. at[p].key = <<p[1], p[2]>> /\ at[q].key = <<q[1], q[2]>>
      BY DEF LineAt
  <2> QED
      BY <1>3, <2>1
<1>6. \A p \in P : f[at[p]] \in Int
    BY <1>4
<1>7. SumOn(f, PostedLines) = SumOn(e, P)
  <2>1. SumOn(f, {at[p] : p \in P}) = SumOn([p \in P |-> f[at[p]]], P)
    <3> HIDE DEF P, at
    <3> QED
        BY <1>1, <1>5, <1>6, SumRenamed
  <2> QED
      BY <1>4, <2>1
<1>8. \A p \in P : e[p] \in Int /\ of[p] \in Posted
    BY <1>3, <1>6
<1>9. SumOn(e, P) = SumOn(byEntry, Posted)
  <2> HIDE DEF P, e, of
  <2> QED
      BY <1>1, <1>8, SumFibres
<1>10. ASSUME NEW v \in Posted PROVE byEntry[v] = goal[v]
  <2> DEFINE h == [k \in D(v) |-> <<v, k>>]
  <2>1. {p \in P : of[p] = v} = {h[k] : k \in D(v)}
      BY <1>2, <1>3
  <2>2. \A j, k \in D(v) : h[j] = h[k] => j = k
      OBVIOUS
  <2>3. \A k \in D(v) : e[h[k]] \in Int
      BY <1>2, <1>8
  <2>4. SumOn(e, {h[k] : k \in D(v)}) = SumOn([k \in D(v) |-> e[h[k]]], D(v))
    <3> HIDE DEF h, e, D, P
    <3> QED
        BY <1>1, <2>2, <2>3, SumRenamed
  <2>5. \A k \in D(v) : e[h[k]] = f[LineAt(v, k)]
      BY <1>2
  <2>6. [k \in D(v) |-> e[h[k]]] = [k \in D(v) |-> f[LineAt(v, k)]]
      BY <2>5
  <2> HIDE DEF h, e, D, P, of
  <2> QED
      BY <2>1, <2>4, <2>6
<1>11. SumOn(byEntry, Posted) = SumOn(goal, Posted)
  <2> HIDE DEF byEntry, goal
  <2> QED
      BY <1>10, SumSame
<1> QED
    BY <1>7, <1>9, <1>11

\* The posted lines are finitely many,
LEMMA PostedLinesFinite ==
    ASSUME VoucherInv
    PROVE  IsFiniteSet(PostedLines)
<1> DEFINE at == [p \in PostedPlaces |-> LineAt(p[1], p[2])]
<1>1. at \in Surjection(PostedPlaces, PostedLines)
  <2>1. ASSUME NEW l \in PostedLines PROVE \E p \in PostedPlaces : at[p] = l
    <3>1. PICK v \in Posted : \E k \in DOMAIN voucher[v].lines : l = LineAt(v, k)
        BY DEF PostedLines, Posted, LineAt
    <3>2. PICK k \in DOMAIN voucher[v].lines : l = LineAt(v, k)
        BY <3>1
    <3>3. <<v, k>> \in PostedPlaces
        BY DEF PostedPlaces, VoucherPlaces
    <3> QED
        BY <3>2, <3>3
  <2>2. ASSUME NEW p \in PostedPlaces PROVE at[p] \in PostedLines
    <3>1. p[1] \in Posted /\ p[2] \in DOMAIN voucher[p[1]].lines
        BY DEF PostedPlaces, VoucherPlaces
    <3> QED
        BY <3>1 DEF PostedLines, Posted, LineAt
  <2> QED
      BY <2>1, <2>2 DEF Surjection
<1> HIDE DEF at
<1> QED
    BY <1>1, PlacesFinite, FS_Surjection

\* and typed.
LEMMA PostedLinesTyped ==
    ASSUME VoucherInv, NEW l \in PostedLines
    PROVE  /\ l.account \in Seq(Nat) /\ l.dir \in {"debit", "credit"}
           /\ l.debit \in Int /\ l.credit \in Int
<1>1. PICK v \in Posted : \E k \in DOMAIN voucher[v].lines : l = LineAt(v, k)
    BY DEF PostedLines, Posted, LineAt
<1>3. PICK k \in DOMAIN voucher[v].lines : l = LineAt(v, k)
    BY <1>1
<1>4. voucher[v].lines[k] \in LineRow
    BY EntriesTyped DEF Posted
<1> QED
    BY <1>3, <1>4 DEF LineRow, LineAt

-----------------------------------------------------------------------------
(* Balances *)

\* Lines with their two columns.
Columns(lines) == \A l \in lines : l.debit \in Int /\ l.credit \in Int
DebitOf(lines)  == [l \in lines |-> l.debit]
CreditOf(lines) == [l \in lines |-> l.credit]
AccountsOf(lines) == {l.account : l \in lines}

\* TrialBalance groups the lines by account; the sums of its rows are those of the lines.
LEMMA ByAccount ==
    ASSUME NEW lines, IsFiniteSet(lines), Columns(lines), NEW A \in SUBSET AccountsOf(lines)
    PROVE  /\ SumFunction([a \in A |-> TrialBalance(lines)[a].debit])
                 = SumOn(DebitOf(lines), {l \in lines : l.account \in A})
           /\ SumFunction([a \in A |-> TrialBalance(lines)[a].credit])
                 = SumOn(CreditOf(lines), {l \in lines : l.account \in A})
<1> DEFINE On(a) == {l \in lines : l.account = a}
           Within == {l \in lines : l.account \in A}
           acc == [l \in Within |-> l.account]
<1>1. IsFiniteSet(Within) /\ \A l \in Within : acc[l] \in A
    BY FS_Subset
<1>2. IsFiniteSet(A)
  <2> DEFINE m == [l \in lines |-> l.account]
  <2>1. m \in Surjection(lines, AccountsOf(lines))
      BY DEF Surjection, AccountsOf
  <2>2. IsFiniteSet(AccountsOf(lines))
    <3> HIDE DEF m
    <3> QED  BY <2>1, FS_Surjection
  <2> QED
      BY <2>2, FS_Subset
<1>3. \A a \in A : {l \in Within : acc[l] = a} = On(a)
    OBVIOUS
<1>4. ASSUME NEW f, \A l \in lines : f[l] \in Int
      PROVE  SumOn(f, Within) = SumOn([a \in A |-> SumOn(f, On(a))], A)
  <2>1. SumOn(f, Within) = SumOn([a \in A |-> SumOn(f, {l \in Within : acc[l] = a})], A)
    <3>1. \A l \in Within : f[l] \in Int
        BY <1>4
    <3> HIDE DEF Within, acc
    <3> QED  BY <1>1, <1>2, <3>1, SumFibres
  <2>2. [a \in A |-> SumOn(f, {l \in Within : acc[l] = a})] = [a \in A |-> SumOn(f, On(a))]
      BY <1>3
  <2> QED
      BY <2>1, <2>2
<1>5. \A a \in A : a \in AccountsOf(lines)
    OBVIOUS
<1>6. ASSUME NEW a \in A
      PROVE  /\ TrialBalance(lines)[a].debit = SumOn(DebitOf(lines), On(a))
             /\ TrialBalance(lines)[a].credit = SumOn(CreditOf(lines), On(a))
  <2>1. TrialBalance(lines)[a] =
            [debit |-> SumFunction([l \in On(a) |-> l.debit]),
             credit |-> SumFunction([l \in On(a) |-> l.credit])]
      BY <1>5 DEF TrialBalance, AccountsOf
  <2>2. /\ [l \in On(a) |-> l.debit] = [l \in On(a) |-> DebitOf(lines)[l]]
        /\ [l \in On(a) |-> l.credit] = [l \in On(a) |-> CreditOf(lines)[l]]
      BY DEF DebitOf, CreditOf
  <2> QED
      BY <2>1, <2>2 DEF SumOn
<1>7. /\ [a \in A |-> TrialBalance(lines)[a].debit] = [a \in A |-> SumOn(DebitOf(lines), On(a))]
      /\ [a \in A |-> TrialBalance(lines)[a].credit] = [a \in A |-> SumOn(CreditOf(lines), On(a))]
    BY <1>6
<1>8. /\ \A l \in lines : DebitOf(lines)[l] \in Int
      /\ \A l \in lines : CreditOf(lines)[l] \in Int
    BY DEF Columns, DebitOf, CreditOf
<1>9. \A f : SumOn([a \in A |-> SumOn(f, On(a))], A) = SumFunction([a \in A |-> SumOn(f, On(a))])
  <2> TAKE f
  <2> DEFINE g == [a \in A |-> SumOn(f, On(a))]
  <2>1. [a \in A |-> g[a]] = g
      OBVIOUS
  <2> HIDE DEF g
  <2>2. SumOn(g, A) = SumFunction(g)
      BY <2>1 DEF SumOn
  <2> QED
      BY <2>2 DEF g
<1> HIDE DEF Within, On, acc
<1>10. /\ SumOn(DebitOf(lines), Within) = SumOn([a \in A |-> SumOn(DebitOf(lines), On(a))], A)
       /\ SumOn(CreditOf(lines), Within) = SumOn([a \in A |-> SumOn(CreditOf(lines), On(a))], A)
    BY <1>4, <1>8
<1> QED
    BY <1>7, <1>9, <1>10 DEF Within

\* So IsBalanced compares the sums of the two columns of the ledger.
LEMMA TrialBalanceSums ==
    ASSUME NEW lines, IsFiniteSet(lines), Columns(lines)
    PROVE  IsBalanced(TrialBalance(lines))
              <=> SumOn(DebitOf(lines), lines) = SumOn(CreditOf(lines), lines)
<1> DEFINE A == AccountsOf(lines)
<1>1. DOMAIN TrialBalance(lines) = A
    BY DEF TrialBalance, AccountsOf
<1>2. {l \in lines : l.account \in A} = lines
    BY DEF AccountsOf
<1>3. A \in SUBSET AccountsOf(lines)
    OBVIOUS
<1> HIDE DEF A
<1>4. /\ SumFunction([a \in A |-> TrialBalance(lines)[a].debit])
            = SumOn(DebitOf(lines), {l \in lines : l.account \in A})
      /\ SumFunction([a \in A |-> TrialBalance(lines)[a].credit])
            = SumOn(CreditOf(lines), {l \in lines : l.account \in A})
    BY <1>3, ByAccount
<1> QED
    BY <1>1, <1>2, <1>4 DEF IsBalanced

\* Every posted entry balances, therefore so does the ledger.
LEMMA EntryByEntry ==
    ASSUME VoucherInv
    PROVE  BooksBalance
<1> DEFINE d == DebitOf(PostedLines)
           c == CreditOf(PostedLines)
           D(v) == DOMAIN voucher[v].lines
<1>1. IsFiniteSet(PostedLines) /\ Columns(PostedLines)
    BY PostedLinesFinite, PostedLinesTyped DEF Columns
<1>2. \A l \in PostedLines : d[l] = l.debit /\ d[l] \in Int /\ c[l] = l.credit /\ c[l] \in Int
    BY <1>1 DEF Columns, DebitOf, CreditOf
<1>3. \A v \in Posted : \A k \in D(v) : LineAt(v, k) \in PostedLines
    BY DEF PostedLines, Posted, LineAt
<1>4. /\ SumOn(d, PostedLines) =
            SumOn([v \in Posted |-> SumOn([k \in D(v) |-> d[LineAt(v, k)]], D(v))], Posted)
      /\ SumOn(c, PostedLines) =
            SumOn([v \in Posted |-> SumOn([k \in D(v) |-> c[LineAt(v, k)]], D(v))], Posted)
  <2> HIDE DEF d, c
  <2> QED
      BY <1>2, PostedLineSum
<1>5. ASSUME NEW v \in Posted
      PROVE  SumOn([k \in D(v) |-> d[LineAt(v, k)]], D(v)) = SumOn([k \in D(v) |-> c[LineAt(v, k)]],
          D(v))
  <2>1. \A k \in D(v) : /\ d[LineAt(v, k)] = voucher[v].lines[k].debit
                        /\ c[LineAt(v, k)] = voucher[v].lines[k].credit
    <3>1. \A k \in D(v) : LineAt(v, k).debit = voucher[v].lines[k].debit
                          /\ LineAt(v, k).credit = voucher[v].lines[k].credit
        BY DEF LineAt
    <3> HIDE DEF d, c
    <3> QED
        BY <1>2, <1>3, <3>1
  <2>2. /\ [k \in D(v) |-> d[LineAt(v, k)]] = [k \in D(v) |-> voucher[v].lines[k].debit]
        /\ [k \in D(v) |-> c[LineAt(v, k)]] = [k \in D(v) |-> voucher[v].lines[k].credit]
      BY <2>1
  <2>3. \A S : \A f : f = [x \in S |-> f[x]] => SumOn(f, S) = SumFunction(f)
      BY DEF SumOn
  <2>4. /\ SumOn([k \in D(v) |-> voucher[v].lines[k].debit], D(v)) = Debits(voucher[v].lines)
        /\ SumOn([k \in D(v) |-> voucher[v].lines[k].credit], D(v)) = Credits(voucher[v].lines)
      BY <2>3 DEF Debits, Credits
  <2>5. Debits(voucher[v].lines) = Credits(voucher[v].lines)
      BY DEF VoucherInv, EntriesBalance, Posted
  <2> QED
      BY <2>2, <2>4, <2>5
<1>6. [v \in Posted |-> SumOn([k \in D(v) |-> d[LineAt(v, k)]], D(v))]
      = [v \in Posted |-> SumOn([k \in D(v) |-> c[LineAt(v, k)]], D(v))]
    BY <1>5
<1>7. SumOn(d, PostedLines) = SumOn(c, PostedLines)
    BY <1>4, <1>6
<1> QED
    BY <1>1, <1>7, TrialBalanceSums DEF BooksBalance

\* BooksBalance: the trial balance of the posted lines balances after every sequence of
\* approvals, manual entries, postings and reversals.
THEOREM BooksAlwaysBalance == VoucherSpec => []BooksBalance
BY EntryByEntry, VoucherInvAlways, PTL

-----------------------------------------------------------------------------
(* Value added tax *)

\* Invoices with their amounts, and the rows of the cross check, by rate and direction.
Amounted(invoices) == \A i \in invoices : i.net \in Int /\ i.tax \in Int /\ i.gross \in Int
NetOf(invoices) == [i \in invoices |-> i.net]
TaxOf(invoices) == [i \in invoices |-> i.tax]
RateKeys(invoices) == {RateKey(i) : i \in invoices}
RowOf(invoices, k) ==
    [count |-> Cardinality({i \in invoices : RateKey(i) = k}),
     net |-> SumFunction([i \in {i \in invoices : RateKey(i) = k} |-> i.net]),
     tax |-> SumFunction([i \in {i \in invoices : RateKey(i) = k} |-> i.tax])]
OutKeys(invoices) == {k \in RateKeys(invoices) : k[2] = "output"}
Outgoing(invoices) == Direction(invoices, "output")

\* What VATCrossCheck returns.
LEMMA CrossCheckRows ==
    ASSUME NEW invoices
    PROVE  LET cc == VATCrossCheck(invoices)
               out == OutKeys(invoices)
               in  == RateKeys(invoices) \ out IN
           /\ DOMAIN cc.rows = RateKeys(invoices)
           /\ \A k \in RateKeys(invoices) : cc.rows[k] = RowOf(invoices, k)
           /\ cc.outputTotal = SumFunction([k \in out |-> RowOf(invoices, k).tax])
           /\ cc.inputTotal = SumFunction([k \in in |-> RowOf(invoices, k).tax])
           /\ cc.net = cc.outputTotal - cc.inputTotal
<1> DEFINE rows == [k \in RateKeys(invoices) |-> RowOf(invoices, k)]
           out == OutKeys(invoices)
           in == RateKeys(invoices) \ out
<1>1. /\ [k \in out |-> rows[k].tax] = [k \in out |-> RowOf(invoices, k).tax]
      /\ [k \in in |-> rows[k].tax] = [k \in in |-> RowOf(invoices, k).tax]
  <2>1. \A k \in RateKeys(invoices) : rows[k] = RowOf(invoices, k)
      OBVIOUS
  <2>2. out \subseteq RateKeys(invoices) /\ in \subseteq RateKeys(invoices)
      BY DEF OutKeys
  <2> HIDE DEF rows, out, in
  <2> QED
      BY <2>1, <2>2
<1>2. VATCrossCheck(invoices) =
          [rows |-> rows,
           outputTotal |-> SumFunction([k \in out |-> rows[k].tax]),
           inputTotal  |-> SumFunction([k \in in |-> rows[k].tax]),
           net |-> SumFunction([k \in out |-> rows[k].tax]) - SumFunction([k \in in |-> rows[k].tax]),
           warnings |-> {k \in in : \A o \in out : o[1] # k[1]}]
    BY DEF VATCrossCheck, RateKeys, RowOf, OutKeys
<1>3. DOMAIN rows = RateKeys(invoices) /\ \A k \in RateKeys(invoices) : rows[k] = RowOf(invoices, k)
    OBVIOUS
<1> HIDE DEF rows, out, in
<1> QED
    BY <1>1, <1>2, <1>3 DEF out, in

\* SumIsSumOn the other way round.
LEMMA SumIsSum == ASSUME NEW S, NEW f, f = [x \in S |-> f[x]] PROVE SumOn(f, S) = SumFunction(f)
BY DEF SumOn

\* The rows of the cross check add up to the invoices they were grouped from.
LEMMA ByRate ==
    ASSUME NEW invoices, IsFiniteSet(invoices), Amounted(invoices), NEW K \in SUBSET RateKeys(invoices)
    PROVE  LET within == {i \in invoices : RateKey(i) \in K} IN
           /\ SumFunction([k \in K |-> RowOf(invoices, k).count]) = Cardinality(within)
           /\ SumFunction([k \in K |-> RowOf(invoices, k).net]) = SumOn(NetOf(invoices), within)
           /\ SumFunction([k \in K |-> RowOf(invoices, k).tax]) = SumOn(TaxOf(invoices), within)
<1> DEFINE On(k) == {i \in invoices : RateKey(i) = k}
           Within == {i \in invoices : RateKey(i) \in K}
           key == [i \in Within |-> RateKey(i)]
           one == [i \in invoices |-> 1]
<1>1. IsFiniteSet(Within) /\ \A i \in Within : key[i] \in K
    BY FS_Subset
<1>2. IsFiniteSet(K)
  <2> DEFINE m == [i \in invoices |-> RateKey(i)]
  <2>1. m \in Surjection(invoices, RateKeys(invoices))
      BY DEF Surjection, RateKeys
  <2>2. IsFiniteSet(RateKeys(invoices))
    <3> HIDE DEF m
    <3> QED  BY <2>1, FS_Surjection
  <2> QED
      BY <2>2, FS_Subset
<1>3. \A k \in K : {i \in Within : key[i] = k} = On(k)
    OBVIOUS
<1>4. ASSUME NEW f, \A i \in invoices : f[i] \in Int
      PROVE  SumOn(f, Within) = SumFunction([k \in K |-> SumOn(f, On(k))])
  <2>1. SumOn(f, Within) = SumOn([k \in K |-> SumOn(f, {i \in Within : key[i] = k})], K)
    <3>1. \A i \in Within : f[i] \in Int
        BY <1>4
    <3> HIDE DEF Within, key
    <3> QED  BY <1>1, <1>2, <3>1, SumFibres
  <2>2. [k \in K |-> SumOn(f, {i \in Within : key[i] = k})] = [k \in K |-> SumOn(f, On(k))]
      BY <1>3
  <2>3. SumOn([k \in K |-> SumOn(f, On(k))], K) = SumFunction([k \in K |-> SumOn(f, On(k))])
    <3> DEFINE g == [k \in K |-> SumOn(f, On(k))]
    <3>1. g = [k \in K |-> g[k]]
        OBVIOUS
    <3> HIDE DEF g
    <3>2. SumOn(g, K) = SumFunction(g)
        BY <3>1, SumIsSum
    <3> QED
        BY <3>2 DEF g
  <2> QED
      BY <2>1, <2>2, <2>3
<1>5. ASSUME NEW k \in K
      PROVE  /\ RowOf(invoices, k).net = SumOn(NetOf(invoices), On(k))
             /\ RowOf(invoices, k).tax = SumOn(TaxOf(invoices), On(k))
             /\ RowOf(invoices, k).count = SumOn(one, On(k))
  <2>1. /\ [i \in On(k) |-> i.net] = [i \in On(k) |-> NetOf(invoices)[i]]
        /\ [i \in On(k) |-> i.tax] = [i \in On(k) |-> TaxOf(invoices)[i]]
        /\ [i \in On(k) |-> 1] = [i \in On(k) |-> one[i]]
      BY DEF NetOf, TaxOf
  <2>2. Cardinality(On(k)) = SumOn(one, On(k))
    <3>1. IsFiniteSet(On(k))
        BY FS_Subset
    <3>2. Cardinality(On(k)) = SumOn([i \in On(k) |-> 1], On(k))
      <4> HIDE DEF On
      <4> QED  BY <3>1, SumOfOnes
    <3>3. SumOn([i \in On(k) |-> 1], On(k)) = SumOn(one, On(k))
      <4>1. \A i \in On(k) : [j \in On(k) |-> 1][i] = one[i]
          OBVIOUS
      <4> HIDE DEF On, one
      <4> QED  BY <4>1, SumSame
    <3> QED
        BY <3>2, <3>3
  <2>3. /\ RowOf(invoices, k).net = SumFunction([i \in On(k) |-> i.net])
        /\ RowOf(invoices, k).tax = SumFunction([i \in On(k) |-> i.tax])
        /\ RowOf(invoices, k).count = Cardinality(On(k))
      BY DEF RowOf
  <2> QED
      BY <2>1, <2>2, <2>3 DEF SumOn
<1>6. /\ [k \in K |-> RowOf(invoices, k).net] = [k \in K |-> SumOn(NetOf(invoices), On(k))]
      /\ [k \in K |-> RowOf(invoices, k).tax] = [k \in K |-> SumOn(TaxOf(invoices), On(k))]
      /\ [k \in K |-> RowOf(invoices, k).count] = [k \in K |-> SumOn(one, On(k))]
    BY <1>5
<1>7. /\ \A i \in invoices : NetOf(invoices)[i] \in Int
      /\ \A i \in invoices : TaxOf(invoices)[i] \in Int
      /\ \A i \in invoices : one[i] \in Int
    BY DEF Amounted, NetOf, TaxOf
<1>8. Cardinality(Within) = SumOn(one, Within)
  <2>1. Cardinality(Within) = SumOn([i \in Within |-> 1], Within)
    <3> HIDE DEF Within
    <3> QED  BY <1>1, SumOfOnes
  <2>2. \A i \in Within : [j \in Within |-> 1][i] = one[i]
      OBVIOUS
  <2> HIDE DEF Within, one
  <2> QED
      BY <2>1, <2>2, SumSame
<1> HIDE DEF On, one, key, Within
<1>9. /\ SumOn(NetOf(invoices), Within) = SumFunction([k \in K |-> SumOn(NetOf(invoices), On(k))])
      /\ SumOn(TaxOf(invoices), Within) = SumFunction([k \in K |-> SumOn(TaxOf(invoices), On(k))])
      /\ SumOn(one, Within) = SumFunction([k \in K |-> SumOn(one, On(k))])
    BY <1>4, <1>7
<1> QED
    BY <1>6, <1>8, <1>9 DEF Within

\* What VATSummary returns.
LEMMA SummarySums ==
    ASSUME NEW invoices
    PROVE  LET out == Outgoing(invoices)
               in  == invoices \ out
               sum == VATSummary(invoices) IN
           /\ sum.outputCount = Cardinality(out)
           /\ sum.outputNet = SumOn(NetOf(invoices), out)
           /\ sum.outputTax = SumOn(TaxOf(invoices), out)
           /\ sum.inputCount = Cardinality(in)
           /\ sum.inputNet = SumOn(NetOf(invoices), in)
           /\ sum.inputTax = SumOn(TaxOf(invoices), in)
<1> DEFINE out == Outgoing(invoices)
           in == invoices \ out
<1>1. out \subseteq invoices /\ in \subseteq invoices
    BY DEF Outgoing, Direction
<1> HIDE DEF out, in
<1>2. /\ [i \in out |-> i.net] = [i \in out |-> NetOf(invoices)[i]]
      /\ [i \in out |-> i.tax] = [i \in out |-> TaxOf(invoices)[i]]
      /\ [i \in in |-> i.net] = [i \in in |-> NetOf(invoices)[i]]
      /\ [i \in in |-> i.tax] = [i \in in |-> TaxOf(invoices)[i]]
    BY <1>1 DEF NetOf, TaxOf
<1>3. VATSummary(invoices) =
         [outputCount |-> Cardinality(out), outputNet |-> SumFunction([i \in out |-> i.net]),
          outputTax |-> SumFunction([i \in out |-> i.tax]),
          inputCount |-> Cardinality(in), inputNet |-> SumFunction([i \in in |-> i.net]),
          inputTax |-> SumFunction([i \in in |-> i.tax])]
    BY DEF VATSummary, out, in, Outgoing
<1> QED
    BY <1>2, <1>3 DEF SumOn, in, out

\* No invoice is lost between the cross check and the summary, and none counted twice.
LEMMA CheckIsComplete ==
    ASSUME NEW invoices, IsFiniteSet(invoices), Amounted(invoices)
    PROVE  LET cc == VATCrossCheck(invoices)  sum == VATSummary(invoices)
               Rows(d) == {k \in DOMAIN cc.rows : (k[2] = "output") = d} IN
           /\ SumFunction([k \in Rows(TRUE) |-> cc.rows[k].count]) = sum.outputCount
           /\ SumFunction([k \in Rows(FALSE) |-> cc.rows[k].count]) = sum.inputCount
           /\ SumFunction([k \in Rows(TRUE) |-> cc.rows[k].net]) = sum.outputNet
           /\ SumFunction([k \in Rows(FALSE) |-> cc.rows[k].net]) = sum.inputNet
           /\ cc.outputTotal = sum.outputTax /\ cc.inputTotal = sum.inputTax
<1> DEFINE out == OutKeys(invoices)
           in == RateKeys(invoices) \ out
           cc == VATCrossCheck(invoices)
           Rows(d) == {k \in DOMAIN cc.rows : (k[2] = "output") = d}
<1>1. out \in SUBSET RateKeys(invoices) /\ in \in SUBSET RateKeys(invoices)
    BY DEF OutKeys
<1>2. /\ {i \in invoices : RateKey(i) \in out} = Outgoing(invoices)
      /\ {i \in invoices : RateKey(i) \in in} = invoices \ Outgoing(invoices)
  <2>1. \A i \in invoices : RateKey(i)[2] = i.direction /\ RateKey(i) \in RateKeys(invoices)
      BY DEF RateKey, RateKeys
  <2> QED
      BY <2>1 DEF OutKeys, Outgoing, Direction
<1>3. Rows(TRUE) = out /\ Rows(FALSE) = in
  <2>1. DOMAIN cc.rows = RateKeys(invoices)
      BY CrossCheckRows
  <2> QED
      BY <2>1 DEF OutKeys
<1>4. \A k \in RateKeys(invoices) : cc.rows[k] = RowOf(invoices, k)
    BY CrossCheckRows
<1>5. /\ [k \in out |-> cc.rows[k].count] = [k \in out |-> RowOf(invoices, k).count]
      /\ [k \in in |-> cc.rows[k].count] = [k \in in |-> RowOf(invoices, k).count]
      /\ [k \in out |-> cc.rows[k].net] = [k \in out |-> RowOf(invoices, k).net]
      /\ [k \in in |-> cc.rows[k].net] = [k \in in |-> RowOf(invoices, k).net]
  <2> HIDE DEF cc, out, in
  <2> QED  BY <1>1, <1>4
<1>6. cc.outputTotal = SumFunction([k \in out |-> RowOf(invoices, k).tax])
      /\ cc.inputTotal = SumFunction([k \in in |-> RowOf(invoices, k).tax])
    BY CrossCheckRows
<1>7. /\ SumFunction([k \in out |-> RowOf(invoices, k).count]) = Cardinality(Outgoing(invoices))
      /\ SumFunction([k \in out |-> RowOf(invoices, k).net]) = SumOn(NetOf(invoices),
            Outgoing(invoices))
      /\ SumFunction([k \in out |-> RowOf(invoices, k).tax]) = SumOn(TaxOf(invoices),
            Outgoing(invoices))
  <2> HIDE DEF out, in, cc, Rows
  <2>1. LET within == {i \in invoices : RateKey(i) \in out} IN
        /\ SumFunction([k \in out |-> RowOf(invoices, k).count]) = Cardinality(within)
        /\ SumFunction([k \in out |-> RowOf(invoices, k).net]) = SumOn(NetOf(invoices), within)
        /\ SumFunction([k \in out |-> RowOf(invoices, k).tax]) = SumOn(TaxOf(invoices), within)
      BY <1>1, ByRate
  <2> QED  BY <1>2, <2>1
<1>8. /\ SumFunction([k \in in |-> RowOf(invoices, k).count])
            = Cardinality(invoices \ Outgoing(invoices))
      /\ SumFunction([k \in in |-> RowOf(invoices, k).net])
            = SumOn(NetOf(invoices), invoices \ Outgoing(invoices))
      /\ SumFunction([k \in in |-> RowOf(invoices, k).tax])
            = SumOn(TaxOf(invoices), invoices \ Outgoing(invoices))
  <2> HIDE DEF out, in, cc, Rows
  <2>1. LET within == {i \in invoices : RateKey(i) \in in} IN
        /\ SumFunction([k \in in |-> RowOf(invoices, k).count]) = Cardinality(within)
        /\ SumFunction([k \in in |-> RowOf(invoices, k).net]) = SumOn(NetOf(invoices), within)
        /\ SumFunction([k \in in |-> RowOf(invoices, k).tax]) = SumOn(TaxOf(invoices), within)
      BY <1>1, ByRate
  <2> QED  BY <1>2, <2>1
<1> HIDE DEF cc, out, in, Rows
<1>9. /\ SumFunction([k \in Rows(TRUE) |-> cc.rows[k].count]) = VATSummary(invoices).outputCount
      /\ SumFunction([k \in Rows(FALSE) |-> cc.rows[k].count]) = VATSummary(invoices).inputCount
      /\ SumFunction([k \in Rows(TRUE) |-> cc.rows[k].net]) = VATSummary(invoices).outputNet
      /\ SumFunction([k \in Rows(FALSE) |-> cc.rows[k].net]) = VATSummary(invoices).inputNet
      /\ cc.outputTotal = VATSummary(invoices).outputTax /\
            cc.inputTotal = VATSummary(invoices).inputTax
    BY <1>3, <1>5, <1>6, <1>7, <1>8, SummarySums
<1> QED
    BY <1>9 DEF cc, Rows

-----------------------------------------------------------------------------
(* The invoices a report reads *)

\* The invoices in a status, by id, and one of them as a report reads it.
Having(status) == {i \in InvoiceIds : bill[i].status = status}
InvoiceOf(i) ==
    [direction |-> bill[i].deal.direction, net |-> bill[i].deal.net, tax |-> bill[i].deal.tax,
     gross |-> bill[i].deal.gross, seller |-> bill[i].deal.seller, key |-> i]

\* A row of the invoices.
LEMMA BillsTyped ==
    ASSUME VoucherInv, NEW i \in InvoiceIds
    PROVE  /\ bill[i] \in BillRow /\ bill[i].deal \in DealRow
           /\ bill[i].deal.net \in Int /\ bill[i].deal.tax \in Int /\ bill[i].deal.gross \in Int
<1>1. bill[i] \in BillRow
    BY DEF VoucherInv, RowsOK
<1>2. bill[i].deal \in DealRow
    BY <1>1 DEF BillRow
<1> QED
    BY <1>1, <1>2 DEF DealRow

\* A report reads each invoice in the status once.
LEMMA InvoicesRead ==
    ASSUME VoucherInv, NEW status, status # "absent"
    PROVE  /\ IsFiniteSet(Having(status))
           /\ IsFiniteSet(InvoicesIn(status))
           /\ Amounted(InvoicesIn(status))
           /\ InvoicesIn(status) = {InvoiceOf(i) : i \in Having(status)}
           /\ \A i, j \in Having(status) : InvoiceOf(i) = InvoiceOf(j) => i = j
<1>1. InvoicesIn(status) = {InvoiceOf(i) : i \in Having(status)}
    BY DEF InvoicesIn, InvoiceOf, Having
<1>2. IsFiniteSet(Having(status))
  <2> DEFINE present == {i \in InvoiceIds : bill[i].status # "absent"}
  <2>1. IsFiniteSet(present)
      BY DEF VoucherInv, BillsFinite
  <2>2. Having(status) \in SUBSET present
      BY DEF Having
  <2> HIDE DEF present
  <2> QED
      BY <2>1, <2>2, FS_Subset
<1>3. IsFiniteSet(InvoicesIn(status))
  <2> DEFINE m == [i \in Having(status) |-> InvoiceOf(i)]
  <2>1. m \in Surjection(Having(status), InvoicesIn(status))
      BY <1>1 DEF Surjection
  <2> HIDE DEF m
  <2> QED
      BY <1>2, <2>1, FS_Surjection
<1>4. Amounted(InvoicesIn(status))
    BY <1>1, BillsTyped DEF Amounted, Having, InvoiceOf
<1>5. \A i, j \in Having(status) : InvoiceOf(i) = InvoiceOf(j) => i = j
  <2> SUFFICES ASSUME NEW i, NEW j, InvoiceOf(i) = InvoiceOf(j) PROVE i = j
      OBVIOUS
  <2>1. InvoiceOf(i).key = i /\ InvoiceOf(j).key = j
      BY DEF InvoiceOf
  <2> QED
      BY <2>1
<1> QED
    BY <1>1, <1>2, <1>3, <1>4, <1>5

\* For the posted and for the approved invoices.
LEMMA ChecksComplete == ASSUME VoucherInv PROVE CrossCheckComplete
<1>1. IsFiniteSet(PostedInvoices) /\ Amounted(PostedInvoices)
    BY InvoicesRead DEF PostedInvoices
<1> QED
    BY <1>1, CheckIsComplete DEF CrossCheckComplete

\* The totals of the summary.
LEMMA TotalsAreInt ==
    ASSUME NEW invoices, IsFiniteSet(invoices), Amounted(invoices)
    PROVE  LET sum == VATSummary(invoices) IN
           /\ sum.outputNet \in Int /\ sum.outputTax \in Int
           /\ sum.inputNet \in Int /\ sum.inputTax \in Int
<1> DEFINE out == Outgoing(invoices)
           in == invoices \ out
<1>1. out \in SUBSET invoices /\ in \in SUBSET invoices
    BY DEF Outgoing, Direction
<1>2. IsFiniteSet(out) /\ IsFiniteSet(in)
  <2> HIDE DEF out, in
  <2> QED  BY <1>1, FS_Subset
<1>3. \A i \in invoices : NetOf(invoices)[i] \in Int /\ TaxOf(invoices)[i] \in Int
    BY DEF NetOf, TaxOf, Amounted
<1>4. /\ SumOn(NetOf(invoices), out) \in Int /\ SumOn(TaxOf(invoices), out) \in Int
      /\ SumOn(NetOf(invoices), in) \in Int /\ SumOn(TaxOf(invoices), in) \in Int
  <2> HIDE DEF out, in
  <2> QED  BY <1>1, <1>2, <1>3, SumSteps
<1> QED
    BY <1>4, SummarySums

\* The return declares output tax less input tax.
LEMMA NetIsDifference ==
    ASSUME NEW invoices, IsFiniteSet(invoices), Amounted(invoices)
    PROVE  VATReturn(invoices).payable = VATSummary(invoices).outputTax - VATSummary(invoices).inputTax
<1>1. /\ VATCrossCheck(invoices).outputTotal = VATSummary(invoices).outputTax
      /\ VATCrossCheck(invoices).inputTotal = VATSummary(invoices).inputTax
    BY CheckIsComplete
<1>2. VATCrossCheck(invoices).net
          = VATCrossCheck(invoices).outputTotal - VATCrossCheck(invoices).inputTotal
    BY CrossCheckRows
<1>3. VATReturn(invoices).payable = VATCrossCheck(invoices).net
    BY DEF VATReturn
<1> QED
    BY <1>1, <1>2, <1>3

\* A surcharge is the share of an amount to the cent.
LEMMA ShareRounds ==
    ASSUME NEW q \in Nat, NEW n \in {2, 3, 7}
    PROVE  /\ ShareOf(q, n, 100) \in Int
           /\ 100 * ShareOf(q, n, 100) - n * q <= 50 /\ n * q - 100 * ShareOf(q, n, 100) <= 50
<1> DEFINE a == q \div 100  r == q % 100
<1>1. a \in Int /\ r \in 0..99 /\ q = 100 * a + r
    OBVIOUS
<1>2. ASSUME NEW z \in Int, NEW m \in {2, 3, 7}, z = (2 * r * m + 100) \div 200
      PROVE  100 * z - m * r <= 50 /\ m * r - 100 * z <= 50
  <2> HIDE DEF r
  <2>1. CASE m = 2
      BY <1>1, <1>2, <2>1
  <2>2. CASE m = 3
      BY <1>1, <1>2, <2>2
  <2>3. CASE m = 7
      BY <1>1, <1>2, <2>3
  <2> QED
      BY <1>2, <2>1, <2>2, <2>3
<1>3. ShareOf(q, n, 100) = a * n + ((2 * r * n + 100) \div 200)
    BY DEF ShareOf
<1> DEFINE z == (2 * r * n + 100) \div 200
<1>4. z \in Int
  <2> HIDE DEF r
  <2> QED  BY <1>1
<1>5. 100 * z - n * r <= 50 /\ n * r - 100 * z <= 50
    BY <1>2, <1>4
<1>6. ShareOf(q, n, 100) = a * n + z
    BY <1>3
<1> HIDE DEF a, r, z
<1>7. CASE n = 2
    BY <1>1, <1>4, <1>5, <1>6, <1>7
<1>8. CASE n = 3
    BY <1>1, <1>4, <1>5, <1>6, <1>8
<1>9. CASE n = 7
    BY <1>1, <1>4, <1>5, <1>6, <1>9
<1> QED
    BY <1>7, <1>8, <1>9

\* Both calculations give the same tax to be paid; of a credit the engine makes nothing and
\* the return a negative burden.
LEMMA ReturnMatches == ASSUME VoucherInv PROVE ReturnMatchesEngine
<1> DEFINE inv == PostedInvoices
           sum == VATSummary(inv)
           p == VATReturn(inv).payable
           question == [type |-> "general", output |-> sum.outputTax,
                        input |-> sum.inputTax, sales |-> 0, levy |-> 0]
           engine == CalculateWithLocation(question, "city")
<1>1. IsFiniteSet(inv) /\ Amounted(inv)
    BY InvoicesRead DEF PostedInvoices
<1>2. p = sum.outputTax - sum.inputTax
    BY <1>1, NetIsDifference
<1>3. p \in Int
    BY <1>1, <1>2, TotalsAreInt
<1>4. VATReturn(inv).burden = p + Share(p, 7, 100) + Share(p, 3, 100) + Share(p, 2, 100)
    BY DEF VATReturn
<1>5. VATPayable(question) = AtLeast0(sum.outputTax - sum.inputTax)
    BY DEF VATPayable
<1>6. engine.total = VATPayable(question) + Surcharges(VATPayable(question), 7)
    BY DEF CalculateWithLocation, UrbanConstructionRate
<1>7. Surcharges(p, 7) = Share(p, 7, 100) + Share(p, 3, 100) + Share(p, 2, 100)
    BY DEF Surcharges
<1>8. ASSUME p >= 0 PROVE VATReturn(inv).burden = engine.total
  <2>1. VATPayable(question) = p
      BY <1>2, <1>3, <1>5, <1>8 DEF AtLeast0
  <2>2. engine.total = p + Surcharges(p, 7)
      BY <1>6, <2>1
  <2>3. Share(p, 7, 100) \in Int /\ Share(p, 3, 100) \in Int /\ Share(p, 2, 100) \in Int
      BY <1>3 DEF Share, ShareOf
  <2> HIDE DEF p, engine, question, sum
  <2> QED
      BY <1>3, <1>4, <1>7, <2>2, <2>3
<1>9. ASSUME ~(p >= 0)
      PROVE  /\ engine.total = 0
             /\ Magnitude(100 * VATReturn(inv).burden - 112 * p) <= 150
  <2>1. VATPayable(question) = 0
      BY <1>2, <1>3, <1>5, <1>9 DEF AtLeast0
  <2>2. Surcharges(0, 7) = 0
      BY DEF Surcharges, Share, ShareOf
  <2>3. engine.total = 0
      BY <1>6, <2>1, <2>2
  <2> HIDE DEF p, engine, question, sum
  <2> DEFINE q == -p
             s7 == ShareOf(q, 7, 100)
             s3 == ShareOf(q, 3, 100)
             s2 == ShareOf(q, 2, 100)
             burden == VATReturn(inv).burden
  <2>4. q \in Nat /\ p = -q
      BY <1>3, <1>9
  <2>5. Share(p, 7, 100) = -s7 /\ Share(p, 3, 100) = -s3 /\ Share(p, 2, 100) = -s2
      BY <1>9 DEF Share
  <2>6. /\ s7 \in Int /\ 100 * s7 - 7 * q <= 50 /\ 7 * q - 100 * s7 <= 50
        /\ s3 \in Int /\ 100 * s3 - 3 * q <= 50 /\ 3 * q - 100 * s3 <= 50
        /\ s2 \in Int /\ 100 * s2 - 2 * q <= 50 /\ 2 * q - 100 * s2 <= 50
    <3> HIDE DEF q
    <3> QED  BY <2>4, ShareRounds
  <2> HIDE DEF q, s7, s3, s2
  <2>7. burden = p + (-s7) + (-s3) + (-s2)
      BY <1>4, <2>5
  <2> HIDE DEF burden
  <2>8. 100 * burden - 112 * p = 12 * q - 100 * s7 - 100 * s3 - 100 * s2
      BY <2>4, <2>6, <2>7
  <2>9. Magnitude(12 * q - 100 * s7 - 100 * s3 - 100 * s2) <= 150
      BY <2>4, <2>6 DEF Magnitude
  <2> QED
      BY <2>3, <2>8, <2>9 DEF burden
<1> QED
    BY <1>8, <1>9 DEF ReturnMatchesEngine

\* CrossCheckComplete: grouping by rate loses no invoice and no cent of what VATSummary
\* totals by direction.
THEOREM CrossChecksComplete == VoucherSpec => []CrossCheckComplete
BY ChecksComplete, VoucherInvAlways, PTL

\* ReturnMatchesEngine: VATReturn and the tax engine agree on the tax and the surcharges that
\* are to be paid for the posted invoices; of a credit the engine makes nothing, and VATReturn
\* a negative burden of 112%, up to the rounding of its three surcharges.
THEOREM ReturnsMatchEngine == VoucherSpec => []ReturnMatchesEngine
BY ReturnMatches, VoucherInvAlways, PTL

\* The greatest of a finite set of integers is one of them.
LEMMA MaxIsMember ==
    ASSUME NEW S, IsFiniteSet(S), S \in SUBSET Int
    PROVE  \A T \in SUBSET S : T # {} => Max(T) \in T /\ \A y \in T : Max(T) >= y
<1> DEFINE G == {T \in SUBSET S : T # {} => \E x \in T : \A y \in T : x >= y}
<1>1. ASSUME NEW T \in SUBSET S, \A x \in T : T \ {x} \in G, T # {}
      PROVE  \E x \in T : \A y \in T : x >= y
  <2>1. PICK x \in T : TRUE
      BY <1>1
  <2>2. CASE T \ {x} = {}
      BY <2>1, <2>2
  <2>3. CASE T \ {x} # {}
    <3>1. PICK z \in T \ {x} : \A y \in T \ {x} : z >= y
        BY <1>1, <2>3
    <3>2. CASE x >= z
        BY <3>1, <3>2
    <3>3. CASE ~(x >= z)
        BY <3>1, <3>3
    <3> QED
        BY <3>2, <3>3
  <2> QED
      BY <2>2, <2>3
<1>2. SUBSET S \subseteq G
  <2>1. ASSUME NEW T \in SUBSET S, \A x \in T : T \ {x} \in G PROVE T \in G
      BY <1>1, <2>1
  <2> HIDE DEF G
  <2> QED  BY <2>1, SubsetsUpwards
<1> QED
    BY <1>2 DEF Max

\* A list of the consistency check shows something of what there is, unless it fails.
LEMMA SomethingListed ==
    ASSUME VoucherInv, PostedEntries # {}, NEW failed, "entries" \notin failed
    PROVE  /\ ListedEntries(PostedEntries, failed) # {}
           /\ IsFiniteSet(ListedEntries(PostedEntries, failed))
<1>1. IsFiniteSet(PostedEntries) /\ PostedEntries \in SUBSET Int
  <2>1. DOMAIN voucher = 1..Len(voucher) /\ Len(voucher) \in Nat
      BY DEF VoucherInv, RowsOK
  <2>2. PostedEntries \subseteq DOMAIN voucher
      BY DEF PostedEntries
  <2> QED
      BY <2>1, <2>2, PlacesFinite DEF Posted, PostedEntries
<1>2. PICK m \in PostedEntries : \A w \in PostedEntries : m >= w
    BY <1>1, MaxIsMember
<1>3. {w \in PostedEntries : w > m} = {}
  <2>1. \A w \in PostedEntries : w \in Int /\ m \in Int
      BY <1>1
  <2> HIDE DEF PostedEntries
  <2>2. \A w \in PostedEntries : ~(w > m)
      BY <1>2, <2>1
  <2> QED
      BY <2>2
<1>4. Cardinality({w \in PostedEntries : w > m}) < ListLimit
    BY <1>3, FS_EmptySet, ListLimitAssumption
<1>5. m \in ListedEntries(PostedEntries, failed)
    BY <1>4 DEF ListedEntries
<1>6. ListedEntries(PostedEntries, failed) \in SUBSET PostedEntries
    BY DEF ListedEntries
<1> QED
    BY <1>1, <1>5, <1>6, FS_Subset

\* The sum over no line and no invoice.
LEMMA EmptySum == ASSUME NEW f, f = [x \in {} |-> f[x]] PROVE SumFunction(f) = 0
<1>1. SumOn(f, {}) = 0
    BY FS_EmptySet, SumSteps
<1> QED
    BY <1>1 DEF SumOn

\* With every invoice posted the counts of the enhanced check differ, unless its list of
\* entries is empty for an error.
LEMMA OnlyUnreadPass ==
    ASSUME VoucherInv
    PROVE  PostedBooksPassOnlyUnread
<1> SUFFICES ASSUME InvoicesIn("approved") = {}, PostedEntries # {},
                    NEW failed \in SUBSET ConsistencyReads, NEW read \in SUBSET PostedEntries,
                    NEW unmatched
             PROVE  RunConsistencyCheck(PostedInvoices, {}, PostedEntries,
                        {l \in PostedLines : l.key[1] \in read}, unmatched, failed)
                    <=> /\ "entries" \in failed
                        /\ "bank" \in failed \/ CheckJournalToBank(0, unmatched)
    BY DEF PostedBooksPassOnlyUnread
<1> DEFINE cc == VATCrossCheck(PostedInvoices)
           waiting == ListedInvoices({}, failed)
           listed == ListedEntries(PostedEntries, failed)
           within == {l \in {l \in PostedLines : l.key[1] \in read} : l.key[1] \in listed}
           gross == SumFunction([i \in waiting |-> i.gross])
           journal == SumFunction([l \in within |-> l.debit])
           open == IF "bank" \in failed THEN 0 ELSE unmatched
<1>1. RunConsistencyCheck(PostedInvoices, {}, PostedEntries,
          {l \in PostedLines : l.key[1] \in read}, unmatched, failed)
      <=> /\ "cross_check" \in failed
             \/ CheckInvoiceToVAT(cc.outputTotal, cc.inputTotal, cc.outputTotal, cc.inputTotal)
          /\ CheckInvoiceToJournal(Cardinality(waiting), Cardinality(listed), gross, journal)
          /\ CheckJournalToBank(journal, open)
    BY DEF RunConsistencyCheck
<1>2. CheckInvoiceToVAT(cc.outputTotal, cc.inputTotal, cc.outputTotal, cc.inputTotal)
  <2>1. IsFiniteSet(PostedInvoices) /\ Amounted(PostedInvoices)
      BY InvoicesRead DEF PostedInvoices
  <2>2. cc.outputTotal \in Int /\ cc.inputTotal \in Int
      BY <2>1, CheckIsComplete, TotalsAreInt
  <2> HIDE DEF cc
  <2>3. ASSUME NEW o \in Int, NEW i \in Int PROVE CheckInvoiceToVAT(o, i, o, i)
    <3> DEFINE t == Share(Greater(o, i), 1, 100)
    <3>1. Greater(o, i) \in Int
        BY DEF Greater
    <3>2. t \in Int
        BY <3>1 DEF Share, ShareOf
    <3>3. Magnitude(o - o) + Magnitude(i - i) = 0
        BY DEF Magnitude
    <3> HIDE DEF t
    <3>4. Greater(t, 100) >= 0
        BY <3>2 DEF Greater
    <3> QED
        BY <3>3, <3>4 DEF CheckInvoiceToVAT, t
  <2> QED
      BY <2>2, <2>3
<1>3. waiting = {} /\ Cardinality(waiting) = 0 /\ gross = 0
  <2>1. waiting = {}
      BY DEF ListedInvoices
  <2>2. [i \in {} |-> i.gross] = [j \in {} |-> [i \in {} |-> i.gross][j]]
      OBVIOUS
  <2> HIDE DEF waiting
  <2> QED
      BY <2>1, <2>2, EmptySum, FS_EmptySet
<1>4. ASSUME "entries" \in failed
      PROVE  /\ CheckInvoiceToJournal(Cardinality(waiting), Cardinality(listed), gross, journal)
             /\ CheckJournalToBank(journal, open)
                <=> "bank" \in failed \/ CheckJournalToBank(0, unmatched)
  <2>1. listed = {}
      BY <1>4 DEF ListedEntries
  <2>2. within = {}
      BY <2>1
  <2>3. [l \in {} |-> l.debit] = [k \in {} |-> [l \in {} |-> l.debit][k]]
      OBVIOUS
  <2> HIDE DEF listed, within, waiting, gross
  <2>4. journal = 0 /\ Cardinality(listed) = 0
      BY <2>1, <2>2, <2>3, EmptySum, FS_EmptySet
  <2> HIDE DEF journal
  <2>5. CheckInvoiceToJournal(Cardinality(waiting), Cardinality(listed), gross, journal)
      BY <1>3, <2>4 DEF CheckInvoiceToJournal, Magnitude
  <2>6. CheckJournalToBank(0, 0)
      BY DEF CheckJournalToBank, Magnitude, Greater, Share, ShareOf
  <2> QED
      BY <2>4, <2>5, <2>6
<1>5. ASSUME "entries" \notin failed
      PROVE  ~CheckInvoiceToJournal(Cardinality(waiting), Cardinality(listed), gross, journal)
  <2>1. listed # {} /\ IsFiniteSet(listed)
      BY <1>5, SomethingListed
  <2> HIDE DEF listed, waiting, gross, journal
  <2>2. Cardinality(listed) # 0
      BY <2>1, FS_EmptySet
  <2> QED
      BY <1>3, <2>2 DEF CheckInvoiceToJournal
<1> HIDE DEF cc, waiting, listed, within, gross, journal, open
<1> QED
    BY <1>1, <1>2, <1>4, <1>5

\* PostedBooksPassOnlyUnread: once every approved invoice is posted, RunConsistencyCheck
\* passes just when its list of entries failed and the bank has nothing open it could read.
THEOREM EnhancedCheckPassesOnlyUnread == VoucherSpec => []PostedBooksPassOnlyUnread
BY OnlyUnreadPass, VoucherInvAlways, PTL

-----------------------------------------------------------------------------
\* SetToSeq lists every element of a finite set once.
LEMMA ListsAll ==
    ASSUME NEW S, IsFiniteSet(S)
    PROVE  /\ SetToSeq(S) \in [1..Cardinality(S) -> S]
           /\ \A x \in S : \E k \in 1..Cardinality(S) : SetToSeq(S)[k] = x
           /\ \A j, k \in 1..Cardinality(S) : SetToSeq(S)[j] = SetToSeq(S)[k] => j = k
           /\ Cardinality(S) \in Nat
<1> DEFINE n == Cardinality(S)
           s == SetToSeq(S)
<1>1. n \in Nat /\ ExistsBijection(1..n, S)
    BY FS_CardinalityType
<1>2. \E f \in [1..n -> S] : IsInjective(f)
    BY <1>1 DEF ExistsBijection, Bijection, Injection
<1>3. s \in [1..n -> S] /\ IsInjective(s)
    BY <1>2 DEF SetToSeq
<1>4. IsFiniteSet(1..n) /\ Cardinality(1..n) = n
    BY <1>1, FS_Interval
<1>5. s \in Injection(1..n, S)
    BY <1>3 DEF Injection
<1>6. s \in Surjection(1..n, S)
  <2> HIDE DEF s
  <2> QED  BY <1>4, <1>5, FS_Injection
<1> QED
    BY <1>1, <1>3, <1>6 DEF Surjection, IsInjective

\* The score of a list of findings is at least the points of each.
LEMMA ScoreAtLeast ==
    ASSUME NEW n \in Nat, NEW severities, DOMAIN severities = 1..n, NEW j \in 1..n
    PROVE  /\ ScoreRiskFindings(severities).total \in Nat
           /\ ScoreRiskFindings(severities).total >= Points(severities[j])
           /\ ScoreRiskFindings(severities).level = ScoreLevel(ScoreRiskFindings(severities).total)
<1> DEFINE points == [k \in DOMAIN severities |-> Points(severities[k])]
<1>1. IsFiniteSet(1..n)
    BY FS_Interval
<1>2. \A k \in 1..n : points[k] \in Nat /\ points[k] \in Int
    BY DEF Points
<1>3. ScoreRiskFindings(severities).total = SumOn(points, 1..n)
  <2>1. points = [k \in 1..n |-> points[k]]
      OBVIOUS
  <2>2. ScoreRiskFindings(severities).total = SumFunction(points)
      BY DEF ScoreRiskFindings
  <2> HIDE DEF points
  <2> QED  BY <2>1, <2>2, SumIsSum
<1>4. points[j] = Points(severities[j])
    OBVIOUS
<1> HIDE DEF points
<1>5. SumOn(points, 1..n) = points[j] + SumOn(points, (1..n) \ {j})
    BY <1>1, <1>2, SumSteps
<1>6. SumOn(points, 1..n) \in Nat
    BY <1>1, <1>2, SumNat
<1>7. SumOn(points, (1..n) \ {j}) \in Nat
  <2>1. IsFiniteSet((1..n) \ {j})
      BY <1>1, FS_RemoveElement
  <2> QED
      BY <1>2, <2>1, SumNat
<1> QED
    BY <1>2, <1>3, <1>4, <1>5, <1>6, <1>7 DEF ScoreRiskFindings

\* The image of a finite set.
LEMMA ImageFinite ==
    ASSUME NEW S, IsFiniteSet(S), NEW f
    PROVE  IsFiniteSet({f[x] : x \in S})
<1> DEFINE m == [x \in S |-> f[x]]
<1>1. m \in Surjection(S, {f[x] : x \in S})
    BY DEF Surjection
<1> HIDE DEF m
<1> QED
    BY <1>1, FS_Surjection

\* RiskScan finds finitely many.
LEMMA ScanFinite ==
    ASSUME NEW invoices, IsFiniteSet(invoices), NEW failed
    PROVE  IsFiniteSet(RiskScan(invoices, failed))
<1> DEFINE warnings == VATCrossCheck(invoices).warnings
           thin  == {i \in invoices : i.net > 0 /\ 20 * i.tax < i.net}
           round == {i \in invoices : IsLargeRound(i.gross)}
           A == {<<"rate_mismatch", k, "warning">> : k \in warnings}
           B == {<<"tax_burden", i.key, "warning">> : i \in thin}
           C == {<<"large_round", i.key, "info">> : i \in round}
<1>1. IsFiniteSet(warnings)
  <2>1. IsFiniteSet(RateKeys(invoices))
    <3> DEFINE m == [i \in invoices |-> RateKey(i)]
    <3>1. m \in Surjection(invoices, RateKeys(invoices))
        BY DEF Surjection, RateKeys
    <3> HIDE DEF m
    <3> QED  BY <3>1, FS_Surjection
  <2>2. warnings \in SUBSET RateKeys(invoices)
      BY DEF VATCrossCheck, RateKeys
  <2> QED
      BY <2>1, <2>2, FS_Subset
<1>2. IsFiniteSet(thin) /\ IsFiniteSet(round)
    BY FS_Subset
<1>3. IsFiniteSet(A)
  <2> DEFINE f == [k \in warnings |-> <<"rate_mismatch", k, "warning">>]
  <2>1. A = {f[k] : k \in warnings}
      OBVIOUS
  <2> HIDE DEF f, A
  <2> QED  BY <1>1, <2>1, ImageFinite
<1>4. IsFiniteSet(B)
  <2> DEFINE f == [i \in thin |-> <<"tax_burden", i.key, "warning">>]
  <2>1. B = {f[i] : i \in thin}
      OBVIOUS
  <2> HIDE DEF f, B, thin
  <2> QED  BY <1>2, <2>1, ImageFinite
<1>5. IsFiniteSet(C)
  <2> DEFINE f == [i \in round |-> <<"large_round", i.key, "info">>]
  <2>1. C = {f[i] : i \in round}
      OBVIOUS
  <2> HIDE DEF f, C, round
  <2> QED  BY <1>2, <2>1, ImageFinite
<1>6. PICK x, y : RiskScan(invoices, failed) \subseteq A \cup B \cup C \cup {x} \cup {y}
  <2> DEFINE cc == VATCrossCheck(invoices)
             x0 == <<"excess_credit", <<>>,
                     IF cc.outputTotal >= 0 /\ cc.inputTotal >= 3 * cc.outputTotal
                     THEN "danger" ELSE "warning">>
             sellers == SellerAmounts(invoices)
             level == DetectSupplierConcentration(SetToSeq(DOMAIN sellers), sellers)
             y0 == <<"concentration", <<>>, level>>
  <2>1. ExcessCredit(cc) \subseteq {x0}
      BY DEF ExcessCredit
  <2>2. TaxRisk(invoices, failed) \subseteq A \cup ExcessCredit(cc) \cup B
      BY DEF TaxRisk
  <2>3. EngineRisk(invoices, failed) \subseteq C \cup {y0}
      BY DEF EngineRisk
  <2>4. RiskScan(invoices, failed) \subseteq A \cup B \cup C \cup {x0} \cup {y0}
    <3> HIDE DEF A, B, C, x0, y0, level, cc
    <3> QED  BY <2>1, <2>2, <2>3 DEF RiskScan
  <2> QED
      BY <2>4
<1> HIDE DEF A, B, C
<1>7. IsFiniteSet(A \cup B \cup C \cup {x} \cup {y})
  <2>1. IsFiniteSet(A \cup B)
      BY <1>3, <1>4, FS_Union
  <2>2. IsFiniteSet((A \cup B) \cup C)
      BY <1>5, <2>1, FS_Union
  <2>3. IsFiniteSet(((A \cup B) \cup C) \cup {x})
      BY <2>2, FS_AddElement
  <2> QED
      BY <2>3, FS_AddElement
<1> QED
    BY <1>6, <1>7, FS_Subset

\* A finding of severity "danger" stays while its half is read.
LEMMA DangerStays ==
    ASSUME NEW invoices, NEW failed, NEW f, f[3] = "danger",
           \/ "cross_check" \notin failed /\ f \in TaxRisk(invoices, {})
           \/ "engine" \notin failed /\ f \in EngineRisk(invoices, {})
    PROVE  f \in RiskScan(invoices, failed)
<1>1. CASE "cross_check" \notin failed /\ f \in TaxRisk(invoices, {})
  <2> DEFINE cc == VATCrossCheck(invoices)
             A == {<<"rate_mismatch", k, "warning">> : k \in cc.warnings}
             B == {<<"tax_burden", i.key, "warning">> : i \in {i \in invoices : i.net > 0 /\
                      20 * i.tax < i.net}}
  <2>1. \A g \in A : g[3] = "warning"
      OBVIOUS
  <2>2. \A g \in B : g[3] = "warning"
      OBVIOUS
  <2>3. TaxRisk(invoices, {}) = A \cup ExcessCredit(cc) \cup B
      BY DEF TaxRisk
  <2>4. ExcessCredit(cc) \subseteq TaxRisk(invoices, failed)
      BY <1>1 DEF TaxRisk
  <2> HIDE DEF A, B, cc
  <2>5. f \in ExcessCredit(cc)
      BY <1>1, <2>1, <2>2, <2>3
  <2> QED
      BY <2>4, <2>5 DEF RiskScan
<1>2. CASE "engine" \notin failed /\ f \in EngineRisk(invoices, {})
  <2>1. EngineRisk(invoices, failed) = EngineRisk(invoices, {})
      BY <1>2 DEF EngineRisk
  <2> QED
      BY <1>2, <2>1 DEF RiskScan
<1> QED
    BY <1>1, <1>2

\* One finding of 15 points lifts the level over "low".
LEMMA DangerCounts == ASSUME VoucherInv PROVE DangerIsNotLow
<1> SUFFICES ASSUME NEW failed \in SUBSET ScanReads, NEW f, f[3] = "danger",
                    \/ "cross_check" \notin failed /\ f \in TaxRisk(PostedInvoices, {})
                    \/ "engine" \notin failed /\ f \in EngineRisk(PostedInvoices, {})
             PROVE  RunRiskScanPersistent(PostedInvoices, failed).level # "low"
    BY DEF DangerIsNotLow
<1> DEFINE scan == RiskScan(PostedInvoices, failed)
           findings == SetToSeq(scan)
           n == Cardinality(scan)
           severities == [k \in DOMAIN findings |-> findings[k][3]]
<1>1. IsFiniteSet(scan)
    BY InvoicesRead, ScanFinite DEF PostedInvoices
<1>2. DOMAIN findings = 1..n /\ n \in Nat /\ \E k \in 1..n : findings[k] = f
  <2>1. f \in scan
      BY DangerStays
  <2> HIDE DEF scan
  <2> QED  BY <1>1, <2>1, ListsAll
<1>3. PICK j \in 1..n : findings[j] = f
    BY <1>2
<1> HIDE DEF n
<1>4. DOMAIN severities = 1..n /\ severities[j] = "danger"
    BY <1>2, <1>3
<1>5. RunRiskScanPersistent(PostedInvoices, failed) = ScoreRiskFindings(severities)
    BY DEF RunRiskScanPersistent
<1> HIDE DEF severities
<1>6. /\ ScoreRiskFindings(severities).total \in Nat
      /\ ScoreRiskFindings(severities).total >= Points("danger")
      /\ ScoreRiskFindings(severities).level = ScoreLevel(ScoreRiskFindings(severities).total)
    BY <1>2, <1>4, ScoreAtLeast
<1>7. Points("danger") = 15
    BY DEF Points
<1> QED
    BY <1>5, <1>6, <1>7 DEF ScoreLevel

\* DangerIsNotLow: with a finding of severity "danger" in a half of the scan that was read,
\* RunRiskScanPersistent never scores "low", whatever SELECTs of the scan failed.
THEOREM DangerNeverLow == VoucherSpec => []DangerIsNotLow
BY DangerCounts, VoucherInvAlways, PTL

-----------------------------------------------------------------------------
(* Rows of the statements *)

\* A code is a prefix when its digits are.
LEMMA PrefixByDigit ==
    ASSUME NEW s \in Seq(Nat), NEW t \in Seq(Nat)
    PROVE  IsPrefix(s, t) <=> Len(s) <= Len(t) /\ \A i \in 1..Len(s) : s[i] = t[i]
<1>1. Len(s) \in Nat /\ Len(t) \in Nat
    OBVIOUS
<1>2. ASSUME Len(s) <= Len(t)
      PROVE  SubSeq(s, 1, Len(s)) = SubSeq(t, 1, Len(s)) <=> \A i \in 1..Len(s) : s[i] = t[i]
  <2>1. SubSeq(s, 1, Len(s)) = [i \in 1..Len(s) |-> s[i]]
      BY <1>1
  <2>2. SubSeq(t, 1, Len(s)) = [i \in 1..Len(s) |-> t[i]]
      BY <1>1, <1>2
  <2> QED
      BY <2>1, <2>2
<1> QED
    BY <1>1, <1>2 DEF IsPrefix

\* The first four digits of an account.
Code(a, x, y, z, w) == a[1] = x /\ a[2] = y /\ a[3] = z /\ a[4] = w

\* The prefixes the mappings and the reports select by, over accounts of four digits
\* and more.
LEMMA PrefixOfCode ==
    ASSUME NEW a \in Seq(Nat), Len(a) >= 4
    PROVE  /\ \A x, y, z, w \in Nat : IsPrefix(<<x, y, z, w>>, a) <=> Code(a, x, y, z, w)
           /\ IsPrefix(<<6>>, a) <=> a[1] = 6
           /\ IsPrefix(<<5>>, a) <=> a[1] = 5
           /\ IsPrefix(<<5, 6>>, a) <=> a[1] = 5 /\ a[2] = 6
           /\ IsPrefix(<<6, 0>>, a) <=> a[1] = 6 /\ a[2] = 0
<1>1. ASSUME NEW x \in Nat, NEW y \in Nat, NEW z \in Nat, NEW w \in Nat
      PROVE  IsPrefix(<<x, y, z, w>>, a) <=> Code(a, x, y, z, w)
  <2> DEFINE s == <<x, y, z, w>>
  <2>1. s \in Seq(Nat) /\ Len(s) = 4 /\ s[1] = x /\ s[2] = y /\ s[3] = z /\ s[4] = w
      OBVIOUS
  <2>2. \A P : (\A i \in 1..4 : i \in P) <=> 1 \in P /\ 2 \in P /\ 3 \in P /\ 4 \in P
      OBVIOUS
  <2>3. (\A i \in 1..4 : s[i] = a[i]) <=> Code(a, x, y, z, w)
    <3> HIDE DEF s
    <3> QED  BY <2>1 DEF Code
  <2> HIDE DEF s
  <2>4. IsPrefix(s, a) <=> Len(s) <= Len(a) /\ \A i \in 1..Len(s) : s[i] = a[i]
      BY <2>1, PrefixByDigit
  <2>5. IsPrefix(s, a) <=> \A i \in 1..4 : s[i] = a[i]
      BY <2>1, <2>4
  <2>6. IsPrefix(s, a) <=> Code(a, x, y, z, w)
      BY <2>3, <2>5
  <2> QED
      BY <2>6 DEF s
<1>2. ASSUME NEW x \in Nat
      PROVE  IsPrefix(<<x>>, a) <=> a[1] = x
  <2>1. <<x>> \in Seq(Nat) /\ Len(<<x>>) = 1 /\ <<x>>[1] = x
      OBVIOUS
  <2>2. IsPrefix(<<x>>, a) <=> Len(<<x>>) <= Len(a) /\ \A i \in 1..Len(<<x>>) : <<x>>[i] = a[i]
      BY <2>1, PrefixByDigit
  <2> QED
      BY <2>1, <2>2
<1>3. ASSUME NEW x \in Nat, NEW y \in Nat
      PROVE  IsPrefix(<<x, y>>, a) <=> a[1] = x /\ a[2] = y
  <2> DEFINE s == <<x, y>>
  <2>1. s \in Seq(Nat) /\ Len(s) = 2 /\ s[1] = x /\ s[2] = y
      OBVIOUS
  <2> HIDE DEF s
  <2>2. IsPrefix(s, a) <=> Len(s) <= Len(a) /\ \A i \in 1..Len(s) : s[i] = a[i]
      BY <2>1, PrefixByDigit
  <2>3. (\A i \in 1..2 : s[i] = a[i]) <=> s[1] = a[1] /\ s[2] = a[2]
      OBVIOUS
  <2>4. IsPrefix(s, a) <=> a[1] = x /\ a[2] = y
      BY <2>1, <2>2, <2>3
  <2> QED
      BY <2>4 DEF s
<1> QED
    BY <1>1, <1>2, <1>3

\* The selectors of the profit statement,
LEMMA ProfitRows ==
    /\ DOMAIN ProfitMapping = 1..13
    /\ ProfitMapping[1].prefixes = {<<6>>}
    /\ ProfitMapping[2].prefixes = {<<5,4,0,1>>, <<5,4,0,2>>}
    /\ ProfitMapping[3].prefixes = {<<5,4,0,3>>}
    /\ ProfitMapping[4].prefixes = {<<5,6,0,1>>}
    /\ ProfitMapping[5].prefixes = {<<5,6,0,2>>}
    /\ ProfitMapping[6].prefixes = {<<5,6,0,3>>}
    /\ ProfitMapping[7].prefixes = {<<6,1,1,1>>}
    /\ ProfitMapping[9].prefixes = {<<6,3,0,1>>}
    /\ ProfitMapping[10].prefixes = {<<6,7,1,1>>}
    /\ ProfitMapping[12].prefixes = {<<6,8,0,1>>}
    /\ \A k \in {8, 11, 13} : ProfitMapping[k].prefixes = {}
BY DEF ProfitMapping, Row, Subtotal

\* and of the balance sheet.
LEMMA BalanceRows ==
    /\ DOMAIN BalanceMapping = 1..25
    /\ BalanceMapping[1].prefixes = {<<1,0,0,1>>, <<1,0,0,2>>}
    /\ BalanceMapping[2].prefixes = {<<1,1,2,2>>, <<1,1,3,1>>, <<1,1,3,2>>}
    /\ BalanceMapping[3].prefixes = {<<1,1,2,3>>}
    /\ BalanceMapping[4].prefixes = {<<1,2,2,1>>}
    /\ BalanceMapping[5].prefixes = {<<1,4,0,3>>, <<1,4,0,5>>, <<1,4,1,1>>}
    /\ BalanceMapping[7].prefixes = {<<1,6,0,1>>}
    /\ BalanceMapping[8].prefixes = {<<1,7,0,1>>}
    /\ BalanceMapping[11].prefixes = {<<2,0,0,1>>}
    /\ BalanceMapping[12].prefixes = {<<2,2,0,2>>}
    /\ BalanceMapping[13].prefixes = {<<2,2,0,3>>}
    /\ BalanceMapping[14].prefixes = {<<2,2,1,1>>}
    /\ BalanceMapping[15].prefixes = {<<2,2,2,1>>}
    /\ BalanceMapping[17].prefixes = {<<2,5,0,1>>}
    /\ BalanceMapping[20].prefixes = {<<4,0,0,1>>}
    /\ BalanceMapping[21].prefixes = {<<4,0,0,2>>}
    /\ BalanceMapping[22].prefixes = {<<4,1,0,1>>}
    /\ BalanceMapping[23].prefixes = {<<4,1,0,4>>}
    /\ \A k \in {6, 9, 10, 16, 18, 19, 24, 25} : BalanceMapping[k].prefixes = {}
BY DEF BalanceMapping, Row, Subtotal

-----------------------------------------------------------------------------
\* The rows of the profit statement that an account is read in,
LEMMA ProfitMatches ==
    ASSUME NEW a \in Seq(Nat), Len(a) >= 4
    PROVE  /\ MatchSelector(a, ProfitMapping[1]) <=> a[1] = 6
           /\ MatchSelector(a, ProfitMapping[2]) <=> Code(a, 5, 4, 0, 1) \/ Code(a, 5, 4, 0, 2)
           /\ MatchSelector(a, ProfitMapping[3]) <=> Code(a, 5, 4, 0, 3)
           /\ MatchSelector(a, ProfitMapping[4]) <=> Code(a, 5, 6, 0, 1)
           /\ MatchSelector(a, ProfitMapping[5]) <=> Code(a, 5, 6, 0, 2)
           /\ MatchSelector(a, ProfitMapping[6]) <=> Code(a, 5, 6, 0, 3)
           /\ MatchSelector(a, ProfitMapping[7]) <=> Code(a, 6, 1, 1, 1)
           /\ MatchSelector(a, ProfitMapping[9]) <=> Code(a, 6, 3, 0, 1)
           /\ MatchSelector(a, ProfitMapping[10]) <=> Code(a, 6, 7, 1, 1)
           /\ MatchSelector(a, ProfitMapping[12]) <=> Code(a, 6, 8, 0, 1)
           /\ \A k \in {8, 11, 13} : ~MatchSelector(a, ProfitMapping[k])
<1> USE DEF MatchSelector
<1>1. MatchSelector(a, ProfitMapping[1]) <=> a[1] = 6
    BY ProfitRows, PrefixOfCode
<1>2. MatchSelector(a, ProfitMapping[2]) <=> Code(a, 5, 4, 0, 1) \/ Code(a, 5, 4, 0, 2)
    BY ProfitRows, PrefixOfCode
<1>3. MatchSelector(a, ProfitMapping[3]) <=> Code(a, 5, 4, 0, 3)
    BY ProfitRows, PrefixOfCode
<1>4. MatchSelector(a, ProfitMapping[4]) <=> Code(a, 5, 6, 0, 1)
    BY ProfitRows, PrefixOfCode
<1>5. MatchSelector(a, ProfitMapping[5]) <=> Code(a, 5, 6, 0, 2)
    BY ProfitRows, PrefixOfCode
<1>6. MatchSelector(a, ProfitMapping[6]) <=> Code(a, 5, 6, 0, 3)
    BY ProfitRows, PrefixOfCode
<1>7. MatchSelector(a, ProfitMapping[7]) <=> Code(a, 6, 1, 1, 1)
    BY ProfitRows, PrefixOfCode
<1>8. MatchSelector(a, ProfitMapping[9]) <=> Code(a, 6, 3, 0, 1)
    BY ProfitRows, PrefixOfCode
<1>9. MatchSelector(a, ProfitMapping[10]) <=> Code(a, 6, 7, 1, 1)
    BY ProfitRows, PrefixOfCode
<1>10. MatchSelector(a, ProfitMapping[12]) <=> Code(a, 6, 8, 0, 1)
    BY ProfitRows, PrefixOfCode
<1>11. \A k \in {8, 11, 13} : ~MatchSelector(a, ProfitMapping[k])
    BY ProfitRows
<1> QED
    BY <1>1, <1>2, <1>3, <1>4, <1>5, <1>6, <1>7, <1>8, <1>9, <1>10, <1>11

\* and those of the balance sheet.
LEMMA BalanceMatches ==
    ASSUME NEW a \in Seq(Nat), Len(a) >= 4
    PROVE  /\ MatchSelector(a, BalanceMapping[1]) <=> Code(a, 1, 0, 0, 1) \/ Code(a, 1, 0, 0, 2)
           /\ MatchSelector(a, BalanceMapping[2]) <=>
                 Code(a, 1, 1, 2, 2) \/ Code(a, 1, 1, 3, 1) \/ Code(a, 1, 1, 3, 2)
           /\ MatchSelector(a, BalanceMapping[3]) <=> Code(a, 1, 1, 2, 3)
           /\ MatchSelector(a, BalanceMapping[4]) <=> Code(a, 1, 2, 2, 1)
           /\ MatchSelector(a, BalanceMapping[5]) <=>
                 Code(a, 1, 4, 0, 3) \/ Code(a, 1, 4, 0, 5) \/ Code(a, 1, 4, 1, 1)
           /\ MatchSelector(a, BalanceMapping[7]) <=> Code(a, 1, 6, 0, 1)
           /\ MatchSelector(a, BalanceMapping[8]) <=> Code(a, 1, 7, 0, 1)
           /\ MatchSelector(a, BalanceMapping[15]) <=> Code(a, 2, 2, 2, 1)
           /\ MatchSelector(a, BalanceMapping[11]) <=> Code(a, 2, 0, 0, 1)
           /\ MatchSelector(a, BalanceMapping[12]) <=> Code(a, 2, 2, 0, 2)
           /\ MatchSelector(a, BalanceMapping[13]) <=> Code(a, 2, 2, 0, 3)
           /\ MatchSelector(a, BalanceMapping[14]) <=> Code(a, 2, 2, 1, 1)
           /\ MatchSelector(a, BalanceMapping[17]) <=> Code(a, 2, 5, 0, 1)
           /\ MatchSelector(a, BalanceMapping[20]) <=> Code(a, 4, 0, 0, 1)
           /\ MatchSelector(a, BalanceMapping[21]) <=> Code(a, 4, 0, 0, 2)
           /\ MatchSelector(a, BalanceMapping[22]) <=> Code(a, 4, 1, 0, 1)
           /\ MatchSelector(a, BalanceMapping[23]) <=> Code(a, 4, 1, 0, 4)
           /\ \A k \in {6, 9, 10, 16, 18, 19, 24, 25} : ~MatchSelector(a, BalanceMapping[k])
<1> USE DEF MatchSelector
<1>1. MatchSelector(a, BalanceMapping[1]) <=> Code(a, 1, 0, 0, 1) \/ Code(a, 1, 0, 0, 2)
    BY BalanceRows, PrefixOfCode
<1>2. MatchSelector(a, BalanceMapping[2]) <=>
          Code(a, 1, 1, 2, 2) \/ Code(a, 1, 1, 3, 1) \/ Code(a, 1, 1, 3, 2)
    BY BalanceRows, PrefixOfCode
<1>3. MatchSelector(a, BalanceMapping[3]) <=> Code(a, 1, 1, 2, 3)
    BY BalanceRows, PrefixOfCode
<1>4. MatchSelector(a, BalanceMapping[4]) <=> Code(a, 1, 2, 2, 1)
    BY BalanceRows, PrefixOfCode
<1>5. MatchSelector(a, BalanceMapping[5]) <=>
          Code(a, 1, 4, 0, 3) \/ Code(a, 1, 4, 0, 5) \/ Code(a, 1, 4, 1, 1)
    BY BalanceRows, PrefixOfCode
<1>6. MatchSelector(a, BalanceMapping[7]) <=> Code(a, 1, 6, 0, 1)
    BY BalanceRows, PrefixOfCode
<1>7. MatchSelector(a, BalanceMapping[8]) <=> Code(a, 1, 7, 0, 1)
    BY BalanceRows, PrefixOfCode
<1>8. MatchSelector(a, BalanceMapping[15]) <=> Code(a, 2, 2, 2, 1)
    BY BalanceRows, PrefixOfCode
<1>9. MatchSelector(a, BalanceMapping[11]) <=> Code(a, 2, 0, 0, 1)
    BY BalanceRows, PrefixOfCode
<1>10. MatchSelector(a, BalanceMapping[12]) <=> Code(a, 2, 2, 0, 2)
    BY BalanceRows, PrefixOfCode
<1>11. MatchSelector(a, BalanceMapping[13]) <=> Code(a, 2, 2, 0, 3)
    BY BalanceRows, PrefixOfCode
<1>12. MatchSelector(a, BalanceMapping[14]) <=> Code(a, 2, 2, 1, 1)
    BY BalanceRows, PrefixOfCode
<1>13. MatchSelector(a, BalanceMapping[17]) <=> Code(a, 2, 5, 0, 1)
    BY BalanceRows, PrefixOfCode
<1>14. MatchSelector(a, BalanceMapping[20]) <=> Code(a, 4, 0, 0, 1)
    BY BalanceRows, PrefixOfCode
<1>15. MatchSelector(a, BalanceMapping[21]) <=> Code(a, 4, 0, 0, 2)
    BY BalanceRows, PrefixOfCode
<1>16. MatchSelector(a, BalanceMapping[22]) <=> Code(a, 4, 1, 0, 1)
    BY BalanceRows, PrefixOfCode
<1>17. MatchSelector(a, BalanceMapping[23]) <=> Code(a, 4, 1, 0, 4)
    BY BalanceRows, PrefixOfCode
<1>18. \A k \in {6, 9, 10, 16, 18, 19, 24, 25} : ~MatchSelector(a, BalanceMapping[k])
    BY BalanceRows
<1> QED
    BY <1>1, <1>2, <1>3, <1>4, <1>5, <1>6, <1>7, <1>8, <1>9,
       <1>10, <1>11, <1>12, <1>13, <1>14, <1>15, <1>16, <1>17, <1>18

\* The same for an account whose digits are known.
ReadInProfit(a, x, y, z, w) ==
    /\ MatchSelector(a, ProfitMapping[1]) <=> x = 6
    /\ MatchSelector(a, ProfitMapping[2]) <=> (x = 5 /\ y = 4 /\ z = 0 /\ w = 1) \/
          (x = 5 /\ y = 4 /\ z = 0 /\ w = 2)
    /\ MatchSelector(a, ProfitMapping[3]) <=> x = 5 /\ y = 4 /\ z = 0 /\ w = 3
    /\ MatchSelector(a, ProfitMapping[4]) <=> x = 5 /\ y = 6 /\ z = 0 /\ w = 1
    /\ MatchSelector(a, ProfitMapping[5]) <=> x = 5 /\ y = 6 /\ z = 0 /\ w = 2
    /\ MatchSelector(a, ProfitMapping[6]) <=> x = 5 /\ y = 6 /\ z = 0 /\ w = 3
    /\ MatchSelector(a, ProfitMapping[7]) <=> x = 6 /\ y = 1 /\ z = 1 /\ w = 1
    /\ MatchSelector(a, ProfitMapping[9]) <=> x = 6 /\ y = 3 /\ z = 0 /\ w = 1
    /\ MatchSelector(a, ProfitMapping[10]) <=> x = 6 /\ y = 7 /\ z = 1 /\ w = 1
    /\ MatchSelector(a, ProfitMapping[12]) <=> x = 6 /\ y = 8 /\ z = 0 /\ w = 1
    /\ \A r \in {8, 11, 13} : ~MatchSelector(a, ProfitMapping[r])

LEMMA ProfitByDigits ==
    ASSUME NEW a \in Seq(Nat), Len(a) >= 4, NEW x, NEW y, NEW z, NEW w, Code(a, x, y, z, w)
    PROVE  ReadInProfit(a, x, y, z, w)
<1>1. \A m, n, p, q : Code(a, m, n, p, q) <=> x = m /\ y = n /\ z = p /\ w = q
    BY DEF Code
<1>2. MatchSelector(a, ProfitMapping[1]) <=> x = 6
    BY <1>1, ProfitMatches DEF Code
<1>3. MatchSelector(a, ProfitMapping[2]) <=> (x = 5 /\ y = 4 /\ z = 0 /\ w = 1) \/
      (x = 5 /\ y = 4 /\ z = 0 /\ w = 2)
    BY <1>1, ProfitMatches
<1>4. MatchSelector(a, ProfitMapping[3]) <=> x = 5 /\ y = 4 /\ z = 0 /\ w = 3
    BY <1>1, ProfitMatches
<1>5. MatchSelector(a, ProfitMapping[4]) <=> x = 5 /\ y = 6 /\ z = 0 /\ w = 1
    BY <1>1, ProfitMatches
<1>6. MatchSelector(a, ProfitMapping[5]) <=> x = 5 /\ y = 6 /\ z = 0 /\ w = 2
    BY <1>1, ProfitMatches
<1>7. MatchSelector(a, ProfitMapping[6]) <=> x = 5 /\ y = 6 /\ z = 0 /\ w = 3
    BY <1>1, ProfitMatches
<1>8. MatchSelector(a, ProfitMapping[7]) <=> x = 6 /\ y = 1 /\ z = 1 /\ w = 1
    BY <1>1, ProfitMatches
<1>9. MatchSelector(a, ProfitMapping[9]) <=> x = 6 /\ y = 3 /\ z = 0 /\ w = 1
    BY <1>1, ProfitMatches
<1>10. MatchSelector(a, ProfitMapping[10]) <=> x = 6 /\ y = 7 /\ z = 1 /\ w = 1
    BY <1>1, ProfitMatches
<1>11. MatchSelector(a, ProfitMapping[12]) <=> x = 6 /\ y = 8 /\ z = 0 /\ w = 1
    BY <1>1, ProfitMatches
<1>12. \A r \in {8, 11, 13} : ~MatchSelector(a, ProfitMapping[r])
    BY ProfitMatches
<1> QED
    BY <1>2, <1>3, <1>4, <1>5, <1>6, <1>7, <1>8, <1>9, <1>10,
       <1>11, <1>12 DEF ReadInProfit

ReadInBalance(a, x, y, z, w) ==
    /\ MatchSelector(a, BalanceMapping[1]) <=> (x = 1 /\ y = 0 /\ z = 0 /\ w = 1) \/
          (x = 1 /\ y = 0 /\ z = 0 /\ w = 2)
    /\ MatchSelector(a, BalanceMapping[2]) <=> (x = 1 /\ y = 1 /\ z = 2 /\ w = 2) \/
          (x = 1 /\ y = 1 /\ z = 3 /\ w = 1) \/ (x = 1 /\ y = 1 /\ z = 3 /\ w = 2)
    /\ MatchSelector(a, BalanceMapping[3]) <=> x = 1 /\ y = 1 /\ z = 2 /\ w = 3
    /\ MatchSelector(a, BalanceMapping[4]) <=> x = 1 /\ y = 2 /\ z = 2 /\ w = 1
    /\ MatchSelector(a, BalanceMapping[5]) <=> (x = 1 /\ y = 4 /\ z = 0 /\ w = 3) \/
          (x = 1 /\ y = 4 /\ z = 0 /\ w = 5) \/ (x = 1 /\ y = 4 /\ z = 1 /\ w = 1)
    /\ MatchSelector(a, BalanceMapping[7]) <=> x = 1 /\ y = 6 /\ z = 0 /\ w = 1
    /\ MatchSelector(a, BalanceMapping[8]) <=> x = 1 /\ y = 7 /\ z = 0 /\ w = 1
    /\ MatchSelector(a, BalanceMapping[11]) <=> x = 2 /\ y = 0 /\ z = 0 /\ w = 1
    /\ MatchSelector(a, BalanceMapping[12]) <=> x = 2 /\ y = 2 /\ z = 0 /\ w = 2
    /\ MatchSelector(a, BalanceMapping[13]) <=> x = 2 /\ y = 2 /\ z = 0 /\ w = 3
    /\ MatchSelector(a, BalanceMapping[14]) <=> x = 2 /\ y = 2 /\ z = 1 /\ w = 1
    /\ MatchSelector(a, BalanceMapping[15]) <=> x = 2 /\ y = 2 /\ z = 2 /\ w = 1
    /\ MatchSelector(a, BalanceMapping[17]) <=> x = 2 /\ y = 5 /\ z = 0 /\ w = 1
    /\ MatchSelector(a, BalanceMapping[20]) <=> x = 4 /\ y = 0 /\ z = 0 /\ w = 1
    /\ MatchSelector(a, BalanceMapping[21]) <=> x = 4 /\ y = 0 /\ z = 0 /\ w = 2
    /\ MatchSelector(a, BalanceMapping[22]) <=> x = 4 /\ y = 1 /\ z = 0 /\ w = 1
    /\ MatchSelector(a, BalanceMapping[23]) <=> x = 4 /\ y = 1 /\ z = 0 /\ w = 4
    /\ \A r \in {6, 9, 10, 16, 18, 19, 24, 25} : ~MatchSelector(a, BalanceMapping[r])

LEMMA BalanceByDigits ==
    ASSUME NEW a \in Seq(Nat), Len(a) >= 4, NEW x, NEW y, NEW z, NEW w, Code(a, x, y, z, w)
    PROVE  ReadInBalance(a, x, y, z, w)
<1>1. \A m, n, p, q : Code(a, m, n, p, q) <=> x = m /\ y = n /\ z = p /\ w = q
    BY DEF Code
<1>2. MatchSelector(a, BalanceMapping[1]) <=> (x = 1 /\ y = 0 /\ z = 0 /\ w = 1) \/
      (x = 1 /\ y = 0 /\ z = 0 /\ w = 2)
    BY <1>1, BalanceMatches
<1>3. MatchSelector(a, BalanceMapping[2]) <=> (x = 1 /\ y = 1 /\ z = 2 /\ w = 2) \/
      (x = 1 /\ y = 1 /\ z = 3 /\ w = 1) \/ (x = 1 /\ y = 1 /\ z = 3 /\ w = 2)
    BY <1>1, BalanceMatches
<1>4. MatchSelector(a, BalanceMapping[3]) <=> x = 1 /\ y = 1 /\ z = 2 /\ w = 3
    BY <1>1, BalanceMatches
<1>5. MatchSelector(a, BalanceMapping[4]) <=> x = 1 /\ y = 2 /\ z = 2 /\ w = 1
    BY <1>1, BalanceMatches
<1>6. MatchSelector(a, BalanceMapping[5]) <=> (x = 1 /\ y = 4 /\ z = 0 /\ w = 3) \/
      (x = 1 /\ y = 4 /\ z = 0 /\ w = 5) \/ (x = 1 /\ y = 4 /\ z = 1 /\ w = 1)
    BY <1>1, BalanceMatches
<1>7. MatchSelector(a, BalanceMapping[7]) <=> x = 1 /\ y = 6 /\ z = 0 /\ w = 1
    BY <1>1, BalanceMatches
<1>8. MatchSelector(a, BalanceMapping[8]) <=> x = 1 /\ y = 7 /\ z = 0 /\ w = 1
    BY <1>1, BalanceMatches
<1>9. MatchSelector(a, BalanceMapping[11]) <=> x = 2 /\ y = 0 /\ z = 0 /\ w = 1
    BY <1>1, BalanceMatches
<1>10. MatchSelector(a, BalanceMapping[12]) <=> x = 2 /\ y = 2 /\ z = 0 /\ w = 2
    BY <1>1, BalanceMatches
<1>11. MatchSelector(a, BalanceMapping[13]) <=> x = 2 /\ y = 2 /\ z = 0 /\ w = 3
    BY <1>1, BalanceMatches
<1>12. MatchSelector(a, BalanceMapping[14]) <=> x = 2 /\ y = 2 /\ z = 1 /\ w = 1
    BY <1>1, BalanceMatches
<1>13. MatchSelector(a, BalanceMapping[15]) <=> x = 2 /\ y = 2 /\ z = 2 /\ w = 1
    BY <1>1, BalanceMatches
<1>14. MatchSelector(a, BalanceMapping[17]) <=> x = 2 /\ y = 5 /\ z = 0 /\ w = 1
    BY <1>1, BalanceMatches
<1>15. MatchSelector(a, BalanceMapping[20]) <=> x = 4 /\ y = 0 /\ z = 0 /\ w = 1
    BY <1>1, BalanceMatches
<1>16. MatchSelector(a, BalanceMapping[21]) <=> x = 4 /\ y = 0 /\ z = 0 /\ w = 2
    BY <1>1, BalanceMatches
<1>17. MatchSelector(a, BalanceMapping[22]) <=> x = 4 /\ y = 1 /\ z = 0 /\ w = 1
    BY <1>1, BalanceMatches
<1>18. MatchSelector(a, BalanceMapping[23]) <=> x = 4 /\ y = 1 /\ z = 0 /\ w = 4
    BY <1>1, BalanceMatches
<1>19. \A r \in {6, 9, 10, 16, 18, 19, 24, 25} : ~MatchSelector(a, BalanceMapping[r])
    BY BalanceMatches
<1> QED
    BY <1>2, <1>3, <1>4, <1>5, <1>6, <1>7, <1>8, <1>9, <1>10,
       <1>11, <1>12, <1>13, <1>14, <1>15, <1>16, <1>17, <1>18, <1>19 DEF ReadInBalance

\* The rows of either statement an account is read in, subtotals included, and
\* that there is just one.
ProfitRowsOf(a)  == {r \in DOMAIN ProfitMapping : MatchSelector(a, ProfitMapping[r])}
BalanceRowsOf(a) == {r \in DOMAIN BalanceMapping : MatchSelector(a, BalanceMapping[r])}
ReportedOnce(a)  ==
    \E k : \/ ProfitRowsOf(a) = {k} /\ BalanceRowsOf(a) = {}
           \/ ProfitRowsOf(a) = {} /\ BalanceRowsOf(a) = {k}

\* The rows of the balance sheet: what is owned, what is owed, subtotals;
LEMMA BalanceRowCases ==
    \A r \in DOMAIN BalanceMapping :
        \/ r \in {1, 2, 3, 4, 5, 7, 8, 15} \/ r \in {11, 12, 13, 14, 17, 20, 21, 22, 23}
        \/ r \in {6, 9, 10, 16, 18, 19, 24, 25}
<1>1. DOMAIN BalanceMapping = 1..25
    BY BalanceRows
<1>2. \A r \in 1..25 : \/ r \in {1, 2, 3, 4, 5, 7, 8, 15}
                        \/ r \in {11, 12, 13, 14, 17, 20, 21, 22, 23}
                        \/ r \in {6, 9, 10, 16, 18, 19, 24, 25}
    OBVIOUS
<1> QED
    BY <1>1, <1>2

\* and those of the profit statement.
LEMMA ProfitRowCases ==
    \A r \in DOMAIN ProfitMapping : r \in {1, 2, 3, 4, 5, 6, 7, 9, 10, 12} \/ r \in {8, 11, 13}
<1>1. DOMAIN ProfitMapping = 1..13
    BY ProfitRows
<1>2. \A r \in 1..13 : r \in {1, 2, 3, 4, 5, 6, 7, 9, 10, 12} \/ r \in {8, 11, 13}
    OBVIOUS
<1> QED
    BY <1>1, <1>2

\* An account of assets or taxes is read in the balance sheet alone,
LEMMA AssetReported ==
    ASSUME NEW a, NEW x, NEW y, NEW z, NEW w, ReadInProfit(a, x, y, z, w), ReadInBalance(a, x, y, z, w),
           x \in {1, 2}, NEW k \in {1, 2, 5, 7, 8, 15},
           \A r \in {1, 2, 3, 4, 5, 7, 8, 15} : MatchSelector(a, BalanceMapping[r]) <=> r = k,
           x = 2 => y = 2 /\ z = 2
    PROVE  ReportedOnce(a)
<1>1. ProfitRowsOf(a) = {}
  <2>1. \A r \in {1, 2, 3, 4, 5, 6, 7, 9, 10, 12} : ~MatchSelector(a, ProfitMapping[r])
      BY DEF ReadInProfit
  <2>2. \A r \in {8, 11, 13} : ~MatchSelector(a, ProfitMapping[r])
      BY DEF ReadInProfit
  <2> QED
      BY <2>1, <2>2, ProfitRowCases DEF ProfitRowsOf
<1>2. \A r \in {11, 12, 13, 14, 17, 20, 21, 22, 23} : ~MatchSelector(a, BalanceMapping[r])
    BY DEF ReadInBalance
<1>3. \A r \in {6, 9, 10, 16, 18, 19, 24, 25} : ~MatchSelector(a, BalanceMapping[r])
    BY DEF ReadInBalance
<1>4. \A r \in DOMAIN BalanceMapping : MatchSelector(a, BalanceMapping[r]) => r = k
    BY <1>2, <1>3, BalanceRowCases
<1>5. k \in DOMAIN BalanceMapping /\ MatchSelector(a, BalanceMapping[k])
  <2>1. k \in {1, 2, 3, 4, 5, 7, 8, 15}
      OBVIOUS
  <2>2. k \in 1..25
      OBVIOUS
  <2> QED
      BY <2>1, <2>2, BalanceRows
<1>6. BalanceRowsOf(a) = {k}
    BY <1>4, <1>5 DEF BalanceRowsOf
<1> QED
    BY <1>1, <1>6 DEF ReportedOnce

\* and one of revenue or expenses in the profit statement alone.
LEMMA RevenueReported ==
    ASSUME NEW a, NEW x, NEW y, NEW z, NEW w, ReadInProfit(a, x, y, z, w), ReadInBalance(a, x, y, z, w),
           x \in {5, 6}, NEW k \in {1, 5},
           \A r \in {1, 2, 3, 4, 5, 6, 7, 9, 10, 12} : MatchSelector(a, ProfitMapping[r]) <=> r = k
    PROVE  ReportedOnce(a)
<1>1. BalanceRowsOf(a) = {}
  <2>1. \A r \in {1, 2, 3, 4, 5, 7, 8, 15} : ~MatchSelector(a, BalanceMapping[r])
      BY DEF ReadInBalance
  <2>2. \A r \in {11, 12, 13, 14, 17, 20, 21, 22, 23} : ~MatchSelector(a, BalanceMapping[r])
      BY DEF ReadInBalance
  <2>3. \A r \in {6, 9, 10, 16, 18, 19, 24, 25} : ~MatchSelector(a, BalanceMapping[r])
      BY DEF ReadInBalance
  <2> QED
      BY <2>1, <2>2, <2>3, BalanceRowCases DEF BalanceRowsOf
<1>2. \A r \in {8, 11, 13} : ~MatchSelector(a, ProfitMapping[r])
    BY DEF ReadInProfit
<1>3. k \in DOMAIN ProfitMapping /\ MatchSelector(a, ProfitMapping[k])
  <2>1. k \in {1, 2, 3, 4, 5, 6, 7, 9, 10, 12}
      OBVIOUS
  <2>2. k \in 1..13
      OBVIOUS
  <2> QED
      BY <2>1, <2>2, ProfitRows
<1>4. ProfitRowsOf(a) = {k}
    BY <1>2, <1>3, ProfitRowCases DEF ProfitRowsOf
<1> QED
    BY <1>1, <1>4 DEF ReportedOnce

\* Account by account.
LEMMA BankReported ==
    ASSUME NEW a \in Seq(Nat), Len(a) >= 4, Code(a, 1, 0, 0, 2)
    PROVE  ReportedOnce(a)
<1>1. ReadInProfit(a, 1, 0, 0, 2) /\ ReadInBalance(a, 1, 0, 0, 2)
    BY ProfitByDigits, BalanceByDigits
<1>2. ASSUME NEW b, ReadInBalance(b, 1, 0, 0, 2)
      PROVE  \A r \in {1, 2, 3, 4, 5, 7, 8, 15} : MatchSelector(b, BalanceMapping[r]) <=> r = 1
    BY <1>2 DEF ReadInBalance
<1> QED
    BY <1>1, <1>2, AssetReported

LEMMA ReceivableReported ==
    ASSUME NEW a \in Seq(Nat), Len(a) >= 4, Code(a, 1, 1, 2, 2)
    PROVE  ReportedOnce(a)
<1>1. ReadInProfit(a, 1, 1, 2, 2) /\ ReadInBalance(a, 1, 1, 2, 2)
    BY ProfitByDigits, BalanceByDigits
<1>2. ASSUME NEW b, ReadInBalance(b, 1, 1, 2, 2)
      PROVE  \A r \in {1, 2, 3, 4, 5, 7, 8, 15} : MatchSelector(b, BalanceMapping[r]) <=> r = 2
    BY <1>2 DEF ReadInBalance
<1> QED
    BY <1>1, <1>2, AssetReported

LEMMA StockReported ==
    ASSUME NEW a \in Seq(Nat), Len(a) >= 4, Code(a, 1, 4, 0, 5)
    PROVE  ReportedOnce(a)
<1>1. ReadInProfit(a, 1, 4, 0, 5) /\ ReadInBalance(a, 1, 4, 0, 5)
    BY ProfitByDigits, BalanceByDigits
<1>2. ASSUME NEW b, ReadInBalance(b, 1, 4, 0, 5)
      PROVE  \A r \in {1, 2, 3, 4, 5, 7, 8, 15} : MatchSelector(b, BalanceMapping[r]) <=> r = 5
    BY <1>2 DEF ReadInBalance
<1> QED
    BY <1>1, <1>2, AssetReported

LEMMA EquipmentReported ==
    ASSUME NEW a \in Seq(Nat), Len(a) >= 4, Code(a, 1, 6, 0, 1)
    PROVE  ReportedOnce(a)
<1>1. ReadInProfit(a, 1, 6, 0, 1) /\ ReadInBalance(a, 1, 6, 0, 1)
    BY ProfitByDigits, BalanceByDigits
<1>2. ASSUME NEW b, ReadInBalance(b, 1, 6, 0, 1)
      PROVE  \A r \in {1, 2, 3, 4, 5, 7, 8, 15} : MatchSelector(b, BalanceMapping[r]) <=> r = 7
    BY <1>2 DEF ReadInBalance
<1> QED
    BY <1>1, <1>2, AssetReported

LEMMA SoftwareReported ==
    ASSUME NEW a \in Seq(Nat), Len(a) >= 4, Code(a, 1, 7, 0, 1)
    PROVE  ReportedOnce(a)
<1>1. ReadInProfit(a, 1, 7, 0, 1) /\ ReadInBalance(a, 1, 7, 0, 1)
    BY ProfitByDigits, BalanceByDigits
<1>2. ASSUME NEW b, ReadInBalance(b, 1, 7, 0, 1)
      PROVE  \A r \in {1, 2, 3, 4, 5, 7, 8, 15} : MatchSelector(b, BalanceMapping[r]) <=> r = 8
    BY <1>2 DEF ReadInBalance
<1> QED
    BY <1>1, <1>2, AssetReported

LEMMA VATReported ==
    ASSUME NEW a \in Seq(Nat), Len(a) >= 4, Code(a, 2, 2, 2, 1)
    PROVE  ReportedOnce(a)
<1>1. ReadInProfit(a, 2, 2, 2, 1) /\ ReadInBalance(a, 2, 2, 2, 1)
    BY ProfitByDigits, BalanceByDigits
<1>2. ASSUME NEW b, ReadInBalance(b, 2, 2, 2, 1)
      PROVE  \A r \in {1, 2, 3, 4, 5, 7, 8, 15} : MatchSelector(b, BalanceMapping[r]) <=> r = 15
    BY <1>2 DEF ReadInBalance
<1> QED
    BY <1>1, <1>2, AssetReported

LEMMA SalesReported ==
    ASSUME NEW a \in Seq(Nat), Len(a) >= 4, Code(a, 6, 0, 0, 1)
    PROVE  ReportedOnce(a)
<1>1. ReadInProfit(a, 6, 0, 0, 1) /\ ReadInBalance(a, 6, 0, 0, 1)
    BY ProfitByDigits, BalanceByDigits
<1>2. ASSUME NEW b, ReadInProfit(b, 6, 0, 0, 1)
      PROVE  \A r \in {1, 2, 3, 4, 5, 6, 7, 9, 10, 12} : MatchSelector(b, ProfitMapping[r]) <=> r = 1
    BY <1>2 DEF ReadInProfit
<1> QED
    BY <1>1, <1>2, RevenueReported

LEMMA ExpenseReported ==
    ASSUME NEW a \in Seq(Nat), Len(a) >= 4, Code(a, 5, 6, 0, 2)
    PROVE  ReportedOnce(a)
<1>1. ReadInProfit(a, 5, 6, 0, 2) /\ ReadInBalance(a, 5, 6, 0, 2)
    BY ProfitByDigits, BalanceByDigits
<1>2. ASSUME NEW b, ReadInProfit(b, 5, 6, 0, 2)
      PROVE  \A r \in {1, 2, 3, 4, 5, 6, 7, 9, 10, 12} : MatchSelector(b, ProfitMapping[r]) <=> r = 5
    BY <1>2 DEF ReadInProfit
<1> QED
    BY <1>1, <1>2, RevenueReported

\* The accounts that BuildJournalLines books to,
LEMMA DealAccounts ==
    ASSUME NEW d \in DealRow, NEW k \in DOMAIN BuildJournalLines(d)
    PROVE  BuildJournalLines(d)[k].account
             \in {Bank, Receivable, InputVAT, OutputVAT, Revenue,
                  <<1,6,0,1>>, <<1,7,0,1>>, <<1,4,0,5>>, <<5,6,0,2>>}
<1>1. k \in 1..3
    BY LinesOfDeal
<1>2. ResolveInputAccount(d.goods) \in {<<1,6,0,1>>, <<1,7,0,1>>, <<1,4,0,5>>, <<5,6,0,2>>}
    BY DEF ResolveInputAccount
<1> HIDE DEF ResolveInputAccount, Bank, Receivable, InputVAT, OutputVAT, Revenue
<1> QED
    BY <1>1, <1>2 DEF BuildJournalLines, InputLines, OutputLines, Debit, Credit

\* their digits,
LEMMA AccountCodes ==
    /\ Bank \in Seq(Nat) /\ Len(Bank) >= 4 /\ Code(Bank, 1, 0, 0, 2)
    /\ Receivable \in Seq(Nat) /\ Len(Receivable) >= 4 /\ Code(Receivable, 1, 1, 2, 2)
    /\ InputVAT \in Seq(Nat) /\ Len(InputVAT) >= 4 /\ Code(InputVAT, 2, 2, 2, 1)
    /\ OutputVAT \in Seq(Nat) /\ Len(OutputVAT) >= 4 /\ Code(OutputVAT, 2, 2, 2, 1)
    /\ Revenue \in Seq(Nat) /\ Len(Revenue) >= 4 /\ Code(Revenue, 6, 0, 0, 1)
BY DEF Bank, Receivable, InputVAT, OutputVAT, Revenue, Code

\* and those that ResolveInputAccount chooses from.
LEMMA GoodsCodes ==
    /\ <<1,6,0,1>> \in Seq(Nat) /\ Len(<<1,6,0,1>>) >= 4 /\ Code(<<1,6,0,1>>, 1, 6, 0, 1)
    /\ <<1,7,0,1>> \in Seq(Nat) /\ Len(<<1,7,0,1>>) >= 4 /\ Code(<<1,7,0,1>>, 1, 7, 0, 1)
    /\ <<1,4,0,5>> \in Seq(Nat) /\ Len(<<1,4,0,5>>) >= 4 /\ Code(<<1,4,0,5>>, 1, 4, 0, 5)
    /\ <<5,6,0,2>> \in Seq(Nat) /\ Len(<<5,6,0,2>>) >= 4 /\ Code(<<5,6,0,2>>, 5, 6, 0, 2)
BY DEF Code

\* Each of them is reported once.
LEMMA DealAccountsReported ==
    \A a \in {Bank, Receivable, InputVAT, OutputVAT, Revenue,
              <<1,6,0,1>>, <<1,7,0,1>>, <<1,4,0,5>>, <<5,6,0,2>>} : ReportedOnce(a)
<1>1. ReportedOnce(Bank)
    BY AccountCodes, BankReported
<1>2. ReportedOnce(Receivable)
    BY AccountCodes, ReceivableReported
<1>3. ReportedOnce(InputVAT) /\ ReportedOnce(OutputVAT)
    BY AccountCodes, VATReported
<1>4. ReportedOnce(Revenue)
    BY AccountCodes, SalesReported
<1>5. ReportedOnce(<<1,6,0,1>>)
    BY GoodsCodes, EquipmentReported
<1>6. ReportedOnce(<<1,7,0,1>>)
    BY GoodsCodes, SoftwareReported
<1>7. ReportedOnce(<<1,4,0,5>>)
    BY GoodsCodes, StockReported
<1>8. ReportedOnce(<<5,6,0,2>>)
    BY GoodsCodes, ExpenseReported
<1> QED
    BY <1>1, <1>2, <1>3, <1>4, <1>5, <1>6, <1>7, <1>8

\* A line of an approval is on one of them; a manual line may be anywhere.
LEMMA ApprovalReportedOnce ==
    ASSUME VoucherInv, NEW v \in DOMAIN voucher, voucher[v].kind = "approval",
           NEW k \in DOMAIN voucher[v].lines
    PROVE  ReportedOnce(voucher[v].lines[k].account)
<1>1. ApprovalOK(v)
    BY DEF VoucherInv, ApprovalsOK
<1>2. PICK d \in DealRow : voucher[v].lines = BuildJournalLines(d)
    BY <1>1 DEF ApprovalOK, IsDraftOf
<1> QED
    BY <1>2, DealAccounts, DealAccountsReported

-----------------------------------------------------------------------------
(* The ledger and the invoices *)

\* The posted entries of approvals, while nothing was edited or reversed after it.
Approvals == {v \in Posted : voucher[v].kind = "approval"}
Undisturbed == drifted = {} /\ \A v \in DOMAIN voucher : voucher[v].kind # "reversal"

\* Then the posted invoices and these entries are one to one, and an entry has the
\* lines of its invoice as it is now.
LEMMA PostedOnce ==
    ASSUME VoucherInv, Undisturbed
    PROVE  /\ Having("posted") = {[w \in Approvals |-> voucher[w].src][v] : v \in Approvals}
           /\ \A v, w \in Approvals : voucher[v].src = voucher[w].src => v = w
           /\ \A v \in Approvals : IsDraftOf(voucher[v].lines, bill[voucher[v].src].deal)
<1>1. \A v \in Approvals : v \in DOMAIN voucher /\ voucher[v].status = "posted" /\
      voucher[v].kind = "approval"
    BY DEF Approvals, Posted
<1>2. \A v \in Approvals : ApprovalOK(v)
    BY <1>1 DEF VoucherInv, ApprovalsOK
<1>3. \A v \in Approvals : voucher[v].src \in Having("posted")
    BY <1>1, <1>2 DEF ApprovalOK, Having
<1>4. ASSUME NEW i \in Having("posted") PROVE \E v \in Approvals : voucher[v].src = i
  <2>1. i \in InvoiceIds /\ bill[i].status = "posted"
      BY DEF Having
  <2>2. PICK v \in DOMAIN voucher : Backs(v, i)
      BY <2>1 DEF VoucherInv, PostedBacked
  <2>3. voucher[v].kind = "approval" /\ voucher[v].src = i /\ voucher[v].status = "posted"
      BY <2>2 DEF Backs, Undisturbed
  <2> QED
      BY <2>3 DEF Approvals, Posted
<1>5. \A v, w \in Approvals : voucher[v].src = voucher[w].src => v = w
    BY <1>1, <1>2 DEF ApprovalOK
<1>6. \A v \in Approvals : IsDraftOf(voucher[v].lines, bill[voucher[v].src].deal)
    BY <1>1, <1>2 DEF ApprovalOK, Undisturbed
<1>7. Having("posted") = {[w \in Approvals |-> voucher[w].src][v] : v \in Approvals}
    BY <1>3, <1>4
<1> QED
    BY <1>5, <1>6, <1>7

\* A sum over the ledger in which manual entries count for nothing is a sum over the
\* posted invoices, when it is for each single one.
LEMMA LedgerOfInvoices ==
    ASSUME VoucherInv, Undisturbed, NEW t, \A l \in PostedLines : t[l] \in Int,
           NEW w, \A i \in Having("posted") : w[i] \in Int,
           \A v \in Approvals :
              SumOn([k \in DOMAIN voucher[v].lines |-> t[LineAt(v, k)]], DOMAIN voucher[v].lines)
                = w[voucher[v].src],
           \A v \in Posted : voucher[v].kind = "manual" =>
              \A k \in DOMAIN voucher[v].lines : t[LineAt(v, k)] = 0
    PROVE  SumOn(t, PostedLines) = SumOn(w, Having("posted"))
<1> DEFINE Lines(v) == DOMAIN voucher[v].lines
           perLine(v) == [k \in Lines(v) |-> t[LineAt(v, k)]]
           perEntry == [v \in Posted |-> SumOn(perLine(v), Lines(v))]
           src == [v \in Approvals |-> voucher[v].src]
<1>1. IsFiniteSet(Posted) /\ \A v \in Posted : IsFiniteSet(Lines(v))
    BY PlacesFinite DEF Posted
<1>2. SumOn(t, PostedLines) = SumOn(perEntry, Posted)
    BY PostedLineSum
<1>3. Approvals \in SUBSET Posted
    BY DEF Approvals
<1>4. IsFiniteSet(Approvals)
    BY <1>1, <1>3, FS_Subset
<1>5. ASSUME NEW v \in Posted \ Approvals PROVE perEntry[v] = 0
  <2>1. voucher[v].kind = "manual"
    <3>1. v \in DOMAIN voucher /\ voucher[v].kind # "approval"
        BY DEF Posted, Approvals
    <3>2. voucher[v].kind \in {"approval", "manual", "reversal"}
        BY <3>1, EntriesTyped DEF VoucherRow
    <3> QED
        BY <3>1, <3>2 DEF Undisturbed
  <2>2. \A k \in Lines(v) : perLine(v)[k] = 0
      BY <2>1
  <2>3. SumOn(perLine(v), Lines(v)) = 0
    <3>1. IsFiniteSet(Lines(v))
        BY <1>1
    <3> HIDE DEF perLine, Lines
    <3> QED  BY <2>2, <3>1, SumZero
  <2> QED
      BY <2>3
<1>6. \A v \in Approvals : perEntry[v] = w[src[v]] /\ src[v] \in Having("posted")
    BY <1>3, PostedOnce
<1>7. ASSUME NEW v \in Posted PROVE perEntry[v] \in Int
  <2>1. CASE v \in Approvals
      BY <1>6, <2>1
  <2>2. CASE v \in Posted \ Approvals
      BY <1>5, <2>2
  <2> QED
      BY <2>1, <2>2
<1>8. SumOn(perEntry, Posted) = SumOn(perEntry, Approvals)
  <2> HIDE DEF perEntry
  <2> QED  BY <1>1, <1>3, <1>5, <1>7, SumSupport
<1>9. SumOn(perEntry, Approvals) = SumOn([v \in Approvals |-> w[src[v]]], Approvals)
  <2> DEFINE moved == [v \in Approvals |-> w[src[v]]]
  <2>1. \A v \in Approvals : perEntry[v] = moved[v]
      BY <1>6
  <2> HIDE DEF perEntry, moved
  <2>2. SumOn(perEntry, Approvals) = SumOn(moved, Approvals)
      BY <2>1, SumSame
  <2> QED  BY <2>2 DEF moved
<1>10. SumOn(w, {src[v] : v \in Approvals}) = SumOn([v \in Approvals |-> w[src[v]]], Approvals)
  <2>1. \A v, u \in Approvals : src[v] = src[u] => v = u
      BY PostedOnce
  <2>2. \A v \in Approvals : w[src[v]] \in Int
      BY <1>6
  <2> HIDE DEF src
  <2> QED  BY <1>4, <2>1, <2>2, SumRenamed
<1>11. {src[v] : v \in Approvals} = Having("posted")
    BY PostedOnce
<1> HIDE DEF src, perEntry
<1> QED
    BY <1>2, <1>8, <1>9, <1>10, <1>11

\* A sum over invoices as a report reads them, taken by id.
LEMMA InvoicesById ==
    ASSUME VoucherInv, NEW f, \A i \in PostedInvoices : f[i] \in Int, NEW part \in SUBSET PostedInvoices
    PROVE  SumOn(f, part) =
              SumOn([i \in Having("posted") |-> IF InvoiceOf(i) \in part THEN f[InvoiceOf(i)] ELSE 0],
                    Having("posted"))
<1> DEFINE H == Having("posted")
           name == [i \in H |-> InvoiceOf(i)]
           within == [x \in PostedInvoices |-> IF x \in part THEN f[x] ELSE 0]
           byId == [i \in H |-> IF InvoiceOf(i) \in part THEN f[InvoiceOf(i)] ELSE 0]
<1>1. /\ IsFiniteSet(H) /\ IsFiniteSet(PostedInvoices)
      /\ PostedInvoices = {InvoiceOf(i) : i \in H}
      /\ \A i, j \in H : InvoiceOf(i) = InvoiceOf(j) => i = j
    BY InvoicesRead DEF PostedInvoices
<1>2. PostedInvoices = {name[i] : i \in H}
    BY <1>1
<1>3. \A x \in PostedInvoices : within[x] \in Int
    OBVIOUS
<1>4. SumOn(within, PostedInvoices) = SumOn(within, part)
  <2>1. \A x \in PostedInvoices \ part : within[x] = 0
      OBVIOUS
  <2> HIDE DEF within
  <2> QED  BY <1>1, <1>3, <2>1, SumSupport
<1>5. SumOn(within, part) = SumOn(f, part)
  <2>1. \A x \in part : within[x] = f[x]
      OBVIOUS
  <2> HIDE DEF within
  <2> QED  BY <2>1, SumSame
<1>6. SumOn(within, {name[i] : i \in H}) = SumOn([i \in H |-> within[name[i]]], H)
  <2>1. \A i, j \in H : name[i] = name[j] => i = j
      BY <1>1
  <2>2. \A i \in H : within[name[i]] \in Int
      BY <1>2, <1>3
  <2> HIDE DEF within, name, H
  <2> QED  BY <1>1, <2>1, <2>2, SumRenamed
<1>7. [i \in H |-> within[name[i]]] = byId
    BY <1>2
<1> HIDE DEF within, name, H, byId
<1>8. SumOn(f, part) = SumOn(byId, H)
    BY <1>2, <1>4, <1>5, <1>6, <1>7
<1> QED
    BY <1>8 DEF byId, H

\* The sum over the three lines of an entry.
LEMMA SumOfThree ==
    ASSUME NEW g, g[1] \in Int, g[2] \in Int, g[3] \in Int
    PROVE  SumOn(g, 1..3) = g[1] + g[2] + g[3]
<1>1. IsFiniteSet(1..3) /\ IsFiniteSet({2, 3}) /\ IsFiniteSet({3}) /\ IsFiniteSet({})
  <2>1. IsFiniteSet(1..3)
      BY FS_Interval, 1 \in Int, 3 \in Int
  <2>2. {2, 3} \in SUBSET (1..3) /\ {3} \in SUBSET (1..3) /\ {} \in SUBSET (1..3)
      OBVIOUS
  <2> QED
      BY <2>1, <2>2, FS_Subset
<1>2. \A x \in 1..3 : g[x] \in Int
  <2>1. \A x \in 1..3 : x = 1 \/ x = 2 \/ x = 3
      OBVIOUS
  <2> QED
      BY <2>1
<1>3. SumOn(g, 1..3) = g[1] + SumOn(g, {2, 3})
  <2>1. (1..3) \ {1} = {2, 3} /\ 1 \in 1..3
      OBVIOUS
  <2>2. SumOn(g, 1..3) = g[1] + SumOn(g, (1..3) \ {1})
      BY <1>1, <1>2, <2>1, SumSteps
  <2> QED
      BY <2>1, <2>2
<1>4. SumOn(g, {2, 3}) = g[2] + SumOn(g, {3})
  <2>1. {2, 3} \ {2} = {3}
      OBVIOUS
  <2>2. SumOn(g, {2, 3}) = g[2] + SumOn(g, {2, 3} \ {2})
      BY <1>1, <1>2, SumSteps
  <2> QED
      BY <2>1, <2>2
<1>5. SumOn(g, {3}) = g[3] + SumOn(g, {})
  <2>1. {3} \ {3} = {}
      OBVIOUS
  <2>2. SumOn(g, {3}) = g[3] + SumOn(g, {3} \ {3})
      BY <1>1, <1>2, SumSteps
  <2> QED
      BY <2>1, <2>2
<1>6. SumOn(g, {}) = 0
    BY <1>1, SumSteps
<1> QED
    BY <1>3, <1>4, <1>5, <1>6

-----------------------------------------------------------------------------
\* What the ledger says of an account, and of the revenue.
Moved(a) == [l \in PostedLines |-> IF l.account = a THEN l.credit - l.debit ELSE 0]
Earned == [l \in PostedLines |-> IF IsPrefix(<<6>>, l.account) THEN l.credit ELSE 0]

\* NetOn is the sum of the movements.
LEMMA NetOnSum ==
    ASSUME VoucherInv, NEW a
    PROVE  NetOn(a) = SumOn(Moved(a), PostedLines)
<1> DEFINE on == {l \in PostedLines : l.account = a}
           net == [l \in on |-> l.credit - l.debit]
<1>1. IsFiniteSet(PostedLines) /\ on \in SUBSET PostedLines
    BY PostedLinesFinite
<1>2. \A l \in PostedLines : Moved(a)[l] \in Int
    BY PostedLinesTyped DEF Moved
<1>3. \A l \in PostedLines \ on : Moved(a)[l] = 0
    BY DEF Moved
<1>4. \A l \in on : net[l] = Moved(a)[l]
    BY DEF Moved
<1>5. NetOn(a) = SumFunction(net)
    BY DEF NetOn
<1>6. SumFunction(net) = SumOn(net, on)
  <2>1. net = [l \in on |-> net[l]]
      OBVIOUS
  <2> HIDE DEF net, on
  <2> QED  BY <2>1, SumIsSumOn
<1> HIDE DEF net, on
<1>7. SumOn(net, on) = SumOn(Moved(a), on)
    BY <1>4, SumSame
<1>8. SumOn(Moved(a), PostedLines) = SumOn(Moved(a), on)
    BY <1>1, <1>2, <1>3, SumSupport
<1> QED
    BY <1>5, <1>6, <1>7, <1>8

\* The two VAT accounts are not among the others that approvals book to,
LEMMA AccountsApart ==
    /\ Receivable # OutputVAT /\ Revenue # OutputVAT /\ Bank # OutputVAT /\ InputVAT # OutputVAT
    /\ Receivable # InputVAT /\ Revenue # InputVAT /\ Bank # InputVAT
    /\ \A goods : ResolveInputAccount(goods) \notin {InputVAT, OutputVAT}
<1>1. \A x \in {<<1,6,0,1>>, <<1,7,0,1>>, <<1,4,0,5>>, <<5,6,0,2>>} : x # InputVAT /\ x # OutputVAT
    BY DEF InputVAT, OutputVAT
<1>2. \A goods : ResolveInputAccount(goods) \in {<<1,6,0,1>>, <<1,7,0,1>>, <<1,4,0,5>>, <<5,6,0,2>>}
    BY DEF ResolveInputAccount
<1>3. /\ Receivable # OutputVAT /\ Revenue # OutputVAT /\ Bank # OutputVAT /\ InputVAT # OutputVAT
      /\ Receivable # InputVAT /\ Revenue # InputVAT /\ Bank # InputVAT
    BY DEF Receivable, Revenue, Bank, OutputVAT, InputVAT
<1> QED
    BY <1>1, <1>2, <1>3

\* and of them all only Revenue begins with 6.
LEMMA RevenueCodes ==
    /\ IsPrefix(<<6>>, Revenue)
    /\ ~IsPrefix(<<6>>, Receivable) /\ ~IsPrefix(<<6>>, Bank)
    /\ ~IsPrefix(<<6>>, InputVAT) /\ ~IsPrefix(<<6>>, OutputVAT)
    /\ \A goods : ~IsPrefix(<<6>>, ResolveInputAccount(goods))
<1>1. \A a \in Seq(Nat) : Len(a) >= 4 => (IsPrefix(<<6>>, a) <=> a[1] = 6)
    BY PrefixOfCode
<1>2. \A a, x, y, z, w : Code(a, x, y, z, w) => a[1] = x
    BY DEF Code
<1>3. IsPrefix(<<6>>, Revenue)
    BY <1>1, <1>2, AccountCodes
<1>4. \A a \in Seq(Nat) : \A x, y, z, w :
          Len(a) >= 4 /\ Code(a, x, y, z, w) /\ x # 6 => ~IsPrefix(<<6>>, a)
    BY <1>1, <1>2
<1>5. ~IsPrefix(<<6>>, Receivable) /\ ~IsPrefix(<<6>>, Bank)
  <2>1. 1 # 6
      OBVIOUS
  <2> QED  BY <1>4, <2>1, AccountCodes
<1>6. ~IsPrefix(<<6>>, InputVAT) /\ ~IsPrefix(<<6>>, OutputVAT)
  <2>1. 2 # 6
      OBVIOUS
  <2> QED  BY <1>4, <2>1, AccountCodes
<1>7. /\ ~IsPrefix(<<6>>, <<1,6,0,1>>) /\ ~IsPrefix(<<6>>, <<1,7,0,1>>)
      /\ ~IsPrefix(<<6>>, <<1,4,0,5>>) /\ ~IsPrefix(<<6>>, <<5,6,0,2>>)
  <2>1. 1 # 6 /\ 5 # 6
      OBVIOUS
  <2> QED  BY <1>4, <2>1, GoodsCodes
<1>8. \A goods : ResolveInputAccount(goods) \in {<<1,6,0,1>>, <<1,7,0,1>>, <<1,4,0,5>>, <<5,6,0,2>>}
    BY DEF ResolveInputAccount
<1>9. \A x \in {<<1,6,0,1>>, <<1,7,0,1>>, <<1,4,0,5>>, <<5,6,0,2>>} : ~IsPrefix(<<6>>, x)
    BY <1>7
<1> QED
    BY <1>3, <1>5, <1>6, <1>8, <1>9

\* The three lines of a deal.
LEMMA LinesRead ==
    ASSUME NEW d \in DealRow
    PROVE  /\ DOMAIN BuildJournalLines(d) = 1..3
           /\ d.direction = "output" =>
                 /\ BuildJournalLines(d)[1] = Debit(Receivable, d.gross)
                 /\ BuildJournalLines(d)[2] = Credit(Revenue, d.net)
                 /\ BuildJournalLines(d)[3] = Credit(OutputVAT, d.tax)
           /\ d.direction # "output" =>
                 /\ BuildJournalLines(d)[1] = Debit(ResolveInputAccount(d.goods), d.net)
                 /\ BuildJournalLines(d)[2] = Debit(InputVAT, d.tax)
                 /\ BuildJournalLines(d)[3] = Credit(Bank, d.gross)
<1> HIDE DEF Debit, Credit, ResolveInputAccount
<1>1. DOMAIN BuildJournalLines(d) = 1..3
    BY LinesOfDeal
<1> QED
    BY <1>1 DEF BuildJournalLines, InputLines, OutputLines

\* What one deal moves on the VAT accounts and in the revenue.
LEMMA DealMoves ==
    ASSUME NEW d \in DealRow, NEW g
    PROVE  LET lines == BuildJournalLines(d) IN
           /\ (\A k \in 1..3 : g[k] = IF lines[k].account = OutputVAT
                                      THEN lines[k].credit - lines[k].debit ELSE 0)
              => SumOn(g, 1..3) = IF d.direction = "output" THEN d.tax ELSE 0
           /\ (\A k \in 1..3 : g[k] = IF lines[k].account = InputVAT
                                      THEN lines[k].credit - lines[k].debit ELSE 0)
              => SumOn(g, 1..3) = IF d.direction = "output" THEN 0 ELSE -d.tax
           /\ (\A k \in 1..3 : g[k] = IF IsPrefix(<<6>>, lines[k].account)
                                      THEN lines[k].credit ELSE 0)
              => SumOn(g, 1..3) = IF d.direction = "output" THEN d.net ELSE 0
<1> DEFINE lines == BuildJournalLines(d)
<1>1. d.net \in Int /\ d.tax \in Int /\ d.gross \in Int
    BY DEF DealRow
<1>2. \A a, x : /\ Debit(a, x).account = a /\ Debit(a, x).debit = x /\ Debit(a, x).credit = 0
                /\ Credit(a, x).account = a /\ Credit(a, x).debit = 0 /\ Credit(a, x).credit = x
    BY DEF Debit, Credit
<1>3. ASSUME \A k \in 1..3 : g[k] = IF lines[k].account = OutputVAT
                                    THEN lines[k].credit - lines[k].debit ELSE 0
      PROVE  SumOn(g, 1..3) = IF d.direction = "output" THEN d.tax ELSE 0
  <2>1. CASE d.direction = "output"
    <3>1. g[1] = 0 /\ g[2] = 0 /\ g[3] = d.tax - 0
        BY <1>2, <1>3, <2>1, LinesRead, AccountsApart
    <3> QED
        BY <1>1, <2>1, <3>1, SumOfThree
  <2>2. CASE d.direction # "output"
    <3>1. g[1] = 0 /\ g[2] = 0 /\ g[3] = 0
        BY <1>2, <1>3, <2>2, LinesRead, AccountsApart
    <3> QED
        BY <1>1, <2>2, <3>1, SumOfThree
  <2> QED
      BY <2>1, <2>2
<1>4. ASSUME \A k \in 1..3 : g[k] = IF lines[k].account = InputVAT
                                    THEN lines[k].credit - lines[k].debit ELSE 0
      PROVE  SumOn(g, 1..3) = IF d.direction = "output" THEN 0 ELSE -d.tax
  <2>1. CASE d.direction = "output"
    <3>1. g[1] = 0 /\ g[2] = 0 /\ g[3] = 0
        BY <1>2, <1>4, <2>1, LinesRead, AccountsApart
    <3> QED
        BY <1>1, <2>1, <3>1, SumOfThree
  <2>2. CASE d.direction # "output"
    <3>1. g[1] = 0 /\ g[2] = 0 - d.tax /\ g[3] = 0
        BY <1>2, <1>4, <2>2, LinesRead, AccountsApart
    <3> QED
        BY <1>1, <2>2, <3>1, SumOfThree
  <2> QED
      BY <2>1, <2>2
<1>5. ASSUME \A k \in 1..3 : g[k] = IF IsPrefix(<< 6 >>, lines[k].account)
                                      THEN lines[k].credit ELSE 0
      PROVE  SumOn(g, 1..3) = IF d.direction = "output" THEN d.net ELSE 0
  <2>1. CASE d.direction = "output"
    <3>1. g[1] = 0 /\ g[2] = d.net /\ g[3] = 0
        BY <1>2, <1>5, <2>1, LinesRead, RevenueCodes
    <3> QED
        BY <1>1, <2>1, <3>1, SumOfThree
  <2>2. CASE d.direction # "output"
    <3>1. g[1] = 0 /\ g[2] = 0 /\ g[3] = 0
        BY <1>2, <1>5, <2>2, LinesRead, RevenueCodes
    <3> QED
        BY <1>1, <2>2, <3>1, SumOfThree
  <2> QED
      BY <2>1, <2>2
<1> QED
    BY <1>3, <1>4, <1>5

\* A manual entry that stays off an account moves nothing there.
LEMMA ManualElsewhere ==
    ASSUME VoucherInv, NEW a \in Seq(Nat), ManualApart(a), NEW v \in Posted, voucher[v].kind = "manual",
           NEW k \in DOMAIN voucher[v].lines
    PROVE  ~IsPrefix(a, LineAt(v, k).account) /\ LineAt(v, k).account # a
<1>1. v \in DOMAIN voucher /\ voucher[v].status = "posted"
    BY DEF Posted
<1>2. ~IsPrefix(a, voucher[v].lines[k].account)
    BY <1>1 DEF ManualApart
<1>3. IsPrefix(a, a)
    BY PrefixByDigit
<1>4. LineAt(v, k).account = voucher[v].lines[k].account
    BY DEF LineAt
<1> QED
    BY <1>2, <1>3, <1>4

\* A line of a posted entry is one the reports read.
LEMMA LinesPosted ==
    ASSUME NEW v \in Posted, NEW k \in DOMAIN voucher[v].lines
    PROVE  /\ LineAt(v, k) \in PostedLines
           /\ LineAt(v, k).account = voucher[v].lines[k].account
           /\ LineAt(v, k).debit = voucher[v].lines[k].debit
           /\ LineAt(v, k).credit = voucher[v].lines[k].credit
BY DEF PostedLines, LineAt, Posted

\* The ledger's VAT and revenue are those of the posted invoices.
LEMMA VATFromVouchers ==
    ASSUME VoucherInv, Undisturbed
    PROVE  /\ ManualApart(OutputVAT) =>
                 NetOn(OutputVAT) = SumOn([i \in Having("posted") |->
                     IF bill[i].deal.direction = "output" THEN bill[i].deal.tax ELSE 0],
                         Having("posted"))
           /\ ManualApart(InputVAT) =>
                 NetOn(InputVAT) = SumOn([i \in Having("posted") |->
                     IF bill[i].deal.direction = "output" THEN 0 ELSE -bill[i].deal.tax],
                         Having("posted"))
           /\ ManualApart(<<6>>) =>
                 SumOn(Earned, PostedLines) = SumOn([i \in Having("posted") |->
                     IF bill[i].deal.direction = "output" THEN bill[i].deal.net ELSE 0],
                         Having("posted"))
<1> DEFINE H == Having("posted")
           out == [i \in H |-> IF bill[i].deal.direction = "output" THEN bill[i].deal.tax ELSE 0]
           in == [i \in H |-> IF bill[i].deal.direction = "output" THEN 0 ELSE -bill[i].deal.tax]
           sold == [i \in H |-> IF bill[i].deal.direction = "output" THEN bill[i].deal.net ELSE 0]
<1>1. \A i \in H : out[i] \in Int /\ in[i] \in Int /\ sold[i] \in Int
    BY BillsTyped DEF Having
<1>2. \A v \in Approvals : v \in Posted /\ voucher[v].src \in H /\ bill[voucher[v].src].deal \in DealRow
                           /\ voucher[v].lines = BuildJournalLines(bill[voucher[v].src].deal)
                           /\ DOMAIN voucher[v].lines = 1..3
  <2> TAKE v \in Approvals
  <2>1. voucher[v].src \in H /\ IsDraftOf(voucher[v].lines, bill[voucher[v].src].deal)
      BY PostedOnce
  <2>2. bill[voucher[v].src].deal \in DealRow
      BY <2>1, BillsTyped DEF Having
  <2>3. v \in Posted
      BY DEF Approvals
  <2> QED
      BY <2>1, <2>2, <2>3, LinesRead DEF IsDraftOf
<1>3. \A l \in PostedLines : Moved(OutputVAT)[l] \in Int /\ Moved(InputVAT)[l] \in Int /\
      Earned[l] \in Int
    BY PostedLinesTyped DEF Moved, Earned
<1>4. ASSUME NEW v \in Approvals
      PROVE  LET sumOf(t) == SumOn([k \in DOMAIN voucher[v].lines |-> t[LineAt(v, k)]],
                                   DOMAIN voucher[v].lines) IN
             /\ sumOf(Moved(OutputVAT)) = out[voucher[v].src]
             /\ sumOf(Moved(InputVAT)) = in[voucher[v].src]
             /\ sumOf(Earned) = sold[voucher[v].src]
  <2> DEFINE d == bill[voucher[v].src].deal
             o == [k \in 1..3 |-> Moved(OutputVAT)[LineAt(v, k)]]
             n == [k \in 1..3 |-> Moved(InputVAT)[LineAt(v, k)]]
             e == [k \in 1..3 |-> Earned[LineAt(v, k)]]
  <2>1. d \in DealRow
      BY <1>2
  <2>2. \A k \in 1..3 : /\ LineAt(v, k) \in PostedLines
                        /\ LineAt(v, k).account = BuildJournalLines(d)[k].account
                        /\ LineAt(v, k).debit = BuildJournalLines(d)[k].debit
                        /\ LineAt(v, k).credit = BuildJournalLines(d)[k].credit
      BY <1>2, LinesPosted
  <2>3. \A k \in 1..3 : o[k] = IF BuildJournalLines(d)[k].account = OutputVAT
                               THEN BuildJournalLines(d)[k].credit
                                   - BuildJournalLines(d)[k].debit ELSE 0
      BY <2>2 DEF Moved
  <2>4. \A k \in 1..3 : n[k] = IF BuildJournalLines(d)[k].account = InputVAT
                               THEN BuildJournalLines(d)[k].credit
                                   - BuildJournalLines(d)[k].debit ELSE 0
      BY <2>2 DEF Moved
  <2>5. \A k \in 1..3 : e[k] = IF IsPrefix(<<6>>, BuildJournalLines(d)[k].account)
                               THEN BuildJournalLines(d)[k].credit ELSE 0
      BY <2>2 DEF Earned
  <2>6. /\ SumOn(o, 1..3) = IF d.direction = "output" THEN d.tax ELSE 0
        /\ SumOn(n, 1..3) = IF d.direction = "output" THEN 0 ELSE -d.tax
        /\ SumOn(e, 1..3) = IF d.direction = "output" THEN d.net ELSE 0
    <3> HIDE DEF d, o, n, e
    <3> QED  BY <2>1, <2>3, <2>4, <2>5, DealMoves
  <2>7. out[voucher[v].src] = (IF d.direction = "output" THEN d.tax ELSE 0)
        /\ in[voucher[v].src] = (IF d.direction = "output" THEN 0 ELSE -d.tax)
        /\ sold[voucher[v].src] = (IF d.direction = "output" THEN d.net ELSE 0)
      BY <1>2
  <2> QED
      BY <1>2, <2>6, <2>7
<1>5. ASSUME ManualApart(OutputVAT) PROVE SumOn(Moved(OutputVAT), PostedLines) = SumOn(out, H)
  <2>1. \A v \in Posted : voucher[v].kind = "manual" =>
            \A k \in DOMAIN voucher[v].lines : Moved(OutputVAT)[LineAt(v, k)] = 0
      BY <1>5, AccountCodes, ManualElsewhere, LinesPosted DEF Moved
  <2> HIDE DEF out, H
  <2> QED  BY <1>1, <1>3, <1>4, <2>1, LedgerOfInvoices DEF H
<1>6. ASSUME ManualApart(InputVAT) PROVE SumOn(Moved(InputVAT), PostedLines) = SumOn(in, H)
  <2>1. \A v \in Posted : voucher[v].kind = "manual" =>
            \A k \in DOMAIN voucher[v].lines : Moved(InputVAT)[LineAt(v, k)] = 0
      BY <1>6, AccountCodes, ManualElsewhere, LinesPosted DEF Moved
  <2> HIDE DEF in, H
  <2> QED  BY <1>1, <1>3, <1>4, <2>1, LedgerOfInvoices DEF H
<1>7. ASSUME ManualApart(<< 6 >>) PROVE SumOn(Earned, PostedLines) = SumOn(sold, H)
  <2>1. <<6>> \in Seq(Nat)
      OBVIOUS
  <2>2. \A v \in Posted : voucher[v].kind = "manual" =>
            \A k \in DOMAIN voucher[v].lines : Earned[LineAt(v, k)] = 0
      BY <1>7, <2>1, ManualElsewhere, LinesPosted DEF Earned
  <2> HIDE DEF sold, H
  <2> QED  BY <1>1, <1>3, <1>4, <2>2, LedgerOfInvoices DEF H
<1>8. NetOn(OutputVAT) = SumOn(Moved(OutputVAT), PostedLines)
      /\ NetOn(InputVAT) = SumOn(Moved(InputVAT), PostedLines)
    BY NetOnSum
<1> QED
    BY <1>5, <1>6, <1>7, <1>8

-----------------------------------------------------------------------------
\* And so are the summary's.
LEMMA SummaryById ==
    ASSUME VoucherInv
    PROVE  LET H == Having("posted")
               sum == VATSummary(PostedInvoices) IN
           /\ sum.outputTax = SumOn([i \in H |->
                 IF bill[i].deal.direction = "output" THEN bill[i].deal.tax ELSE 0], H)
           /\ sum.inputTax = -SumOn([i \in H |->
                 IF bill[i].deal.direction = "output" THEN 0 ELSE -bill[i].deal.tax], H)
           /\ sum.outputNet = SumOn([i \in H |->
                 IF bill[i].deal.direction = "output" THEN bill[i].deal.net ELSE 0], H)
<1> DEFINE H == Having("posted")
           inv == PostedInvoices
           out == Outgoing(inv)
           in == inv \ out
           outTax == [i \in H |-> IF bill[i].deal.direction = "output" THEN bill[i].deal.tax ELSE 0]
           outNet == [i \in H |-> IF bill[i].deal.direction = "output" THEN bill[i].deal.net ELSE 0]
           inTax == [i \in H |-> IF bill[i].deal.direction = "output" THEN 0 ELSE bill[i].deal.tax]
           owed == [i \in H |-> IF bill[i].deal.direction = "output" THEN 0 ELSE -bill[i].deal.tax]
<1>1. /\ IsFiniteSet(H) /\ IsFiniteSet(inv) /\ Amounted(inv)
      /\ inv = {InvoiceOf(i) : i \in H}
    BY InvoicesRead DEF PostedInvoices
<1>2. \A x \in inv : TaxOf(inv)[x] = x.tax /\ NetOf(inv)[x] = x.net /\ x.tax \in Int /\ x.net \in Int
    BY <1>1 DEF TaxOf, NetOf, Amounted
<1>3. out \in SUBSET inv /\ in \in SUBSET inv
    BY DEF Outgoing, Direction
<1>4. \A i \in H : /\ InvoiceOf(i) \in inv
                   /\ InvoiceOf(i).tax = bill[i].deal.tax /\ InvoiceOf(i).net = bill[i].deal.net
                   /\ InvoiceOf(i) \in out <=> bill[i].deal.direction = "output"
                   /\ InvoiceOf(i) \in in <=> bill[i].deal.direction # "output"
    BY <1>1 DEF InvoiceOf, Outgoing, Direction
<1>5. /\ VATSummary(inv).outputTax = SumOn(TaxOf(inv), out)
      /\ VATSummary(inv).outputNet = SumOn(NetOf(inv), out)
      /\ VATSummary(inv).inputTax = SumOn(TaxOf(inv), in)
    BY SummarySums
<1>6. SumOn(TaxOf(inv), out)
          = SumOn([i \in H |-> IF InvoiceOf(i) \in out THEN TaxOf(inv)[InvoiceOf(i)] ELSE 0], H)
  <2> HIDE DEF out
  <2> QED  BY <1>2, <1>3, InvoicesById
<1>7. SumOn(NetOf(inv), out)
          = SumOn([i \in H |-> IF InvoiceOf(i) \in out THEN NetOf(inv)[InvoiceOf(i)] ELSE 0], H)
  <2> HIDE DEF out
  <2> QED  BY <1>2, <1>3, InvoicesById
<1>8. SumOn(TaxOf(inv), in)
          = SumOn([i \in H |-> IF InvoiceOf(i) \in in THEN TaxOf(inv)[InvoiceOf(i)] ELSE 0], H)
  <2> HIDE DEF in
  <2> QED  BY <1>2, <1>3, InvoicesById
<1>9. [i \in H |-> IF InvoiceOf(i) \in out THEN TaxOf(inv)[InvoiceOf(i)] ELSE 0] = outTax
  <2> HIDE DEF out, in, inv, H
  <2> QED  BY <1>2, <1>4
<1>10. [i \in H |-> IF InvoiceOf(i) \in out THEN NetOf(inv)[InvoiceOf(i)] ELSE 0] = outNet
  <2> HIDE DEF out, in, inv, H
  <2> QED  BY <1>2, <1>4
<1>11. [i \in H |-> IF InvoiceOf(i) \in in THEN TaxOf(inv)[InvoiceOf(i)] ELSE 0] = inTax
  <2> HIDE DEF out, in, inv, H
  <2> QED  BY <1>2, <1>4
<1>12. SumOn(owed, H) = -SumOn(inTax, H)
  <2> DEFINE zero == [i \in H |-> 0]
  <2>1. \A i \in H : zero[i] \in Int /\ inTax[i] \in Int
      BY BillsTyped DEF Having
  <2>2. owed = [i \in H |-> zero[i] - inTax[i]]
    <3>1. \A i \in H : owed[i] = zero[i] - inTax[i]
        BY BillsTyped DEF Having
    <3> QED  BY <3>1
  <2>3. SumOn(zero, H) = 0
    <3>1. \A i \in H : zero[i] = 0
        OBVIOUS
    <3> HIDE DEF zero, H
    <3> QED  BY <1>1, <3>1, SumZero
  <2> HIDE DEF zero, inTax, owed, H
  <2>4. SumOn(owed, H) = SumOn(zero, H) - SumOn(inTax, H)
      BY <1>1, <2>1, <2>2, SumDifference
  <2>5. SumOn(inTax, H) \in Int
      BY <1>1, <2>1, SumSteps
  <2> QED
      BY <2>3, <2>4, <2>5
<1>13. SumOn(inTax, H) \in Int
  <2>1. \A i \in H : inTax[i] \in Int
      BY BillsTyped DEF Having
  <2> HIDE DEF inTax, H
  <2> QED  BY <1>1, <2>1, SumSteps
<1>14. VATSummary(inv).inputTax = SumOn(inTax, H)
    BY <1>5, <1>8, <1>11
<1>15. VATSummary(inv).inputTax = -SumOn(owed, H)
  <2> HIDE DEF inTax, H, owed, inv
  <2> QED  BY <1>12, <1>13, <1>14
<1> QED
    BY <1>5, <1>6, <1>7, <1>9, <1>10, <1>15

\* CreditedRevenue reads the same lines as Earned.
LEMMA RevenueIsEarned ==
    ASSUME VoucherInv
    PROVE  CreditedRevenue(AccountBalance(PostedLines)) = SumOn(Earned, PostedLines)
<1> DEFINE lines == PostedLines
           A == {a \in AccountsOf(lines) : IsPrefix(<<6>>, a)}
           on == {l \in lines : l.account \in A}
<1>1. IsFiniteSet(lines) /\ Columns(lines)
    BY PostedLinesFinite, PostedLinesTyped DEF Columns
<1>2. DOMAIN AccountBalance(lines) = AccountsOf(lines)
      /\ \A a \in AccountsOf(lines) : AccountBalance(lines)[a].credit = TrialBalance(lines)[a].credit
    BY DEF AccountBalance, TrialBalance, AccountsOf
<1>3. CreditedRevenue(AccountBalance(lines)) = SumFunction([a \in A |-> AccountBalance(lines)[a].credit])
    BY <1>2 DEF CreditedRevenue
<1>4. [a \in A |-> AccountBalance(lines)[a].credit] = [a \in A |-> TrialBalance(lines)[a].credit]
    BY <1>2
<1>5. SumFunction([a \in A |-> TrialBalance(lines)[a].credit]) = SumOn(CreditOf(lines), on)
  <2>1. A \in SUBSET AccountsOf(lines)
      OBVIOUS
  <2> HIDE DEF A
  <2> QED  BY <1>1, <2>1, ByAccount
<1>6. \A l \in lines : l \in on <=> IsPrefix(<<6>>, l.account)
    BY DEF AccountsOf
<1>7. SumOn(CreditOf(lines), on) = SumOn(Earned, on)
  <2>1. \A l \in on : CreditOf(lines)[l] = Earned[l]
      BY <1>6 DEF CreditOf, Earned
  <2> HIDE DEF on
  <2> QED  BY <2>1, SumSame
<1>8. SumOn(Earned, lines) = SumOn(Earned, on)
  <2>1. \A l \in lines : Earned[l] \in Int
      BY PostedLinesTyped DEF Earned
  <2>2. \A l \in lines \ on : Earned[l] = 0
      BY <1>6 DEF Earned
  <2>3. on \in SUBSET lines
      OBVIOUS
  <2> HIDE DEF on
  <2> QED  BY <1>1, <2>1, <2>2, <2>3, SumSupport
<1> QED
    BY <1>3, <1>4, <1>5, <1>7, <1>8

\* Ledger and invoices say the same.
LEMMA VATAndLedger == ASSUME VoucherInv PROVE VATMatchesLedger
<1> SUFFICES ASSUME Undisturbed
             PROVE  /\ ManualApart(OutputVAT) =>
                          VATSummary(PostedInvoices).outputTax = NetOn(OutputVAT)
                    /\ ManualApart(InputVAT) =>
                          VATSummary(PostedInvoices).inputTax = -NetOn(InputVAT)
                    /\ ManualApart(OutputVAT) /\ ManualApart(InputVAT) =>
                          VATReturn(PostedInvoices).payable = NetOn(OutputVAT) + NetOn(InputVAT)
                    /\ ManualApart(<<6>>) =>
                          CrossTaxValidation(PostedLines, PostedInvoices).difference = 0
    BY DEF VATMatchesLedger, Undisturbed
<1> DEFINE sum == VATSummary(PostedInvoices)
<1>1. ManualApart(OutputVAT) => sum.outputTax = NetOn(OutputVAT)
    BY SummaryById, VATFromVouchers
<1>2. ManualApart(InputVAT) => sum.inputTax = -NetOn(InputVAT)
    BY SummaryById, VATFromVouchers
<1>3. IsFiniteSet(PostedInvoices) /\ Amounted(PostedInvoices)
    BY InvoicesRead DEF PostedInvoices
<1>4. VATReturn(PostedInvoices).payable = sum.outputTax - sum.inputTax
    BY <1>3, NetIsDifference
<1>5. sum.outputTax \in Int /\ sum.inputTax \in Int /\ sum.outputNet \in Int
    BY <1>3, TotalsAreInt
<1>6. NetOn(InputVAT) \in Int
  <2>1. \A l \in PostedLines : Moved(InputVAT)[l] \in Int
      BY PostedLinesTyped DEF Moved
  <2> QED
      BY <2>1, PostedLinesFinite, NetOnSum, SumSteps
<1>7. ManualApart(OutputVAT) /\ ManualApart(InputVAT) =>
          VATReturn(PostedInvoices).payable = NetOn(OutputVAT) + NetOn(InputVAT)
    BY <1>1, <1>2, <1>4, <1>5, <1>6
<1>8. ManualApart(<<6>>) => sum.outputNet = CreditedRevenue(AccountBalance(PostedLines))
    BY SummaryById, VATFromVouchers, RevenueIsEarned
<1>9. CrossTaxValidation(PostedLines, PostedInvoices).difference
          = sum.outputNet - CreditedRevenue(AccountBalance(PostedLines))
    BY DEF CrossTaxValidation
<1>10. ManualApart(<<6>>) => CrossTaxValidation(PostedLines, PostedInvoices).difference = 0
  <2> HIDE DEF sum
  <2> QED  BY <1>5, <1>8, <1>9
<1> QED
    BY <1>1, <1>2, <1>7, <1>10

\* VATMatchesLedger: what VATSummary and VATReturn compute from the posted invoices is what
\* the posted vouchers carry on the VAT accounts, and CrossTaxValidation finds no difference.
THEOREM VATAlwaysMatchesLedger == VoucherSpec => []VATMatchesLedger
BY VATAndLedger, VoucherInvAlways, PTL
==============================================================================
