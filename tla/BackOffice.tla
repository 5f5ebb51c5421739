------------------------------- MODULE BackOffice -------------------------------
(***************************************************************************)
(* What surrounds the ledger: the tax calculators, the risk detectors, the *)
(* reports over vouchers, the books of the entity, the tax adjustments and *)
(* the reconciliation.  They share no tables and no state with each other  *)
(* but through the reports that Vouchers already composes, so a behaviour  *)
(* stays at one desk and the desks are explored side by side instead of in *)
(* their product.                                                          *)
(***************************************************************************)
EXTENDS TaxDesk, RiskDesk, Vouchers, Books, Adjustments, Reconciliation

VARIABLE desk  \* where this behaviour takes place

backOfficeVars == <<desk, taxVars, riskVars, voucherVars, bookVars, adjustmentVars, reconciliationVars>>

Desks == {"questions", "payroll", "year", "filings", "purchases", "comparisons",
          "vouchers", "books", "adjustments", "reconciliation"}

BackOfficeInit ==
    /\ desk \in Desks
    /\ TaxInit /\ RiskInit /\ VoucherInit /\ BooksInit /\ AdjustmentsInit /\ ReconciliationInit

TaxDesks == \/ desk = "questions" /\ QuestionNext
            \/ desk = "payroll" /\ PayrollNext
            \/ desk = "year" /\ YearNext

RiskDesks == \/ desk = "filings" /\ FilingNext
             \/ desk = "purchases" /\ PurchaseNext
             \/ desk = "comparisons" /\ CompareNext

BackOfficeNext ==
    /\ UNCHANGED desk
    /\ \/ /\ TaxDesks
          /\ UNCHANGED <<riskVars, voucherVars, bookVars, adjustmentVars, reconciliationVars>>
       \/ /\ RiskDesks
          /\ UNCHANGED <<taxVars, voucherVars, bookVars, adjustmentVars, reconciliationVars>>
       \/ /\ desk = "vouchers" /\ VoucherNext
          /\ UNCHANGED <<taxVars, riskVars, bookVars, adjustmentVars, reconciliationVars>>
       \/ /\ desk = "books" /\ BooksNext
          /\ UNCHANGED <<taxVars, riskVars, voucherVars, adjustmentVars, reconciliationVars>>
       \/ /\ desk = "adjustments" /\ AdjustmentsNext
          /\ UNCHANGED <<taxVars, riskVars, voucherVars, bookVars, reconciliationVars>>
       \/ /\ desk = "reconciliation" /\ ReconciliationNext
          /\ UNCHANGED <<taxVars, riskVars, voucherVars, bookVars, adjustmentVars>>

BackOfficeSpec == BackOfficeInit /\ [][BackOfficeNext]_backOfficeVars

\* The type invariants of the desks together.
BackOfficeTypeOK ==
    /\ TaxTypeOK /\ RiskTypeOK /\ VoucherTypeOK /\ BooksTypeOK /\ AdjustmentsTypeOK
    /\ ReconciliationTypeOK
==============================================================================
