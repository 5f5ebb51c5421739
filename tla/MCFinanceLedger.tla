--------------------------- MODULE MCFinanceLedger ---------------------------
(* FinanceLedger for TLC. *)
EXTENDS LedgerClaims, TLC

NoPrefix == {}
TwoOfFour == {<<2, 4>>}
Symmetry == Permutations(Requests) \cup Permutations(Entries)
==============================================================================
