---------------------------- MODULE MCIdempotency ----------------------------
(* Idempotency for TLC. *)
EXTENDS Idempotency, TLC

Symmetry == Permutations(Attempts) \cup Permutations(Inputs)
==============================================================================
