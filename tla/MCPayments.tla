----------------------------- MODULE MCPayments -----------------------------
(* Instances of Payments for TLC. *)
EXTENDS Payments, TLC

SessionSymmetry == Permutations(Sessions)
=============================================================================
