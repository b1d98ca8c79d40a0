---------------------------- MODULE MCPayments ----------------------------
(* Instances of Payments for TLC.                                          *)
EXTENDS Payments, TLC

\* Settlements differ only in their names.
WorkerSymmetry == Permutations(Workers)

=============================================================================
