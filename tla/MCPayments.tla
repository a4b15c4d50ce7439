----------------------------- MODULE MCPayments -----------------------------
(* Small instances of Payments for TLC. *)
EXTENDS Payments, TLC

\* Request slots are interchangeable.
Interchangeable == Permutations(Handlers)
=============================================================================
