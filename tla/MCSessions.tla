----------------------------- MODULE MCSessions -----------------------------
(* Small instances of Sessions for TLC. *)
EXTENDS Sessions, TLC

\* Request slots, and calls of the same app, are interchangeable.
Interchangeable == Permutations(Handlers) \union Permutations(Calls)
=============================================================================
