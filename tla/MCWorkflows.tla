----------------------------- MODULE MCWorkflows -----------------------------
(***************************************************************************)
(* Small instances of Workflows: notifications with their digests, and     *)
(* jobs, never in one behaviour, for they share no table.                  *)
(***************************************************************************)
EXTENDS Workflows

CONSTANTS r1, r2

MCRowsOf == [j \in Imports |-> 2]
MCPlans == {
  [ops |-> {"notify", "markRead", "registerDevice"}, calls |-> 4, serial |-> FALSE],
  [ops |-> {"notify", "updatePreference", "registerDevice"}, calls |-> 3, serial |-> FALSE],
  [ops |-> {"notify", "markAllRead", "registerDevice"}, calls |-> 3, serial |-> FALSE],
  [ops |-> {"notify", "registerDevice", "deleteAccount"}, calls |-> 4, serial |-> FALSE],
  [ops |-> {"createJob"}, calls |-> 3, serial |-> FALSE]}
=============================================================================
