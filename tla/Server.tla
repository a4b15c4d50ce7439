------------------------------- MODULE Server --------------------------------
(***************************************************************************)
(* The requests of the NestJS server, for the modules whose handlers read, *)
(* decide and write in several statements.                                 *)
(*                                                                         *)
(* A handler that reads and then writes is an action that starts it (its   *)
(* reads, checks and early refusals) and one action per later statement.   *)
(* What it has read stays in req[h], so it may be stale when it is used.   *)
(* repo.save(row) writes every column of the row it was given; a           *)
(* transaction's writes are one action, its commit.  A refused request     *)
(* changes nothing and is left out.                                        *)
(***************************************************************************)
EXTENDS Naturals, Sequences, FiniteSets, SequencesExt

CONSTANTS
  Requests,        \* requests the server may have in progress at once
  Plans,           \* bound: which operations a behaviour calls, how often, and whether
                   \* one after the other: [ops, calls, serial]
  MaxDeaths,       \* bound: requests that die
  None

ASSUME ServerAssumption ==
  /\ IsFiniteSet(Requests) /\ Requests # {}
  /\ MaxDeaths \in Nat
  /\ \A p \in Plans : p.calls \in Nat /\ p.serial \in BOOLEAN

VARIABLES
  req,        \* the memory of each request in progress; "at" is its next statement
  calls, deaths,
  plan        \* the plan of this behaviour

server == <<req, calls, deaths, plan>>

Idle == [at |-> "idle"]
Serial == plan.serial
\* How many calls may read before one of them writes.
Racing == IF Serial THEN 1 ELSE Cardinality(Requests)

\* h is answered or goes on with memory m.
Goes(h, m) == req' = [req EXCEPT ![h] = m] /\ UNCHANGED <<calls, deaths, plan>>
Reply(h) == Goes(h, Idle)

\* A call of op arrives, and h handles it ...
Arrives(h, op) ==
  /\ op \in plan.ops /\ calls < plan.calls
  /\ req[h] = Idle
  /\ Serial => \A k \in Requests : req[k] = Idle

\* ... and goes on with memory m.
Start(h, m) ==
  /\ req' = [req EXCEPT ![h] = m]
  /\ calls' = calls + 1
  /\ UNCHANGED <<deaths, plan>>

\* h dies half-way; an open transaction is rolled back.
Die(h) ==
  /\ req[h] # Idle /\ deaths < MaxDeaths
  /\ req' = [req EXCEPT ![h] = Idle]
  /\ deaths' = deaths + 1
  /\ UNCHANGED <<calls, plan>>

\* The process dies, and with it all that it had in progress.
Crash ==
  /\ deaths < MaxDeaths
  /\ req' = [h \in Requests |-> Idle]
  /\ deaths' = deaths + 1
  /\ UNCHANGED <<calls, plan>>

ServerInit ==
  /\ req = [h \in Requests |-> Idle]
  /\ calls = 0 /\ deaths = 0
  /\ plan \in Plans
=============================================================================
