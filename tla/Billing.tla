------------------------------ MODULE Billing ------------------------------
(***************************************************************************)
(* What generating invoices promises, as if billing a student were atomic: *)
(* a student gets at most one bill from a teacher for a period, and the    *)
(* student's credit balance pays a part of it, never more than there is.   *)
(* Module Invoicing, statement by statement, is shown to implement this as *)
(* long as requests that share a student do not overlap.                   *)
(***************************************************************************)
EXTENDS Integers, Sequences

CONSTANTS Students, Teachers, Periods

VARIABLES
  bills,      \* the invoices, oldest first
  balance     \* credit of each student

BInit == bills = <<>> /\ balance = [s \in Students |-> 0]

Billed(s, t, p) ==
  \E n \in 1..Len(bills) :
    bills[n].student = s /\ bills[n].teacher = t /\ bills[n].period = p

OthersKept(s) == \A r \in Students \ {s} : balance'[r] = balance[r]

Bill(s, t, p) ==
  /\ ~Billed(s, t, p)
  /\ Len(bills') = Len(bills) + 1
  /\ LET bill == bills'[Len(bills) + 1] IN
       /\ bills' = Append(bills, bill)
       /\ bill \in [student : {s}, teacher : {t}, period : {p}, total : Nat]
  /\ balance'[s] \in 0..balance[s]
  /\ OthersKept(s)

\* An overpayment adds to the balance, and so does a request that dies after it saved an
\* invoice and before it entered the credit the invoice consumes.
Add(s) ==
  /\ balance'[s] > balance[s]
  /\ OthersKept(s)
  /\ UNCHANGED bills

BNext ==
  \E s \in Students : Add(s) \/ \E t \in Teachers, p \in Periods : Bill(s, t, p)

BSpec == BInit /\ [][BNext]_<<bills, balance>>
=============================================================================
