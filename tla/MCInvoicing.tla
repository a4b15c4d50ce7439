---------------------------- MODULE MCInvoicing ----------------------------
(* Small instances of Invoicing for TLC. *)
EXTENDS Invoicing, TLC

CONSTANTS c1, c2, c3, s1, s2, t1, t2

\* Request slots are interchangeable.
Interchangeable == Permutations(Handlers)

\* Classes c1 and c2 are t1's; s1 is in both, and in c1 by two rows.
MCTeacher == (c1 :> t1) @@ (c2 :> t1) @@ (c3 :> t2)
Apart == (c1 :> <<s1, s1>>) @@ (c2 :> <<s1>>) @@ (c3 :> <<s2>>)
\* s1 is also taught by t2.
Mixed == (c1 :> <<s1>>) @@ (c2 :> <<>>) @@ (c3 :> <<s1>>)

\* s1 missed one of c1's two sessions.
MCHeld == (c1 :> 2) @@ (c2 :> 0) @@ (c3 :> 1)
MCAbsent == [s \in Students |-> [c \in Classes |-> IF s = s1 /\ c = c1 THEN 1 ELSE 0]]

\* Three times the price off for s1, so that a price turns negative and, twice, positive again;
\* half of it and one unit for the students of c1.
MCDiscounts == {[student |-> s1, class |-> None, type |-> "percent", value |-> 300],
                [student |-> None, class |-> c1, type |-> "flat", value |-> 1],
                [student |-> None, class |-> c1, type |-> "percent", value |-> 50]}
=============================================================================
