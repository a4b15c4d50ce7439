----------------------------- MODULE Invoicing -----------------------------
(***************************************************************************)
(* FeesService up to the invoice: fee structures, discounts and the        *)
(* generation of a class's invoices for a billing period.  A request reads *)
(* the fee and the enrollments once and then bills the students one after  *)
(* another: is there an invoice already, what is the price, what credit    *)
(* has the student, save the invoice, its line items and the ledger entry  *)
(* that consumes the credit.  Each is a statement of its own, without a    *)
(* transaction and without a UNIQUE constraint on invoices, and requests   *)
(* interleave between them.  Credit comes from module Payments, which here *)
(* is the action GrantCredit.  Money is counted in hundredths, also in the *)
(* running total, which the service keeps as an unrounded number.          *)
(***************************************************************************)
EXTENDS Integers, Sequences, FiniteSets, FiniteSetsExt, SequencesExt

CONSTANTS
  Handlers,     \* request slots
  Classes, Students, Teachers, Periods,
  Teacher,      \* the teacher of each class
  Enrolled,     \* students enrolled in each class, as rows: nothing keeps them distinct
  Held,         \* sessions held in each class in a period
  Absent,       \* of those, how many each student missed: [Students -> [Classes -> Nat]]
  Fees,         \* possible amounts of a fee structure
  Discounts,    \* discounts that may be granted
  Grants,       \* credits an overpayment may leave: also none, a rounding error's
  MaxDiscounts, MaxGrants, MaxFails,   \* bounds: how many of each
  MaxOverlap,   \* requests that may be in progress for classes with a common student
  None

ASSUME InvoicingAssumption ==
  /\ Teacher \in [Classes -> Teachers]
  /\ Enrolled \in [Classes -> Seq(Students)]
  /\ Held \in [Classes -> Nat]
  /\ Absent \in [Students -> [Classes -> Nat]]
  /\ \A s \in Students, c \in Classes : Absent[s][c] <= Held[c]
  /\ IsFiniteSet(Handlers)
  /\ Fees \subseteq Nat /\ Grants \subseteq Nat
  /\ Discounts \subseteq [student : Students \union {None}, class : Classes \union {None},
                          type : {"flat", "percent"}, value : Nat]
  /\ MaxDiscounts \in Nat /\ MaxGrants \in Nat /\ MaxFails \in Nat
  /\ None \notin Students \union Classes

VARIABLES
  fee,         \* table fee_structures: the newest amount of each class, or None
  discounts,   \* table discounts, in the order they were granted
  invoices,    \* table invoices, oldest first; field credit is not a column, see below
  lines,       \* table invoice_line_items: the amounts of each invoice
  ledger,      \* table student_credit_ledger_entries, oldest first
  pc, job,     \* next statement and memory of each handler
  fails        \* requests that died so far

rows == <<fee, discounts, invoices, lines, ledger>>
vars == <<rows, pc, job, fails>>

-----------------------------------------------------------------------------
(* Money. *)

Total(S, amount) == MapThenSumSet(LAMBDA n : amount[n], S)

SumOf(seq) == Total(DOMAIN seq, seq)

\* getAvailableCredit
Entered == [n \in DOMAIN ledger |-> ledger[n].amount]
Balance(s) == Total({n \in DOMAIN ledger : ledger[n].student = s}, Entered)

\* Math.round(100 * x) / 100 of the quotient n / d: halves are rounded up.
Round(n, d) == (2 * n + d) \div (2 * d)

NotBelowZero(n) == IF n > 0 THEN n ELSE 0

Lesser(m, n) == IF m < n THEN m ELSE n

\* The part of the fee for the classes the student missed (only with per_class_deduction).
Deduction(f, s, c) ==
  IF Absent[s][c] = 0 THEN <<>> ELSE <<-Round(f * Absent[s][c], Held[c])>>

\* A discount found by either of its two targets.
Applies(d, s, c) == d.student = s \/ d.class = c

AmountOff(d, running) ==
  IF d.type = "percent" THEN Round(running * d.value, 100) ELSE d.value

\* The line items of a fee f: the fee, the deduction and the discounts ds in turn.
Priced(f, s, c, ds) ==
  FoldLeft(LAMBDA items, d : Append(items, -AmountOff(d, SumOf(items))),
           <<f>> \o Deduction(f, s, c), ds)

-----------------------------------------------------------------------------
PCs == {"idle", "next", "price", "credit", "invoice", "lines", "consume"}

NoJob == [class |-> None, period |-> None, todo |-> {}, fee |-> 0, student |-> None,
          items |-> <<>>, credit |-> 0, row |-> 0]

Init ==
  /\ fee = [c \in Classes |-> None]
  /\ discounts = <<>> /\ invoices = <<>> /\ lines = <<>> /\ ledger = <<>>
  /\ pc = [h \in Handlers |-> "idle"]
  /\ job = [h \in Handlers |-> NoJob]
  /\ fails = 0

Busy(h) == pc[h] # "idle"

Step(h, from, to) ==
  /\ pc[h] = from
  /\ pc' = [pc EXCEPT ![h] = to]
  /\ UNCHANGED fails

Shares(c, d) == Range(Enrolled[c]) \intersect Range(Enrolled[d]) # {}

\* An invoice this teacher already issued to the student for the period, for whatever class.
\* Mutant: one with nothing to pay is not found.
ExistingToPay(s, t, p) ==
  {n \in DOMAIN invoices :
     invoices[n].student = s /\ invoices[n].teacher = t /\ invoices[n].period = p
       /\ invoices[n].total > 0}
Existing(s, t, p) ==
  {n \in DOMAIN invoices :
     invoices[n].student = s /\ invoices[n].teacher = t /\ invoices[n].period = p}

-----------------------------------------------------------------------------
CreateFeeStructure(c, a) ==
  /\ fee' = [fee EXCEPT ![c] = a]
  /\ UNCHANGED <<discounts, invoices, lines, ledger, pc, job, fails>>

\* Refused only when it targets nothing.
CreateDiscount(d) ==
  /\ Len(discounts) < MaxDiscounts
  /\ d.student # None \/ d.class # None
  /\ discounts' = Append(discounts, d)
  /\ UNCHANGED <<fee, invoices, lines, ledger, pc, job, fails>>

\* What an overpayment leaves (GrantCredit of module Payments).
GrantCredit(s, a) ==
  /\ Cardinality({n \in DOMAIN ledger : ledger[n].source = 0}) < MaxGrants
  /\ ledger' = Append(ledger, [student |-> s, amount |-> a, source |-> 0])
  /\ UNCHANGED <<fee, discounts, invoices, lines, pc, job, fails>>

(* generateInvoices *)

StartGenerate(h, c, p) ==
  /\ fee[c] # None                          \* otherwise 400 NO_FEE_STRUCTURE
  /\ Cardinality({g \in Handlers : Busy(g) /\ Shares(c, job[g].class)}) < MaxOverlap
  /\ Step(h, "idle", "next")
  /\ job' = [job EXCEPT ![h] =
       [NoJob EXCEPT !.class = c, !.period = p, !.fee = fee[c], !.todo = DOMAIN Enrolled[c]]]
  /\ UNCHANGED rows

\* The enrollments come in no particular order; a student with an invoice is skipped.
CheckExisting(h, e) ==
  LET c == job[h].class
      s == Enrolled[c][e]
      billed == Existing(s, Teacher[c], job[h].period) # {}
  IN
  /\ e \in job[h].todo
  /\ Step(h, "next", IF billed THEN "next" ELSE "price")
  /\ job' = [job EXCEPT ![h].todo = @ \ {e}, ![h].student = s]
  /\ UNCHANGED rows

Answer(h) ==
  /\ job[h].todo = {}
  /\ Step(h, "next", "idle")
  /\ job' = [job EXCEPT ![h] = NoJob]
  /\ UNCHANGED rows

(* generateOneInvoice *)

\* The discounts, too, are found in no particular order.
Price(h) ==
  LET s == job[h].student
      c == job[h].class
      found == {n \in DOMAIN discounts : Applies(discounts[n], s, c)}
  IN
  /\ Step(h, "price", "credit")
  /\ \E order \in SetToSeqs(found) :
       job' = [job EXCEPT ![h].items =
         Priced(job[h].fee, s, c, [n \in DOMAIN order |-> discounts[order[n]]])]
  /\ UNCHANGED rows

\* What the credit pays.  Mutant: all of it.
CreditForAll(h) == NotBelowZero(SumOf(job[h].items))
CreditFor(h) == Lesser(Balance(job[h].student), NotBelowZero(SumOf(job[h].items)))

\* Mutant: nothing to pay, no invoice.
ReadCreditSkip(h) ==
  /\ Step(h, "credit", IF SumOf(job[h].items) > 0 THEN "invoice" ELSE "next")
  /\ job' = [job EXCEPT ![h].credit = CreditFor(h)]
  /\ UNCHANGED rows

ReadCredit(h) ==
  /\ Step(h, "credit", "invoice")
  /\ job' = [job EXCEPT ![h].credit = CreditFor(h)]
  /\ UNCHANGED rows

\* Mutant: no line item for the credit.
NoCreditItem(credit) == <<>>
CreditItem(credit) == IF credit > 0 THEN <<-credit>> ELSE <<>>

\* Field credit stands for the line item "Credit balance applied".
InsertInvoice(h) ==
  LET j == job[h] IN
  /\ Step(h, "invoice", "lines")
  /\ invoices' = Append(invoices,
       [student |-> j.student, teacher |-> Teacher[j.class], period |-> j.period,
        subtotal |-> j.fee, total |-> NotBelowZero(SumOf(j.items)) - j.credit,
        credit |-> NotBelowZero(j.credit)])
  /\ lines' = Append(lines, <<>>)
  /\ job' = [job EXCEPT ![h].row = Len(invoices) + 1, ![h].items = @ \o CreditItem(j.credit)]
  /\ UNCHANGED <<fee, discounts, ledger>>

InsertLine(h) ==
  LET j == job[h] IN
  /\ Step(h, "lines", IF Len(j.items) > 1 THEN "lines"
                      ELSE IF j.credit > 0 THEN "consume" ELSE "next")
  /\ lines' = [lines EXCEPT ![j.row] = Append(@, Head(j.items))]
  /\ job' = [job EXCEPT ![h].items = Tail(@)]
  /\ UNCHANGED <<fee, discounts, invoices, ledger>>

\* Mutant: the whole balance is consumed.
ConsumeBalance(h) ==
  LET j == job[h] IN
  /\ Step(h, "consume", "next")
  /\ ledger' = Append(ledger, [student |-> j.student, amount |-> -Balance(j.student), source |-> j.row])
  /\ UNCHANGED <<fee, discounts, invoices, lines, job>>

ConsumeCredit(h) ==
  LET j == job[h] IN
  /\ Step(h, "consume", "next")
  /\ ledger' = Append(ledger, [student |-> j.student, amount |-> -j.credit, source |-> j.row])
  /\ UNCHANGED <<fee, discounts, invoices, lines, job>>

-----------------------------------------------------------------------------
\* A request dies half-way: a failed statement, a lost connection, a crash.
Fail(h) ==
  /\ Busy(h) /\ fails < MaxFails
  /\ pc' = [pc EXCEPT ![h] = "idle"]
  /\ job' = [job EXCEPT ![h] = NoJob]
  /\ fails' = fails + 1
  /\ UNCHANGED rows

Continue(h) ==
  \/ \E e \in job[h].todo : CheckExisting(h, e)
  \/ Answer(h) \/ Price(h) \/ ReadCredit(h) \/ InsertInvoice(h) \/ InsertLine(h) \/ ConsumeCredit(h)

Next ==
  \/ \E c \in Classes, a \in Fees : CreateFeeStructure(c, a)
  \/ \E d \in Discounts : CreateDiscount(d)
  \/ \E s \in Students, a \in Grants : GrantCredit(s, a)
  \/ \E h \in Handlers, c \in Classes, p \in Periods : StartGenerate(h, c, p)
  \/ \E h \in Handlers : Continue(h) \/ Fail(h)

Spec == Init /\ [][Next]_vars
-----------------------------------------------------------------------------
(* Properties. *)

TypeOK ==
  /\ fee \in [Classes -> Nat \union {None}]
  /\ discounts \in Seq(Discounts)
  /\ invoices \in Seq([student : Students, teacher : Teachers, period : Periods,
                       subtotal : Nat, total : Nat, credit : Nat])
  /\ lines \in Seq(Seq(Int)) /\ Len(lines) = Len(invoices)
  /\ ledger \in Seq([student : Students, amount : Int, source : 0..Len(invoices)])
  /\ pc \in [Handlers -> PCs]
  /\ job \in [Handlers -> [class : Classes \union {None}, period : Periods \union {None},
                           todo : SUBSET Nat, fee : Nat, student : Students \union {None},
                           items : Seq(Int), credit : Int, row : 0..Len(invoices)]]
  /\ fails \in 0..MaxFails

\* "never double-bill the same period" (fees.service.ts:279): a student has at most one invoice
\* of a teacher for a period, also when two enrollment rows name the student, two classes of the
\* teacher are billed or a request that died is repeated.
NoDoubleBill ==
  \A m, n \in DOMAIN invoices :
    m # n => \/ invoices[m].student # invoices[n].student
             \/ invoices[m].teacher # invoices[n].teacher
             \/ invoices[m].period # invoices[n].period

\* A credit is consumed "up to what's available" (docs/03-database-schema.md:251).
BalanceKept == \A s \in Students : Balance(s) >= 0

\* Credit that invoice n consumed and whose ledger entry a handler is still to write.
Pending(s) ==
  Total({h \in Handlers : job[h].student = s /\ pc[h] \in {"lines", "consume"}},
        [h \in Handlers |-> NotBelowZero(job[h].credit)])

\* Every credit an invoice consumed is entered in the ledger, once, unless a request died.
CreditAccounted ==
  fails = 0 => \A s \in Students :
    Total({n \in DOMAIN invoices : invoices[n].student = s},
          [n \in DOMAIN invoices |-> invoices[n].credit])
      = Pending(s) - Total({n \in DOMAIN ledger : ledger[n].student = s /\ ledger[n].source # 0}, Entered)

\* No discount takes off more than the whole price.  Nothing sees to it: a percentage of more
\* than 100 is accepted, and a second one then adds to the price.
OnlyReductions ==
  \A n \in DOMAIN discounts : discounts[n].type = "percent" => discounts[n].value <= 100

\* The line items of a complete invoice add up to its total, or to less than nothing when
\* discounts make the price negative and the total 0; and while no discount is above 100
\* percent, neither discounts nor absences nor credit make an invoice dearer than its fee
\* (Math.min(availableCredit, runningTotal) would, were the balance negative).
ItemsExplainTotal ==
  \A n \in DOMAIN invoices :
    /\ (fails = 0 /\ \A h \in Handlers : pc[h] # "lines" \/ job[h].row # n) =>
         NotBelowZero(SumOf(lines[n])) = invoices[n].total
    /\ OnlyReductions => invoices[n].total <= invoices[n].subtotal

\* A student who is done with has an invoice, whoever made it: repeating a request that died
\* half-way bills exactly the students it left out.
AllBilled ==
  \A h \in Handlers : pc[h] = "next" =>
    \A e \in DOMAIN Enrolled[job[h].class] \ job[h].todo :
      Existing(Enrolled[job[h].class][e], Teacher[job[h].class], job[h].period) # {}

\* Billing a student is as good as atomic when no other request of a class with the same
\* student is in progress (module Billing).
AtomicBilling == INSTANCE Billing WITH
  bills <- [n \in DOMAIN invoices |->
              [student |-> invoices[n].student, teacher |-> invoices[n].teacher,
               period |-> invoices[n].period, total |-> invoices[n].total]],
  balance <- [s \in Students |-> Balance(s) - Pending(s)]
ImplementsBilling == AtomicBilling!BSpec
=============================================================================
