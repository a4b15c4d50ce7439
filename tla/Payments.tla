------------------------------ MODULE Payments ------------------------------
(***************************************************************************)
(* FeesService once invoices have been issued: credit notes, payments      *)
(* recorded by hand, gateway payments and their webhooks, refunds, the     *)
(* recomputation of an invoice's status that follows each of them, the     *)
(* credit an overpayment leaves and the teacher's payout.                  *)
(*                                                                         *)
(* A handler is a request in progress.  Nothing in the service opens a     *)
(* database transaction, so a request is a series of separate statements   *)
(* and every `await` between two of them is a point where other requests   *)
(* run: each action below is one statement, pc names the next one.         *)
(* A payment row is named by its `idempotency_key`, the column the         *)
(* database keeps UNIQUE; for a gateway payment that is its session id.    *)
(* Money in a row is a whole number of units (the column's hundredths).    *)
(* A sum the service computes from rows is a JavaScript number, which may  *)
(* miss the exact sum by less than half a unit: sums are counted in grains *)
(* of a unit, and each is off by at most one grain.                        *)
(***************************************************************************)
EXTENDS Integers, Sequences, FiniteSets

CONSTANTS
  Handlers,      \* request slots: how many requests may be in progress at once
  Invoices,      \* invoices already issued
  Shared,        \* those of an institute whose teacher has a payoutPercent
  Keys,          \* idempotency keys chosen by clients
  Sessions,      \* session ids the gateway hands out (fresh UUIDs)
  Totals,        \* possible invoice totals
  Amounts,       \* amounts of offline payments and of credit notes (DTO: @Min(0.01))
  MaxAmount,     \* no amount is larger
  MaxNotes,      \* bound: an invoice with so many credit notes gets no further one
  MaxRefunds,    \* bound: a payment with so many refund rows gets no further one
  MaxFails,      \* bound: requests that die half-way
  MaxInFlight,   \* deliveries of one session the gateway may have in progress
  None           \* no invoice, no key

PayIds == Keys \union Sessions

ASSUME PaymentsAssumption ==
  /\ MaxAmount \in Nat \ {0}
  /\ Totals \subseteq 0..MaxAmount
  /\ Amounts \subseteq 1..MaxAmount
  /\ Shared \subseteq Invoices
  /\ IsFiniteSet(Handlers) /\ IsFiniteSet(Keys) /\ IsFiniteSet(Sessions)
  /\ Keys \intersect Sessions = {}
  /\ None \notin Invoices \union PayIds
  /\ MaxNotes \in Nat /\ MaxRefunds \in Nat /\ MaxFails \in Nat /\ MaxInFlight \in Nat

VARIABLES
  invoice,    \* table invoices: total and status of each
  credited,   \* table credit_notes: sum of the notes of each invoice
  notes,      \* table credit_notes: how many notes each invoice has
  payments,   \* table payments, by idempotency key
  refunds,    \* table refunds: how many rows each payment has
  audit,      \* table payment_audit_log: the new_status of each row, oldest first
  ledger,     \* table student_credit_ledger_entries: overpayment credits, oldest first
  payouts,    \* table institute_teacher_payouts: rows of each payment
  pastDue,    \* invoices whose due date has passed
  outcome,    \* what the gateway decided for each session
  acked,      \* sessions whose webhook was answered with success
  pc,         \* next statement of each handler
  job,        \* what each handler holds in memory
  sums,       \* what each handler's getFinancials has read so far
  fails       \* requests that died so far

rows == <<invoice, credited, notes, payments, refunds, audit, ledger, payouts>>
local == <<pc, job, sums>>
vars == <<rows, pastDue, outcome, acked, local, fails>>

-----------------------------------------------------------------------------
(* Values. *)

InvoiceStatus == {"issued", "paid", "partial", "overdue"}   \* nothing ever writes VOID
PaymentStatus == {"none", "pending", "confirmed", "failed", "refunded"}
Ops == {"none", "note", "record", "initiate", "webhook", "refund"}
PCs == {"idle", "insertNote", "insertPayment", "sums", "settle", "auditSettle",
        "insertRefund", "markRefunded", "auditRefund", "credit", "grant", "payout"}

NoRow == [status |-> "none", inv |-> None, amount |-> 0]
NoJob == [op |-> "none", inv |-> None, key |-> None, amount |-> 0, seen |-> "issued"]
Unread == -1
NoSums == [net |-> Unread, paid |-> Unread]

Grain == 5   \* grains in a unit: a difference of two sums, each one grain off, rounds correctly

\* The amount of every confirmed payment in S, unit by unit, so that their sum is a cardinality.
Units(S) == {u \in S \X (1..MaxAmount) : u[2] <= payments[u[1]].amount}

ConfirmedOf(i) == {k \in PayIds : payments[k].inv = i /\ payments[k].status = "confirmed"}

AtLeastZero(n) == IF n > 0 THEN n ELSE 0

\* What adding amounts up may give when n units is right: the binary fractions of the amounts
\* and the order of the rows decide, unless there is nothing to add.
FloatSums(n, exact) == IF exact THEN {Grain * n} ELSE Grain * n - 1 .. Grain * n + 1

\* round2 and toFixed(2)
Rounded(x) == (x + 2) \div Grain

\* The two numbers getFinancials derives, from two separate queries: it rounds neither.
NetTotals(i) ==
  LET n == invoice[i].total - credited[i] IN
  {AtLeastZero(x) : x \in FloatSums(n, notes[i] = 0 \/ (notes[i] = 1 /\ n = 0))}
PaidTotals(i) ==
  LET K == ConfirmedOf(i) IN
  FloatSums(Cardinality(Units(K)), Cardinality({k \in K : payments[k].amount > 0}) <= 1)

\* The status recomputeInvoiceStatus derives from them, comparing them as they are.  Mutant: the due date is not looked at.
StatusForAnyDate(net, paid, late) ==
  IF net > 0 /\ paid >= net THEN "paid" ELSE IF paid > 0 THEN "partial" ELSE "overdue"
StatusFor(net, paid, late) ==
  IF net > 0 /\ paid >= net THEN "paid"
  ELSE IF paid > 0 THEN "partial"
  ELSE IF late THEN "overdue"
  ELSE "issued"

\* The status the gateway reports for session s.  Mutant: its outcome is not looked at.
ReportedBlindly(s) == "confirmed"
Reported(s) == IF outcome[s] = "succeeded" THEN "confirmed" ELSE "failed"

\* Mutant: the check for a reconciled payment is forgotten.
NeverReconciled(s) == FALSE
AlreadyReconciled(s) == payments[s].status # "pending"

\* alreadyCredited: a ledger row of this invoice with exactly this amount.  Mutant: no check.
NeverCredited(i, a) == FALSE
AlreadyCredited(i, a) == \E n \in 1..Len(ledger) : ledger[n] = [inv |-> i, amount |-> a]

\* The audit log with one more row.  Mutants: it replaces the others; it is not written.
LoggedOver(k, st) == [audit EXCEPT ![k] = <<st>>]
LoggedNot(k, st) == audit
Logged(k, st) == [audit EXCEPT ![k] = Append(@, st)]

\* The UNIQUE payment_id refuses a second payout.  Mutant: it does not.
DueTwice(i, k) == i \in Shared
PayoutDue(i, k) == i \in Shared /\ payouts[k] = 0

\* What a handler loads and keeps: its invoice, or a payment and that payment's invoice.
InvoiceJob(op, i, k, a) ==
  [op |-> op, inv |-> i, key |-> k, amount |-> a, seen |-> invoice[i].status]
PaymentJob(op, k) == InvoiceJob(op, payments[k].inv, k, payments[k].amount)

InFlight(s) == {h \in Handlers : job[h].op = "webhook" /\ job[h].key = s}

-----------------------------------------------------------------------------
Init ==
  /\ invoice \in [Invoices -> [total : Totals, status : {"issued"}]]
  /\ credited = [i \in Invoices |-> 0]
  /\ notes = [i \in Invoices |-> 0]
  /\ payments = [k \in PayIds |-> NoRow]
  /\ refunds = [k \in PayIds |-> 0]
  /\ audit = [k \in PayIds |-> <<>>]
  /\ ledger = <<>>
  /\ payouts = [k \in PayIds |-> 0]
  /\ pastDue = {}
  /\ outcome = [s \in Sessions |-> "none"]
  /\ acked = {}
  /\ pc = [h \in Handlers |-> "idle"]
  /\ job = [h \in Handlers |-> NoJob]
  /\ sums = [h \in Handlers |-> NoSums]
  /\ fails = 0

\* Handler h starts with the snapshot j; its next statement is p.
Start(h, p, j) ==
  /\ pc[h] = "idle"
  /\ pc' = [pc EXCEPT ![h] = p]
  /\ job' = [job EXCEPT ![h] = j]
  /\ UNCHANGED <<sums, acked>>

Step(h, from, to) ==
  /\ pc[h] = from
  /\ pc' = [pc EXCEPT ![h] = to]
  /\ UNCHANGED <<job, sums, acked>>

\* The request is answered; a webhook's success answer is the gateway's acknowledgement.
Finish(h) ==
  /\ pc' = [pc EXCEPT ![h] = "idle"]
  /\ job' = [job EXCEPT ![h] = NoJob]
  /\ sums' = [sums EXCEPT ![h] = NoSums]
  /\ acked' = IF job[h].op = "webhook" THEN acked \union {job[h].key} ELSE acked

\* After recomputeInvoiceStatus: only a new or newly settled payment goes on to a payout.
AfterRecompute(h) ==
  IF job[h].op \in {"record", "webhook"}
  THEN /\ pc' = [pc EXCEPT ![h] = "payout"]
       /\ UNCHANGED <<job, sums, acked>>
  ELSE Finish(h)

-----------------------------------------------------------------------------
(* createCreditNote *)

StartNote(h, i, a) ==
  /\ notes[i] < MaxNotes
  /\ Start(h, "insertNote", InvoiceJob("note", i, None, a))
  /\ UNCHANGED <<rows, pastDue, outcome, fails>>

InsertNote(h) ==
  LET i == job[h].inv IN
  /\ Step(h, "insertNote", "sums")
  /\ credited' = [credited EXCEPT ![i] = @ + job[h].amount]
  /\ notes' = [notes EXCEPT ![i] = @ + 1]
  /\ UNCHANGED <<invoice, payments, refunds, audit, ledger, payouts, pastDue, outcome, fails>>

-----------------------------------------------------------------------------
(* recordPayment.  A key the table already holds is answered with the row  *)
(* it names and changes nothing, so only a new key starts a handler.  The  *)
(* lookup and the load of the invoice are one step: a key that appears     *)
(* between them makes the insert fail, which changes nothing either.       *)

StartRecord(h, i, k, a) ==
  /\ payments[k].status = "none"
  /\ Start(h, "insertPayment", InvoiceJob("record", i, k, a))
  /\ UNCHANGED <<rows, pastDue, outcome, fails>>

\* The UNIQUE idempotency_key refuses a second row; the request then ends in an error.
InsertPayment(h) ==
  LET k == job[h].key IN
  /\ pc[h] = "insertPayment"
  /\ \/ /\ payments[k].status = "none"
        /\ payments' = [payments EXCEPT ![k] =
             [status |-> "confirmed", inv |-> job[h].inv, amount |-> job[h].amount]]
        /\ Step(h, "insertPayment", "sums")
     \/ /\ payments[k].status # "none"
        /\ Finish(h)
        /\ UNCHANGED payments
  /\ UNCHANGED <<invoice, credited, notes, refunds, audit, ledger, payouts, pastDue, outcome, fails>>

-----------------------------------------------------------------------------
(* initiateGatewayPayment.  The payer gets the checkout URL in the answer, *)
(* after the row is saved, so opening the session and saving are one step. *)

\* The guard keeps a fresh session id for every handler that will need one.
StartInitiate(h, i) ==
  /\ Cardinality({s \in Sessions : payments[s].status = "none"})
       > Cardinality({g \in Handlers : job[g].op = "initiate"})
  /\ Start(h, "sums", InvoiceJob("initiate", i, None, 0))
  /\ UNCHANGED <<rows, pastDue, outcome, fails>>

AmountDue(h) == Rounded(AtLeastZero(sums[h].net - sums[h].paid))

OpenSession(h, s) ==
  /\ pc[h] = "sums" /\ job[h].op = "initiate"
  /\ Unread \notin {sums[h].net, sums[h].paid}
  /\ payments[s].status = "none"
  /\ payments' = [payments EXCEPT ![s] =
       [status |-> "pending", inv |-> job[h].inv, amount |-> AmountDue(h)]]
  /\ Finish(h)
  /\ UNCHANGED <<invoice, credited, notes, refunds, audit, ledger, payouts, pastDue, outcome, fails>>

-----------------------------------------------------------------------------
(* The gateway, and confirmGatewayWebhook.  The gateway decides a session  *)
(* once and repeats the webhook until it is acknowledged; after a timeout  *)
(* it may repeat it while the first delivery is still being processed.  A  *)
(* repetition after the acknowledgement finds a row that is not pending.   *)

GatewayDecides(s, o) ==
  /\ payments[s].status = "pending" /\ outcome[s] = "none"
  /\ outcome' = [outcome EXCEPT ![s] = o]
  /\ UNCHANGED <<rows, pastDue, acked, local, fails>>

\* Mutant: the webhook is acknowledged on receipt.
DeliverAckFirst(h, s) ==
  /\ pc[h] = "idle"
  /\ outcome[s] # "none" /\ s \notin acked /\ payments[s].status = "pending"
  /\ pc' = [pc EXCEPT ![h] = "settle"]
  /\ job' = [job EXCEPT ![h] = PaymentJob("webhook", s)]
  /\ acked' = acked \union {s}
  /\ UNCHANGED <<rows, pastDue, outcome, sums, fails>>

DeliverWebhook(h, s) ==
  /\ pc[h] = "idle"
  /\ outcome[s] # "none" /\ s \notin acked
  /\ Cardinality(InFlight(s)) < MaxInFlight
  /\ \/ /\ ~AlreadyReconciled(s)
        /\ Start(h, "settle", PaymentJob("webhook", s))
     \/ /\ AlreadyReconciled(s)     \* acknowledged, nothing done
        /\ acked' = acked \union {s}
        /\ UNCHANGED local
  /\ UNCHANGED <<rows, pastDue, outcome, fails>>

\* The row read earlier is written back with its new status, whatever it says by now.
SettlePayment(h) ==
  /\ Step(h, "settle", "auditSettle")
  /\ payments' = [payments EXCEPT ![job[h].key].status = Reported(job[h].key)]
  /\ UNCHANGED <<invoice, credited, notes, refunds, audit, ledger, payouts, pastDue, outcome, fails>>

AuditSettle(h) ==
  LET to == Reported(job[h].key) IN
  /\ pc[h] = "auditSettle"
  /\ audit' = Logged(job[h].key, to)
  /\ IF to = "confirmed" THEN Step(h, "auditSettle", "sums") ELSE Finish(h)
  /\ UNCHANGED <<invoice, credited, notes, payments, refunds, ledger, payouts, pastDue, outcome, fails>>

-----------------------------------------------------------------------------
(* refundPayment *)

\* Mutant: the refund row is forgotten.
StartRefundUnbacked(h, k) ==
  /\ payments[k].status = "confirmed" /\ refunds[k] < MaxRefunds
  /\ Start(h, "markRefunded", PaymentJob("refund", k))
  /\ UNCHANGED <<rows, pastDue, outcome, fails>>

StartRefund(h, k) ==
  /\ payments[k].status = "confirmed"      \* otherwise 409 PAYMENT_NOT_REFUNDABLE
  /\ refunds[k] < MaxRefunds
  /\ Start(h, "insertRefund", PaymentJob("refund", k))
  /\ UNCHANGED <<rows, pastDue, outcome, fails>>

InsertRefund(h) ==
  LET k == job[h].key IN
  /\ Step(h, "insertRefund", "markRefunded")
  /\ refunds' = [refunds EXCEPT ![k] = @ + 1]
  /\ UNCHANGED <<invoice, credited, notes, payments, audit, ledger, payouts, pastDue, outcome, fails>>

MarkRefunded(h) ==
  /\ Step(h, "markRefunded", "auditRefund")
  /\ payments' = [payments EXCEPT ![job[h].key].status = "refunded"]
  /\ UNCHANGED <<invoice, credited, notes, refunds, audit, ledger, payouts, pastDue, outcome, fails>>

\* Mutant: no recomputation after a refund.
AuditRefundLast(h) ==
  /\ pc[h] = "auditRefund"
  /\ audit' = Logged(job[h].key, "refunded")
  /\ Finish(h)
  /\ UNCHANGED <<invoice, credited, notes, payments, refunds, ledger, payouts, pastDue, outcome, fails>>

AuditRefund(h) ==
  /\ Step(h, "auditRefund", "sums")
  /\ audit' = Logged(job[h].key, "refunded")
  /\ UNCHANGED <<invoice, credited, notes, payments, refunds, ledger, payouts, pastDue, outcome, fails>>

-----------------------------------------------------------------------------
(* getFinancials: two queries sent together, answered in either order. *)

ReadNotes(h) ==
  /\ pc[h] = "sums" /\ sums[h].net = Unread
  /\ \E n \in NetTotals(job[h].inv) : sums' = [sums EXCEPT ![h].net = n]
  /\ UNCHANGED <<rows, pastDue, outcome, acked, pc, job, fails>>

ReadPayments(h) ==
  /\ pc[h] = "sums" /\ sums[h].paid = Unread
  /\ \E n \in PaidTotals(job[h].inv) : sums' = [sums EXCEPT ![h].paid = n]
  /\ UNCHANGED <<rows, pastDue, outcome, acked, pc, job, fails>>

(* recomputeInvoiceStatus: the new status is compared with the one in the  *)
(* handler's copy of the invoice and, if it differs, written to the row.   *)

SaveStatus(h) ==
  LET i == job[h].inv
      new == StatusFor(sums[h].net, sums[h].paid, i \in pastDue)
  IN
  /\ pc[h] = "sums" /\ job[h].op # "initiate"
  /\ Unread \notin {sums[h].net, sums[h].paid}
  /\ invoice' = IF job[h].seen # new THEN [invoice EXCEPT ![i].status = new] ELSE invoice
  /\ IF sums[h].paid > sums[h].net THEN Step(h, "sums", "credit") ELSE AfterRecompute(h)
  /\ UNCHANGED <<credited, notes, payments, refunds, audit, ledger, payouts, pastDue, outcome, fails>>

\* Rounded, unlike the comparison before it: an excess that is all error is an entry of 0.00.
Overpay(h) == Rounded(sums[h].paid - sums[h].net)

CheckCredit(h) ==
  /\ pc[h] = "credit"
  /\ IF AlreadyCredited(job[h].inv, Overpay(h))
     THEN AfterRecompute(h)
     ELSE Step(h, "credit", "grant")
  /\ UNCHANGED <<rows, pastDue, outcome, fails>>

GrantCredit(h) ==
  /\ pc[h] = "grant"
  /\ ledger' = Append(ledger, [inv |-> job[h].inv, amount |-> Overpay(h)])
  /\ AfterRecompute(h)
  /\ UNCHANGED <<invoice, credited, notes, payments, refunds, audit, payouts, pastDue, outcome, fails>>

\* generatePayoutIfApplicable: the refusal of a second row is swallowed.
GeneratePayout(h) ==
  LET k == job[h].key IN
  /\ pc[h] = "payout"
  /\ payouts' = IF PayoutDue(job[h].inv, k) THEN [payouts EXCEPT ![k] = @ + 1] ELSE payouts
  /\ Finish(h)
  /\ UNCHANGED <<invoice, credited, notes, payments, refunds, audit, ledger, pastDue, outcome, fails>>

-----------------------------------------------------------------------------
(* A request dies half-way: a failed statement, a lost connection, a crash. *)
Fail(h) ==
  /\ pc[h] # "idle" /\ fails < MaxFails
  /\ pc' = [pc EXCEPT ![h] = "idle"]
  /\ job' = [job EXCEPT ![h] = NoJob]
  /\ sums' = [sums EXCEPT ![h] = NoSums]
  /\ fails' = fails + 1
  /\ UNCHANGED <<rows, pastDue, outcome, acked>>

DueDatePasses(i) ==
  /\ i \notin pastDue
  /\ pastDue' = pastDue \union {i}
  /\ UNCHANGED <<rows, outcome, acked, local, fails>>

\* The next statement of a request in progress.
Continue(h) ==
  \/ InsertNote(h) \/ InsertPayment(h)
  \/ \E s \in Sessions : OpenSession(h, s)
  \/ SettlePayment(h) \/ AuditSettle(h)
  \/ InsertRefund(h) \/ MarkRefunded(h) \/ AuditRefund(h)
  \/ ReadNotes(h) \/ ReadPayments(h) \/ SaveStatus(h)
  \/ CheckCredit(h) \/ GrantCredit(h) \/ GeneratePayout(h)

\* A new request.
Arrive(h) ==
  \/ \E i \in Invoices, a \in Amounts : StartNote(h, i, a)
  \/ \E i \in Invoices, k \in Keys, a \in Amounts : StartRecord(h, i, k, a)
  \/ \E i \in Invoices : StartInitiate(h, i)
  \/ \E k \in PayIds : StartRefund(h, k)

Next ==
  \/ \E h \in Handlers : Arrive(h) \/ Continue(h) \/ Fail(h)
  \/ \E h \in Handlers, s \in Sessions : DeliverWebhook(h, s)
  \/ \E s \in Sessions, o \in {"succeeded", "failed"} : GatewayDecides(s, o)
  \/ \E i \in Invoices : DueDatePasses(i)

Spec == Init /\ [][Next]_vars

(* The server works on every request it has accepted, and the gateway      *)
(* repeats a webhook until it is acknowledged.  Clients promise nothing.   *)
Fairness ==
  /\ \A h \in Handlers : WF_vars(Continue(h))
  /\ \A s \in Sessions : WF_vars(\E h \in Handlers : DeliverWebhook(h, s))

FairSpec == Spec /\ Fairness
-----------------------------------------------------------------------------
(* Properties. *)

JobType == [op : Ops, inv : Invoices \union {None}, key : PayIds \union {None},
            amount : 0..MaxAmount, seen : InvoiceStatus]

RowsTypeOK ==
  /\ invoice \in [Invoices -> [total : 0..MaxAmount, status : InvoiceStatus]]
  /\ credited \in [Invoices -> Nat] /\ notes \in [Invoices -> Nat]
  /\ payments \in [PayIds -> [status : PaymentStatus, inv : Invoices \union {None},
                              amount : 0..MaxAmount]]
  /\ refunds \in [PayIds -> Nat] /\ payouts \in [PayIds -> Nat]
  /\ audit \in [PayIds -> Seq(PaymentStatus)]
  /\ ledger \in Seq([inv : Invoices, amount : Nat])
  /\ pastDue \subseteq Invoices
  /\ outcome \in [Sessions -> {"none", "succeeded", "failed"}]
  /\ fails \in 0..MaxFails

LocalTypeOK ==
  /\ acked \subseteq Sessions
  /\ pc \in [Handlers -> PCs]
  /\ job \in [Handlers -> JobType]
  /\ sums \in [Handlers -> [net : Unread..(Grain * MaxAmount + 1), paid : Nat \union {Unread}]]

\* Every row and every handler's memory is well formed; in particular no amount is negative,
\* though a gateway payment's amount and a credit are differences of sums read at other times.
TypeOK == RowsTypeOK /\ LocalTypeOK

Received == {"confirmed", "refunded"}   \* money came in, at least for a while

\* A gateway payment is confirmed (and perhaps refunded later) only if the gateway reported
\* success for its session, and failed only if it reported failure, however webhooks,
\* refunds and failures interleave (confirmGatewayWebhook).
GatewayTruth ==
  \A s \in Sessions :
    /\ payments[s].status \in Received => outcome[s] = "succeeded"
    /\ payments[s].status = "failed" => outcome[s] = "failed"

\* No payment is marked refunded without a refund row that says who gave the money back and
\* why, even if the request dies between its statements (refundPayment writes the row first).
RefundBacked == \A k \in PayIds : payments[k].status = "refunded" => refunds[k] > 0

\* A teacher's payout exists at most once per payment, only for an institute's invoice, and only
\* if the money was received, however often the webhook is repeated (generatePayoutIfApplicable).
PayoutBacked ==
  \A k \in PayIds : payouts[k] > 0 =>
    payouts[k] = 1 /\ payments[k].inv \in Shared /\ payments[k].status \in Received

\* However stale the sums it was derived from, an invoice's status is never invented: paid and
\* partial need money received for this invoice, overdue needs a due date that has passed
\* (recomputeInvoiceStatus).
StatusBacked ==
  \A i \in Invoices :
    /\ invoice[i].status \in {"paid", "partial"} =>
         \E k \in PayIds : payments[k].inv = i /\ payments[k].status \in Received
    /\ invoice[i].status = "overdue" => i \in pastDue

\* What a handler holds in memory fits the statement it is about to execute, and the rows it
\* has already written or checked are still as it left them.
HandlerOK(h) ==
  LET p == pc[h]
      j == job[h]
  IN
  /\ p = "idle" <=> j.op = "none"
  /\ p = "idle" => sums[h] = NoSums
  /\ p # "idle" => j.inv \in Invoices
  /\ p = "insertNote" => j.op = "note"
  /\ p = "insertPayment" => j.op = "record"
  /\ p \in {"settle", "auditSettle"} => j.op = "webhook"
  /\ p \in {"insertRefund", "markRefunded", "auditRefund"} => j.op = "refund"
  /\ p \in {"credit", "grant"} => sums[h].net # Unread /\ sums[h].paid > sums[h].net
  /\ p = "payout" => j.op \in {"record", "webhook"}
  /\ j.op = "record" => j.key \in Keys
  /\ j.op = "webhook" => j.key \in Sessions
  /\ j.op = "refund" => j.key \in PayIds

TargetOK(h) == job[h].op \in {"webhook", "refund"} => payments[job[h].key].status # "none"

WorkOK(h) ==
  LET p == pc[h]
      j == job[h]
      row == payments[j.key]
  IN
  /\ j.op = "record" /\ p # "insertPayment" => row.inv = j.inv /\ row.status \in Received
  /\ j.op = "webhook" =>
       /\ row.inv = j.inv /\ outcome[j.key] # "none"
       /\ p # "settle" /\ outcome[j.key] = "succeeded" => row.status \in Received
       /\ p \notin {"settle", "auditSettle"} => row.status \in Received
  /\ j.op = "refund" =>
       /\ row.inv = j.inv /\ row.status \in Received
       /\ p # "insertRefund" => refunds[j.key] > 0
  /\ sums[h].paid > 0 =>
       \E k \in PayIds : payments[k].inv = j.inv /\ payments[k].status \in Received

RowOK(k) ==
  /\ payments[k].status # "none" => payments[k].inv \in Invoices
  /\ k \in Keys => payments[k].status \in {"none"} \union Received

\* The inductive invariant behind the properties above.
TypeInv ==
  /\ TypeOK
  /\ \A h \in Handlers : HandlerOK(h) /\ TargetOK(h)
  /\ \A k \in PayIds : RowOK(k)
MoneyInv ==
  /\ \A h \in Handlers : WorkOK(h)
  /\ GatewayTruth /\ RefundBacked /\ PayoutBacked /\ StatusBacked
IInv == TypeInv /\ MoneyInv

Extends(new, old) == Len(new) >= Len(old) /\ SubSeq(new, 1, Len(old)) = old

InvoiceHistoryKept(i) ==
  /\ invoice'[i].total = invoice[i].total
  /\ credited'[i] >= credited[i]

PaymentHistoryKept(k) ==
  /\ payments[k].status # "none" =>
       /\ payments'[k].status # "none"
       /\ payments'[k].inv = payments[k].inv
       /\ payments'[k].amount = payments[k].amount
  /\ refunds'[k] >= refunds[k] /\ payouts'[k] >= payouts[k]
  /\ Extends(audit'[k], audit[k])

\* What may never happen to what was written: an invoice's total and a payment's invoice and
\* amount are fixed, and refunds, audit rows, credits, notes and payouts are never removed or
\* rewritten ("IMMUTABLE once created", invoice.entity.ts; "append-only", the ledger's entity).
HistoryKept ==
  [][/\ \A i \in Invoices : InvoiceHistoryKept(i)
     /\ \A k \in PayIds : PaymentHistoryKept(k)
     /\ Extends(ledger', ledger)]_vars

\* With deliveries of a session that do not overlap, the status column follows its life cycle.
Lifecycle == INSTANCE PaymentLifecycle WITH status <- [k \in PayIds |-> payments[k].status]
ImplementsLifecycle == Lifecycle!LSpec

Idle == \A h \in Handlers : pc[h] = "idle"

\* The stored status is one the rows call for, up to the error of adding them up: an invoice
\* fully paid in several payments may say "partial".  A due date that passes with no request
\* touching the invoice may leave "issued" behind.
Agrees(i) ==
  \E late \in BOOLEAN, n \in NetTotals(i), p \in PaidTotals(i) :
    /\ late => i \in pastDue
    /\ invoice[i].status = StatusFor(n, p, late)

\* One request at a time: the stored status agrees with the rows after every request, and a
\* recomputation restores it after a request that died half-way (recomputeInvoiceStatus).
\* Paid means paid in full and partial means something is missing, except that where several
\* amounts are added up and the sums are equal either may be stored.
StatusAgrees ==
  /\ Idle /\ fails = 0 => \A i \in Invoices : Agrees(i)
  /\ \A h \in Handlers : pc[h] \in {"credit", "grant", "payout"} => Agrees(job[h].inv)

\* One request at a time: the same overpayment is never credited twice, even when a request
\* dies between the credit and its answer and another one follows (alreadyCredited).
NoDuplicateCredit ==
  \A m, n \in 1..Len(ledger) : ledger[m] = ledger[n] => m = n

\* The audit rows a payment of this status should have ("every status transition",
\* payment-audit-log.entity.ts).
ExpectedAudit(k) ==
  (IF k \in Sessions /\ payments[k].status \in Received THEN <<"confirmed">> ELSE <<>>)
    \o (IF payments[k].status \in {"failed", "refunded"} THEN <<payments[k].status>> ELSE <<>>)

AuditExact == \A k \in PayIds : audit[k] = ExpectedAudit(k)

\* One request at a time, none of which dies: every payment's audit rows tell its whole history.
AuditComplete == Idle /\ fails = 0 => AuditExact

\* A session the gateway settled is reconciled, even if some deliveries die half-way: the
\* webhook is repeated until it is acknowledged ("never left stuck", docs/01 1.5).
SettledIsReconciled ==
  \A s \in Sessions : outcome[s] # "none" ~> payments[s].status \notin {"none", "pending"}

-----------------------------------------------------------------------------
(* Statements of comments and documents that the code does not live up to. *)

\* "already reconciled - idempotent no-op" (fees.service.ts:650): a repeated webhook does not
\* touch a payment that is no longer pending.
ReconciledIsFinal ==
  [][\A s \in Sessions : payments[s].status \in {"failed", "refunded"}
                           => payments'[s].status = payments[s].status]_vars

\* "one row per CONFIRMED payment" (docs/07-roadmap.md:477), a "retried webhook after a partial
\* earlier failure" included (fees.service.ts:1071): the payout of a received gateway payment
\* of an institute's invoice is generated in the end.
ConfirmedGetsPayout ==
  \A s \in Sessions :
    payments[s].status = "confirmed" /\ payments[s].inv \in Shared ~> payouts[s] > 0
=============================================================================
