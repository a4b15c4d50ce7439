--------------------------- MODULE PaymentsProofs ---------------------------
(***************************************************************************)
(* Theorems about module Payments for every set of handlers, invoices,     *)
(* keys and sessions, every bound and every number of failures: first its  *)
(* types, then its money and its history; its life cycle, when deliveries  *)
(* do not overlap; and what holds of one request at a time.                *)
(***************************************************************************)
EXTENDS Payments, FiniteSetTheorems, TLAPS

-----------------------------------------------------------------------------
(* The sums that getFinancials computes. *)

LEMMA UnitsFinite ==
  ASSUME NEW S \in SUBSET PayIds
  PROVE  IsFiniteSet(Units(S))
<1>1. IsFiniteSet(PayIds)
  BY PaymentsAssumption, FS_Union DEF PayIds
<1>2. IsFiniteSet(S)
  BY <1>1, FS_Subset
<1>3. IsFiniteSet(1..MaxAmount)
  BY PaymentsAssumption, FS_Interval
<1>4. IsFiniteSet(S \X (1..MaxAmount))
  BY <1>2, <1>3, FS_Product
<1> QED
  BY <1>4, FS_Subset DEF Units

\* Every sum of confirmed payments is a natural number of grains: the error cannot take it below
\* zero, since a sum of several positive amounts is not zero.
LEMMA PaidTotalsType ==
  ASSUME TypeOK, NEW i, NEW p \in PaidTotals(i)
  PROVE  p \in Nat
<1> DEFINE K == ConfirmedOf(i)
           P == {k \in K : payments[k].amount > 0}
           n == Cardinality(Units(K))
<1>1. K \in SUBSET PayIds
  BY DEF ConfirmedOf
<1>2. IsFiniteSet(Units(K)) /\ n \in Nat
  BY <1>1, UnitsFinite, FS_CardinalityType
<1>3. CASE n = 0
  <2>1. Units(K) = {}
    BY <1>2, <1>3, FS_EmptySet
  <2>2. ASSUME NEW k \in K, payments[k].amount > 0 PROVE FALSE
    <3>1. 1 \in 1..MaxAmount /\ 1 <= payments[k].amount
      BY <1>1, <2>2, PaymentsAssumption DEF TypeOK, RowsTypeOK
    <3>2. <<k, 1>> \in Units(K)
      BY <1>1, <2>2, <3>1 DEF Units
    <3> QED
      BY <2>1, <3>2
  <2>3. P = {}
    BY <2>2
  <2>4. Cardinality(P) = 0
    BY <2>3, FS_EmptySet
  <2> HIDE DEF P, n
  <2> QED
    BY <1>3, <2>4 DEF PaidTotals, FloatSums, Grain, P, n
<1>4. CASE n # 0
  <2> HIDE DEF n
  <2> QED
    BY <1>2, <1>4 DEF PaidTotals, FloatSums, Grain, n
<1> QED
  BY <1>3, <1>4

LEMMA NetTotalsType ==
  ASSUME TypeOK, NEW i \in Invoices, NEW n \in NetTotals(i)
  PROVE  n \in 0..(Grain * MaxAmount + 1)
<1>1. invoice[i].total \in 0..MaxAmount /\ credited[i] \in Nat
  BY DEF TypeOK, RowsTypeOK
<1> DEFINE d == invoice[i].total - credited[i]
<1>2. d \in Int /\ d <= MaxAmount /\ MaxAmount \in Nat
  BY <1>1, PaymentsAssumption
<1> HIDE DEF d
<1>3. PICK x \in Grain * d - 1 .. Grain * d + 1 : n = AtLeastZero(x)
  BY <1>2 DEF NetTotals, FloatSums, d, Grain
<1> QED
  BY <1>2, <1>3 DEF AtLeastZero, Grain

\* Only a payment that counts makes the sum positive.
LEMMA PaidTotalsPositive ==
  ASSUME NEW i, NEW p \in PaidTotals(i), p > 0
  PROVE  \E k \in PayIds : payments[k].inv = i /\ payments[k].status = "confirmed"
<1> SUFFICES ASSUME ConfirmedOf(i) = {}
             PROVE  FALSE
  BY DEF ConfirmedOf
<1>1. Units({}) = {}
  BY DEF Units
<1>2. {k \in {} : payments[k].amount > 0} = {}
  OBVIOUS
<1>3. PaidTotals(i) = {0}
  BY <1>1, <1>2, FS_EmptySet DEF PaidTotals, FloatSums, Grain
<1> QED
  BY <1>3

\* There is always something that adding up gives.
LEMMA TotalsExist ==
  ASSUME NEW i, invoice[i].total - credited[i] \in Int
  PROVE  (\E n \in NetTotals(i) : TRUE) /\ (\E p \in PaidTotals(i) : TRUE)
<1>1. Cardinality(Units(ConfirmedOf(i))) \in Nat
  BY UnitsFinite, FS_CardinalityType DEF ConfirmedOf
<1>2. \A n \in Int : \A e : Grain * n \in FloatSums(n, e)
  BY DEF FloatSums, Grain
<1>3. \E p \in PaidTotals(i) : TRUE
  BY <1>1, <1>2 DEF PaidTotals
<1>4. \E n \in NetTotals(i) : TRUE
  BY <1>2 DEF NetTotals
<1> QED
  BY <1>3, <1>4

-----------------------------------------------------------------------------
(* Type correctness.  TypeOK alone is not inductive: that a credit is      *)
(* positive, or that a payment names an invoice, follows from what the     *)
(* handler checked at an earlier statement (HandlerOK), and that two       *)
(* handlers of one payment do not disturb each other from RowOK.           *)

LEMMA TypeInit == Init => TypeInv
<1> SUFFICES ASSUME Init PROVE TypeInv
  OBVIOUS
<1>1. TypeOK
  <2>1. invoice \in [Invoices -> [total : 0..MaxAmount, status : InvoiceStatus]]
    BY PaymentsAssumption DEF Init, InvoiceStatus
  <2>2. NoRow \in [status : PaymentStatus, inv : Invoices \union {None}, amount : 0..MaxAmount]
    BY PaymentsAssumption DEF NoRow, PaymentStatus
  <2>3. NoJob \in JobType
    BY PaymentsAssumption DEF NoJob, JobType, Ops, InvoiceStatus
  <2>4. NoSums \in [net : Unread..(Grain * MaxAmount + 1), paid : Nat \union {Unread}]
    BY PaymentsAssumption DEF NoSums, Unread, Grain
  <2>5. <<>> \in Seq(PaymentStatus) /\ <<>> \in Seq([inv : Invoices, amount : Nat])
    OBVIOUS
  <2> QED
    BY <2>1, <2>2, <2>3, <2>4, <2>5, PaymentsAssumption DEF Init, TypeOK, RowsTypeOK, LocalTypeOK, PCs
<1>2. \A h \in Handlers : HandlerOK(h) /\ TargetOK(h)
  BY DEF Init, HandlerOK, TargetOK, NoJob
<1>3. \A k \in PayIds : RowOK(k)
  BY DEF Init, RowOK, NoRow
<1> QED
  BY <1>1, <1>2, <1>3 DEF TypeInv

(* What the local state of the handlers owes to one step of handler h. *)

LocalInv == LocalTypeOK /\ \A g \in Handlers : HandlerOK(g)

\* Only h's own memory matters to HandlerOK(h).
LEMMA OneHandler ==
  ASSUME TypeInv, NEW h \in Handlers, LocalTypeOK', HandlerOK(h)',
         \A g \in Handlers \ {h} :
           pc'[g] = pc[g] /\ job'[g] = job[g] /\ sums'[g] = sums[g]
  PROVE  LocalInv'
<1>1. ASSUME NEW g \in Handlers \ {h}
      PROVE  HandlerOK(g)'
  BY <1>1 DEF TypeInv, HandlerOK
<1> QED
  BY <1>1 DEF LocalInv

LEMMA NoHandler ==
  ASSUME TypeInv, UNCHANGED <<acked, pc, job, sums>>
  PROVE  LocalInv'
BY DEF TypeInv, TypeOK, LocalTypeOK, LocalInv, HandlerOK

\* A request that takes a snapshot j and names its first statement p.
LEMMA StartLocal ==
  ASSUME TypeInv, NEW h \in Handlers, NEW p \in PCs \ {"idle"}, NEW j \in JobType,
         Start(h, p, j),
         j.inv \in Invoices,
         \/ p = "insertNote" /\ j.op = "note"
         \/ p = "insertPayment" /\ j.op = "record" /\ j.key \in Keys
         \/ p = "sums" /\ j.op = "initiate"
         \/ p = "insertRefund" /\ j.op = "refund" /\ j.key \in PayIds
         \/ p = "settle" /\ j.op = "webhook" /\ j.key \in Sessions
  PROVE  LocalInv'
<1>1. LocalTypeOK'
  BY DEF TypeInv, TypeOK, LocalTypeOK, Start
<1>2. HandlerOK(h)'
  BY DEF TypeInv, TypeOK, LocalTypeOK, HandlerOK, Start, PCs
<1> QED
  BY <1>1, <1>2, OneHandler DEF TypeInv, TypeOK, LocalTypeOK, Start

LEMMA StepLocal ==
  ASSUME TypeInv, NEW h \in Handlers,
         NEW from \in PCs \ {"idle"}, NEW to \in PCs \ {"idle"},
         Step(h, from, to),
         to # "insertNote" /\ to # "insertPayment" /\ to # "settle" /\ to # "insertRefund",
         to = "auditSettle" => from = "settle",
         to = "markRefunded" => from = "insertRefund",
         to = "auditRefund" => from = "markRefunded",
         to \in {"credit", "grant"} => sums[h].net # Unread /\ sums[h].paid > sums[h].net,
         to = "payout" => job[h].op \in {"record", "webhook"}
  PROVE  LocalInv'
<1>1. LocalTypeOK'
  BY DEF TypeInv, TypeOK, LocalTypeOK, Step
<1>2. HandlerOK(h)'
  BY DEF TypeInv, TypeOK, LocalTypeOK, HandlerOK, Step
<1> QED
  BY <1>1, <1>2, OneHandler DEF TypeInv, TypeOK, LocalTypeOK, Step

LEMMA FinishLocal ==
  ASSUME TypeInv, NEW h \in Handlers,
         pc' = [pc EXCEPT ![h] = "idle"],
         job' = [job EXCEPT ![h] = NoJob],
         sums' = [sums EXCEPT ![h] = NoSums],
         acked' \subseteq Sessions
  PROVE  LocalInv'
<1>1. NoJob \in JobType /\ NoSums \in [net : Unread..(Grain * MaxAmount + 1), paid : Nat \union {Unread}]
  BY PaymentsAssumption DEF NoJob, NoSums, Unread, Grain, JobType, Ops, InvoiceStatus
<1>2. LocalTypeOK'
  BY <1>1 DEF TypeInv, TypeOK, LocalTypeOK, PCs
<1>3. HandlerOK(h)'
  BY <1>1 DEF TypeInv, TypeOK, LocalTypeOK, HandlerOK, NoJob
<1> QED
  BY <1>2, <1>3, OneHandler DEF TypeInv, TypeOK, LocalTypeOK

LEMMA AckType ==
  ASSUME TypeInv, NEW h \in Handlers, Finish(h)
  PROVE  acked' \subseteq Sessions
BY DEF TypeInv, TypeOK, LocalTypeOK, HandlerOK, Finish

LEMMA AfterRecomputeLocal ==
  ASSUME TypeInv, NEW h \in Handlers, pc[h] # "idle", AfterRecompute(h)
  PROVE  LocalInv'
<1>1. CASE job[h].op \in {"record", "webhook"}
  <2>1. pc[h] \in PCs \ {"idle"} /\ "payout" \in PCs \ {"idle"}
    BY DEF TypeInv, TypeOK, LocalTypeOK, PCs
  <2>2. Step(h, pc[h], "payout")
    BY <1>1 DEF AfterRecompute, Step
  <2> QED
    BY <1>1, <2>1, <2>2, StepLocal
<1>2. CASE job[h].op \notin {"record", "webhook"}
  BY <1>2, AckType, FinishLocal DEF AfterRecompute, Finish
<1> QED
  BY <1>1, <1>2

RowsInv == RowsTypeOK /\ \A k \in PayIds : RowOK(k)

TargetInv == \A g \in Handlers : TargetOK(g)

LEMMA TypeInvParts == TypeInv <=> RowsInv /\ LocalInv /\ TargetInv
BY DEF TypeInv, TypeOK, RowsInv, LocalInv, TargetInv

LEMMA RowsInvSame ==
  ASSUME RowsInv, UNCHANGED <<rows, pastDue, outcome, fails>>
  PROVE  RowsInv'
BY DEF RowsInv, RowsTypeOK, RowOK, rows

\* No statement deletes a payment, and a handler keeps its payment until it ends.
LEMMA TargetKept ==
  ASSUME TargetInv, LocalInv,
         \A k \in PayIds : payments[k].status # "none" => payments'[k].status # "none",
         \A g \in Handlers : job'[g] = job[g] \/ job'[g].op \notin {"webhook", "refund"}
  PROVE  TargetInv'
BY DEF TargetInv, TargetOK, LocalInv, HandlerOK, PayIds

PaymentRow == [status : PaymentStatus, inv : Invoices \union {None}, amount : 0..MaxAmount]

LEMMA SetStatus ==
  ASSUME RowsInv, NEW k \in PayIds, NEW st \in PaymentStatus \ {"none"},
         payments[k].status # "none", k \in Keys => st \in Received
  PROVE  LET p == [payments EXCEPT ![k].status = st] IN
         /\ p \in [PayIds -> PaymentRow]
         /\ \A l \in PayIds : /\ p[l].status # "none" => p[l].inv \in Invoices
                              /\ l \in Keys => p[l].status \in {"none"} \union Received
                              /\ payments[l].status # "none" => p[l].status # "none"
                              /\ p[l].inv = payments[l].inv /\ p[l].amount = payments[l].amount
                              /\ p[l].status = IF l = k THEN st ELSE payments[l].status
BY DEF RowsInv, RowsTypeOK, RowOK, PaymentRow

LEMMA AddRow ==
  ASSUME RowsInv, NEW k \in PayIds, NEW row \in PaymentRow,
         row.status # "none", row.inv \in Invoices, k \in Keys => row.status \in Received
  PROVE  LET p == [payments EXCEPT ![k] = row] IN
         /\ p \in [PayIds -> PaymentRow]
         /\ \A l \in PayIds : /\ p[l].status # "none" => p[l].inv \in Invoices
                              /\ l \in Keys => p[l].status \in {"none"} \union Received
                              /\ payments[l].status # "none" => p[l].status # "none"
BY DEF RowsInv, RowsTypeOK, RowOK, PaymentRow

LEMMA StartTarget ==
  ASSUME TypeInv, NEW h \in Handlers, NEW p, NEW j \in JobType,
         Start(h, p, j), UNCHANGED payments,
         j.op \in {"webhook", "refund"} => payments[j.key].status # "none"
  PROVE  TargetInv'
BY DEF TypeInv, TypeOK, LocalTypeOK, TargetInv, TargetOK, Start

LEMMA ArriveType ==
  ASSUME TypeInv, NEW h \in Handlers, Arrive(h)
  PROVE  TypeInv'
<1> SUFFICES UNCHANGED <<rows, pastDue, outcome, fails>> /\ LocalInv' /\ TargetInv'
  BY RowsInvSame DEF TypeInv, TypeOK, RowsInv, LocalInv, TargetInv
<1>1. ASSUME NEW op \in Ops, NEW i \in Invoices, NEW k \in PayIds \union {None},
             NEW a \in 0..MaxAmount
      PROVE  InvoiceJob(op, i, k, a) \in JobType
  <2>1. invoice[i].status \in InvoiceStatus
    BY DEF TypeInv, TypeOK, RowsTypeOK
  <2> QED
    BY <2>1 DEF JobType, InvoiceJob
<1>0. 0 \in 0..MaxAmount /\ Amounts \subseteq 0..MaxAmount
  BY PaymentsAssumption
<1>2. ASSUME NEW i \in Invoices, NEW a \in Amounts, StartNote(h, i, a)
      PROVE  UNCHANGED <<rows, pastDue, outcome, fails>> /\ LocalInv' /\ TargetInv'
  <2>1. InvoiceJob("note", i, None, a) \in JobType
    BY <1>1, <1>0 DEF Ops
  <2> QED
    BY <1>2, <2>1, StartLocal, StartTarget DEF StartNote, InvoiceJob, PCs, rows
<1>3. ASSUME NEW i \in Invoices, NEW k \in Keys, NEW a \in Amounts, StartRecord(h, i, k, a)
      PROVE  UNCHANGED <<rows, pastDue, outcome, fails>> /\ LocalInv' /\ TargetInv'
  <2>1. InvoiceJob("record", i, k, a) \in JobType
    BY <1>1, <1>0 DEF Ops, PayIds
  <2> QED
    BY <1>3, <2>1, StartLocal, StartTarget DEF StartRecord, InvoiceJob, PCs, rows
<1>4. ASSUME NEW i \in Invoices, StartInitiate(h, i)
      PROVE  UNCHANGED <<rows, pastDue, outcome, fails>> /\ LocalInv' /\ TargetInv'
  <2>1. InvoiceJob("initiate", i, None, 0) \in JobType
    BY <1>1, <1>0 DEF Ops
  <2> QED
    BY <1>4, <2>1, StartLocal, StartTarget DEF StartInitiate, InvoiceJob, PCs, rows
<1>5. ASSUME NEW k \in PayIds, StartRefund(h, k)
      PROVE  UNCHANGED <<rows, pastDue, outcome, fails>> /\ LocalInv' /\ TargetInv'
  <2>1. payments[k].inv \in Invoices /\ payments[k].amount \in 0..MaxAmount
    BY <1>5 DEF TypeInv, TypeOK, RowsTypeOK, RowOK, StartRefund
  <2>2. InvoiceJob("refund", payments[k].inv, k, payments[k].amount) \in JobType
    BY <1>1, <2>1 DEF Ops
  <2> QED
    BY <1>5, <2>1, <2>2, StartLocal, StartTarget DEF StartRefund, PaymentJob, InvoiceJob, PCs, rows
<1> QED
  BY <1>2, <1>3, <1>4, <1>5 DEF Arrive


\* The rows after a statement that writes at most the payments table.
LEMMA PaymentsWritten ==
  ASSUME RowsInv,
         UNCHANGED <<invoice, credited, notes, refunds, audit, ledger, payouts, pastDue, outcome, fails>>,
         payments' \in [PayIds -> PaymentRow],
         \A l \in PayIds : /\ payments'[l].status # "none" => payments'[l].inv \in Invoices
                           /\ l \in Keys => payments'[l].status \in {"none"} \union Received
  PROVE  RowsInv'
BY DEF RowsInv, RowsTypeOK, RowOK, PaymentRow

\* The job of every handler is as before, or empty, after a step, an answer or a failure.
JobsKept == \A g \in Handlers : job'[g] = job[g] \/ job'[g].op \notin {"webhook", "refund"}

LEMMA AfterKept ==
  ASSUME TypeInv, NEW h \in Handlers,
         \/ job' = job
         \/ job' = [job EXCEPT ![h] = NoJob]
  PROVE  JobsKept
BY DEF JobsKept, TypeInv, TypeOK, LocalTypeOK, NoJob

LEMMA AfterRecomputeKept ==
  ASSUME TypeInv, NEW h \in Handlers, AfterRecompute(h)
  PROVE  JobsKept
BY AfterKept DEF AfterRecompute, Finish

\* A statement that leaves the payments table alone.
LEMMA PaymentsAlone ==
  ASSUME TypeInv, UNCHANGED payments, JobsKept, RowsInv', LocalInv'
  PROVE  TypeInv'
<1>1. TargetInv'
  BY TargetKept DEF JobsKept, TypeInv, TypeOK, LocalInv, TargetInv
<1> QED
  BY <1>1 DEF TypeInv, TypeOK, RowsInv, LocalInv, TargetInv

\* A statement that only writes the payments table.
LEMMA PaymentsOnly ==
  ASSUME TypeInv, JobsKept, LocalInv',
         UNCHANGED <<invoice, credited, notes, refunds, audit, ledger, payouts, pastDue, outcome, fails>>,
         payments' \in [PayIds -> PaymentRow],
         \A l \in PayIds : /\ payments'[l].status # "none" => payments'[l].inv \in Invoices
                           /\ l \in Keys => payments'[l].status \in {"none"} \union Received
                           /\ payments[l].status # "none" => payments'[l].status # "none"
  PROVE  TypeInv'
<1>1. RowsInv'
  BY PaymentsWritten DEF TypeInv, TypeOK, RowsInv
<1>2. TargetInv'
  BY TargetKept DEF JobsKept, TypeInv, TypeOK, LocalInv, TargetInv
<1> QED
  BY <1>1, <1>2 DEF TypeInv, TypeOK, RowsInv, LocalInv, TargetInv

LEMMA InsertNoteType ==
  ASSUME TypeInv, NEW h \in Handlers, InsertNote(h)
  PROVE  TypeInv'
<1>1. job[h].inv \in Invoices /\ job[h].amount \in Nat
  BY PaymentsAssumption DEF InsertNote, Step, TypeInv, TypeOK, LocalTypeOK, HandlerOK, JobType
<1>2. RowsInv'
  <2>1. credited \in [Invoices -> Nat] /\ notes \in [Invoices -> Nat]
    BY DEF TypeInv, TypeOK, RowsTypeOK
  <2>2. credited' \in [Invoices -> Nat] /\ notes' \in [Invoices -> Nat]
    BY <1>1, <2>1 DEF InsertNote
  <2> QED
    BY <2>2 DEF InsertNote, TypeInv, TypeOK, RowsTypeOK, RowsInv, RowOK
<1>3. LocalInv'
  BY StepLocal DEF InsertNote, PCs
<1> QED
  BY <1>2, <1>3, AfterKept, PaymentsAlone DEF InsertNote, Step

LEMMA InsertPaymentType ==
  ASSUME TypeInv, NEW h \in Handlers, InsertPayment(h)
  PROVE  TypeInv'
<1> DEFINE row == [status |-> "confirmed", inv |-> job[h].inv, amount |-> job[h].amount]
<1>0. RowsInv
  BY DEF TypeInv, TypeOK, RowsInv
<1>1. job[h].inv \in Invoices /\ job[h].key \in Keys /\ job[h].key \in PayIds
  BY DEF InsertPayment, TypeInv, HandlerOK, PayIds
<1>2. row \in PaymentRow
  BY <1>1 DEF PaymentRow, PaymentStatus, TypeInv, TypeOK, LocalTypeOK, JobType
<1>3. CASE payments[job[h].key].status = "none"
  <2>1. payments' = [payments EXCEPT ![job[h].key] = row] /\ Step(h, "insertPayment", "sums")
    BY <1>3 DEF InsertPayment
  <2>2. LocalInv'
    BY <2>1, StepLocal DEF PCs
  <2>3. JobsKept
    BY <2>1, AfterKept DEF Step
  <2>4. row.inv \in Invoices /\ row.status = "confirmed"
    BY <1>1
  <2> HIDE DEF row
  <2> QED
    BY <1>0, <1>1, <1>2, <2>1, <2>2, <2>3, <2>4, AddRow, PaymentsOnly DEF InsertPayment, Received
<1>4. CASE payments[job[h].key].status # "none"
  <2>1. Finish(h) /\ UNCHANGED payments
    BY <1>4 DEF InsertPayment
  <2>2. LocalInv'
    BY <2>1, AckType, FinishLocal DEF Finish
  <2>3. RowsInv'
    BY <1>0, <2>1, RowsInvSame DEF InsertPayment, rows
  <2> QED
    BY <2>1, <2>2, <2>3, AfterKept, PaymentsAlone DEF Finish
<1> QED
  BY <1>3, <1>4

LEMMA OpenSessionType ==
  ASSUME TypeInv, NEW h \in Handlers, NEW s \in Sessions, OpenSession(h, s)
  PROVE  TypeInv'
<1> DEFINE row == [status |-> "pending", inv |-> job[h].inv, amount |-> AmountDue(h)]
<1>1. job[h].inv \in Invoices /\ s \in PayIds /\ s \notin Keys
  BY PaymentsAssumption DEF OpenSession, TypeInv, HandlerOK, PayIds
<1>2. row \in PaymentRow
  <2>1. sums[h].net \in Unread..(Grain * MaxAmount + 1) /\ sums[h].paid \in Nat
    BY DEF OpenSession, TypeInv, TypeOK, LocalTypeOK
  <2>2. AmountDue(h) \in 0..MaxAmount
    BY <2>1, PaymentsAssumption DEF AmountDue, Rounded, AtLeastZero, Grain, Unread
  <2> QED
    BY <1>1, <2>2 DEF PaymentRow, PaymentStatus
<1>3. LocalInv'
  BY AckType, FinishLocal DEF OpenSession, Finish
<1>4. JobsKept
  BY AfterKept DEF OpenSession, Finish
<1>5. RowsInv
  BY DEF TypeInv, TypeOK, RowsInv
<1>6. payments' = [payments EXCEPT ![s] = row] /\ row.status = "pending" /\ row.inv \in Invoices
  BY <1>1 DEF OpenSession
<1> HIDE DEF row
<1> QED
  BY <1>1, <1>2, <1>3, <1>4, <1>5, <1>6, AddRow, PaymentsOnly DEF OpenSession

\* A row read earlier, written back with another status.
LEMMA SetStatusType ==
  ASSUME TypeInv, NEW h \in Handlers, NEW k \in PayIds, NEW st \in PaymentStatus \ {"none"},
         payments[k].status # "none", k \in Keys => st \in Received,
         payments' = [payments EXCEPT ![k].status = st],
         JobsKept, LocalInv',
         UNCHANGED <<invoice, credited, notes, refunds, audit, ledger, payouts, pastDue, outcome, fails>>
  PROVE  TypeInv'
<1>1. RowsInv
  BY DEF TypeInv, TypeOK, RowsInv
<1> QED
  BY <1>1, SetStatus, PaymentsOnly

LEMMA SettlePaymentType ==
  ASSUME TypeInv, NEW h \in Handlers, SettlePayment(h)
  PROVE  TypeInv'
<1> DEFINE st == Reported(job[h].key)
<1>1. pc[h] = "settle" /\ Step(h, "settle", "auditSettle")
  BY DEF SettlePayment, Step
<1>2. job[h].key \in Sessions /\ payments[job[h].key].status # "none"
  BY <1>1 DEF TypeInv, HandlerOK, TargetOK
<1>3. job[h].key \in PayIds /\ job[h].key \notin Keys
  BY <1>2, PaymentsAssumption DEF PayIds
<1>4. JobsKept /\ LocalInv'
  BY <1>1, StepLocal, AfterKept DEF Step, PCs
<1>5. st \in PaymentStatus \ {"none"}
  BY DEF PaymentStatus, Reported
<1> HIDE DEF st
<1>6. payments' = [payments EXCEPT ![job[h].key].status = st]
  BY DEF SettlePayment, st
<1> QED
  BY <1>2, <1>3, <1>4, <1>5, <1>6, SetStatusType DEF SettlePayment

LEMMA MarkRefundedType ==
  ASSUME TypeInv, NEW h \in Handlers, MarkRefunded(h)
  PROVE  TypeInv'
<1>1. pc[h] = "markRefunded" /\ Step(h, "markRefunded", "auditRefund")
  BY DEF MarkRefunded, Step
<1>2. job[h].key \in PayIds /\ payments[job[h].key].status # "none"
  BY <1>1 DEF TypeInv, HandlerOK, TargetOK
<1>3. JobsKept /\ LocalInv'
  BY <1>1, StepLocal, AfterKept DEF Step, PCs
<1>4. "refunded" \in PaymentStatus \ {"none"} /\ "refunded" \in Received
  BY DEF PaymentStatus, Received
<1> QED
  BY <1>2, <1>3, <1>4, SetStatusType DEF MarkRefunded

\* A statement that appends to the audit log of the handler's payment.
LEMMA AuditType ==
  ASSUME TypeInv, NEW k \in PayIds, NEW st \in PaymentStatus,
         audit' = Logged(k, st),
         UNCHANGED <<invoice, credited, notes, payments, refunds, ledger, payouts, pastDue, outcome, fails>>
  PROVE  RowsInv'
<1>1. audit \in [PayIds -> Seq(PaymentStatus)]
  BY DEF TypeInv, TypeOK, RowsTypeOK
<1>2. audit[k] \in Seq(PaymentStatus)
  BY <1>1
<1>3. Append(audit[k], st) \in Seq(PaymentStatus)
  BY <1>2
<1>4. audit' \in [PayIds -> Seq(PaymentStatus)]
  BY <1>1, <1>3 DEF Logged
<1> QED
  BY <1>4 DEF TypeInv, TypeOK, RowsTypeOK, RowsInv, RowOK

LEMMA AuditSettleType ==
  ASSUME TypeInv, NEW h \in Handlers, AuditSettle(h)
  PROVE  TypeInv'
<1> DEFINE to == Reported(job[h].key)
<1>1. job[h].key \in PayIds /\ to \in PaymentStatus
  BY DEF Reported, AuditSettle, TypeInv, HandlerOK, PayIds, PaymentStatus
<1>2. RowsInv'
  BY <1>1, AuditType DEF AuditSettle
<1>3. LocalInv' /\ JobsKept
  <2>1. CASE Step(h, "auditSettle", "sums")
    <3>1. LocalInv'
      BY <2>1, StepLocal DEF PCs
    <3> QED
      BY <2>1, <3>1, AfterKept DEF Step
  <2>2. CASE Finish(h)
    BY <2>2, AckType, FinishLocal, AfterKept DEF Finish
  <2> QED
    BY <2>1, <2>2 DEF AuditSettle
<1> QED
  BY <1>2, <1>3, PaymentsAlone DEF AuditSettle

LEMMA AuditRefundType ==
  ASSUME TypeInv, NEW h \in Handlers, AuditRefund(h)
  PROVE  TypeInv'
<1>1. Step(h, "auditRefund", "sums") /\ pc[h] = "auditRefund"
  BY DEF AuditRefund, Step
<1>2. job[h].key \in PayIds /\ "refunded" \in PaymentStatus
  BY <1>1 DEF TypeInv, HandlerOK, PaymentStatus
<1>3. RowsInv'
  BY <1>2, AuditType DEF AuditRefund
<1>4. LocalInv' /\ JobsKept
  BY <1>1, StepLocal, AfterKept DEF Step, PCs
<1> QED
  BY <1>3, <1>4, PaymentsAlone DEF AuditRefund

LEMMA InsertRefundType ==
  ASSUME TypeInv, NEW h \in Handlers, InsertRefund(h)
  PROVE  TypeInv'
<1>1. Step(h, "insertRefund", "markRefunded")
  BY DEF InsertRefund
<1>2. LocalInv' /\ JobsKept
  BY <1>1, StepLocal, AfterKept DEF Step, PCs
<1>3. refunds' \in [PayIds -> Nat]
  <2>1. refunds \in [PayIds -> Nat]
    BY DEF TypeInv, TypeOK, RowsTypeOK
  <2>2. refunds' = [refunds EXCEPT ![job[h].key] = refunds[job[h].key] + 1]
    BY DEF InsertRefund
  <2>3. \A n \in Nat : n + 1 \in Nat
    OBVIOUS
  <2> QED
    BY <2>1, <2>2, <2>3
<1>4. RowsInv'
  BY <1>3 DEF InsertRefund, TypeInv, TypeOK, RowsTypeOK, RowsInv, RowOK
<1> QED
  BY <1>2, <1>4, PaymentsAlone DEF InsertRefund

\* A statement that changes nothing but the two sums a handler has read.
LEMMA SumsType ==
  ASSUME TypeInv, NEW h \in Handlers, pc[h] = "sums",
         NEW v \in [net : Unread..(Grain * MaxAmount + 1), paid : Nat \union {Unread}],
         sums' = [sums EXCEPT ![h] = v],
         UNCHANGED <<rows, pastDue, outcome, acked, pc, job, fails>>
  PROVE  TypeInv'
<1>1. LocalTypeOK'
  BY DEF TypeInv, TypeOK, LocalTypeOK
<1>2. HandlerOK(h)'
  BY DEF TypeInv, HandlerOK
<1>3. LocalInv'
  BY <1>1, <1>2, OneHandler DEF TypeInv, TypeOK, LocalTypeOK
<1>4. RowsInv'
  BY RowsInvSame DEF TypeInv, TypeOK, RowsInv
<1> QED
  BY <1>3, <1>4, AfterKept, PaymentsAlone DEF rows

LEMMA ReadNotesType ==
  ASSUME TypeInv, NEW h \in Handlers, ReadNotes(h)
  PROVE  TypeInv'
<1>1. job[h].inv \in Invoices /\ pc[h] = "sums"
  BY DEF ReadNotes, TypeInv, HandlerOK
<1>2. PICK n \in NetTotals(job[h].inv) : sums' = [sums EXCEPT ![h].net = n]
  BY DEF ReadNotes
<1>5. n \in Unread..(Grain * MaxAmount + 1)
  BY <1>1, NetTotalsType, PaymentsAssumption DEF TypeInv, Unread, Grain
<1> DEFINE v == [sums[h] EXCEPT !.net = n]
<1>3. v \in [net : Unread..(Grain * MaxAmount + 1), paid : Nat \union {Unread}]
  BY <1>5 DEF TypeInv, TypeOK, LocalTypeOK
<1>4. sums' = [sums EXCEPT ![h] = v]
  BY <1>2
<1> HIDE DEF v
<1> QED
  BY <1>1, <1>3, <1>4, SumsType DEF ReadNotes

LEMMA ReadPaymentsType ==
  ASSUME TypeInv, NEW h \in Handlers, ReadPayments(h)
  PROVE  TypeInv'
<1>4. PICK n \in PaidTotals(job[h].inv) : sums' = [sums EXCEPT ![h].paid = n]
  BY DEF ReadPayments
<1>1. n \in Nat /\ pc[h] = "sums"
  BY PaidTotalsType DEF ReadPayments, TypeInv
<1> DEFINE v == [sums[h] EXCEPT !.paid = n]
<1>2. v \in [net : Unread..(Grain * MaxAmount + 1), paid : Nat \union {Unread}]
  BY <1>1 DEF TypeInv, TypeOK, LocalTypeOK
<1>3. sums' = [sums EXCEPT ![h] = v]
  BY <1>4
<1> HIDE DEF v
<1> QED
  BY <1>1, <1>2, <1>3, SumsType DEF ReadPayments

LEMMA StatusForType ==
  ASSUME NEW net, NEW paid, NEW late
  PROVE  StatusFor(net, paid, late) \in InvoiceStatus
BY DEF StatusFor, InvoiceStatus

LEMMA SaveStatusType ==
  ASSUME TypeInv, NEW h \in Handlers, SaveStatus(h)
  PROVE  TypeInv'
<1>1. job[h].inv \in Invoices /\ pc[h] = "sums"
  BY DEF SaveStatus, TypeInv, HandlerOK
<1> DEFINE new == StatusFor(sums[h].net, sums[h].paid, job[h].inv \in pastDue)
<1>2. invoice' \in [Invoices -> [total : 0..MaxAmount, status : InvoiceStatus]]
  <2>1. new \in InvoiceStatus
    BY StatusForType
  <2>2. invoice \in [Invoices -> [total : 0..MaxAmount, status : InvoiceStatus]]
    BY DEF TypeInv, TypeOK, RowsTypeOK
  <2>3. invoice' = invoice \/ invoice' = [invoice EXCEPT ![job[h].inv].status = new]
    BY DEF SaveStatus
  <2> HIDE DEF new
  <2> QED
    BY <1>1, <2>1, <2>2, <2>3
<1>3. RowsInv'
  BY <1>2 DEF SaveStatus, TypeInv, TypeOK, RowsTypeOK, RowsInv, RowOK
<1>4. CASE sums[h].paid > sums[h].net
  <2>1. Step(h, "sums", "credit") /\ sums[h].net # Unread
    BY <1>4 DEF SaveStatus
  <2>2. LocalInv' /\ JobsKept
    BY <1>4, <2>1, StepLocal, AfterKept DEF Step, PCs
  <2> QED
    BY <1>3, <2>2, PaymentsAlone DEF SaveStatus
<1>5. CASE ~(sums[h].paid > sums[h].net)
  <2>1. AfterRecompute(h)
    BY <1>5 DEF SaveStatus
  <2>2. LocalInv' /\ JobsKept
    BY <1>1, <2>1, AfterRecomputeLocal, AfterRecomputeKept
  <2> QED
    BY <1>3, <2>2, PaymentsAlone DEF SaveStatus
<1> QED
  BY <1>4, <1>5

LEMMA CheckCreditType ==
  ASSUME TypeInv, NEW h \in Handlers, CheckCredit(h)
  PROVE  TypeInv'
<1>1. RowsInv'
  BY RowsInvSame DEF CheckCredit, TypeInv, TypeOK, RowsInv
<1>2. LocalInv' /\ JobsKept
  <2>1. CASE AfterRecompute(h)
    BY <2>1, AfterRecomputeLocal, AfterRecomputeKept DEF CheckCredit
  <2>2. CASE Step(h, "credit", "grant")
    <3>1. sums[h].net # Unread /\ sums[h].paid > sums[h].net
      BY <2>2 DEF Step, TypeInv, HandlerOK
    <3> QED
      BY <2>2, <3>1, StepLocal, AfterKept DEF Step, PCs
  <2> QED
    BY <2>1, <2>2 DEF CheckCredit
<1> QED
  BY <1>1, <1>2, PaymentsAlone DEF CheckCredit, rows

\* A credit is granted only for a surplus.
LEMMA CreditEntryType ==
  ASSUME TypeInv, NEW h \in Handlers, GrantCredit(h)
  PROVE  [inv |-> job[h].inv, amount |-> Overpay(h)] \in [inv : Invoices, amount : Nat]
<1>1. job[h].inv \in Invoices /\ sums[h].net # Unread /\ sums[h].paid > sums[h].net
  BY DEF GrantCredit, TypeInv, HandlerOK
<1>2. sums[h].net \in Nat /\ sums[h].paid \in Nat
  BY <1>1, PaymentsAssumption DEF TypeInv, TypeOK, LocalTypeOK, Unread
<1> QED
  BY <1>1, <1>2 DEF Overpay, Rounded, Grain

LEMMA GrantCreditType ==
  ASSUME TypeInv, NEW h \in Handlers, GrantCredit(h)
  PROVE  TypeInv'
<1> DEFINE entry == [inv |-> job[h].inv, amount |-> Overpay(h)]
<1>1. entry \in [inv : Invoices, amount : Nat]
  BY CreditEntryType
<1>2. ledger' \in Seq([inv : Invoices, amount : Nat])
  <2>1. ledger \in Seq([inv : Invoices, amount : Nat])
    BY DEF TypeInv, TypeOK, RowsTypeOK
  <2>2. ledger' = Append(ledger, entry)
    BY DEF GrantCredit
  <2> HIDE DEF entry
  <2> QED
    BY <1>1, <2>1, <2>2
<1>3. RowsInv'
  BY <1>2 DEF GrantCredit, TypeInv, TypeOK, RowsTypeOK, RowsInv, RowOK
<1>4. LocalInv' /\ JobsKept
  BY AfterRecomputeLocal, AfterRecomputeKept DEF GrantCredit
<1> QED
  BY <1>3, <1>4, PaymentsAlone DEF GrantCredit

LEMMA GeneratePayoutType ==
  ASSUME TypeInv, NEW h \in Handlers, GeneratePayout(h)
  PROVE  TypeInv'
<1>1. payouts' \in [PayIds -> Nat]
  <2>1. payouts \in [PayIds -> Nat]
    BY DEF TypeInv, TypeOK, RowsTypeOK
  <2>2. payouts' = payouts \/ payouts' = [payouts EXCEPT ![job[h].key] = payouts[job[h].key] + 1]
    BY DEF GeneratePayout
  <2>3. \A n \in Nat : n + 1 \in Nat
    OBVIOUS
  <2> QED
    BY <2>1, <2>2, <2>3
<1>2. RowsInv'
  BY <1>1 DEF GeneratePayout, TypeInv, TypeOK, RowsTypeOK, RowsInv, RowOK
<1>3. LocalInv' /\ JobsKept
  BY AckType, FinishLocal, AfterKept DEF GeneratePayout, Finish
<1> QED
  BY <1>2, <1>3, PaymentsAlone DEF GeneratePayout

LEMMA ContinueType ==
  ASSUME TypeInv, NEW h \in Handlers, Continue(h)
  PROVE  TypeInv'
BY InsertNoteType, InsertPaymentType, OpenSessionType, SettlePaymentType, AuditSettleType,
   InsertRefundType, MarkRefundedType, AuditRefundType, ReadNotesType, ReadPaymentsType,
   SaveStatusType, CheckCreditType, GrantCreditType, GeneratePayoutType
   DEF Continue

LEMMA FailType ==
  ASSUME TypeInv, NEW h \in Handlers, Fail(h)
  PROVE  TypeInv'
<1>1. fails' \in 0..MaxFails
  BY PaymentsAssumption DEF Fail, TypeInv, TypeOK, RowsTypeOK
<1>2. RowsInv'
  BY <1>1 DEF Fail, rows, TypeInv, TypeOK, RowsTypeOK, RowsInv, RowOK
<1>3. acked' \subseteq Sessions
  BY DEF Fail, TypeInv, TypeOK, LocalTypeOK
<1>4. LocalInv' /\ JobsKept
  BY <1>3, FinishLocal, AfterKept DEF Fail
<1> QED
  BY <1>2, <1>4, PaymentsAlone DEF Fail, rows

LEMMA DeliverWebhookType ==
  ASSUME TypeInv, NEW h \in Handlers, NEW s \in Sessions, DeliverWebhook(h, s)
  PROVE  TypeInv'
<1>1. RowsInv' /\ UNCHANGED payments
  BY RowsInvSame DEF DeliverWebhook, TypeInv, TypeOK, RowsInv, rows
<1>2. CASE payments[s].status = "pending"
  <2> DEFINE j == PaymentJob("webhook", s)
  <2>1. s \in PayIds /\ payments[s].inv \in Invoices /\ payments[s].amount \in 0..MaxAmount
    BY <1>2 DEF PayIds, TypeInv, TypeOK, RowsTypeOK, RowOK
  <2>2. invoice[payments[s].inv].status \in InvoiceStatus
    BY <2>1 DEF TypeInv, TypeOK, RowsTypeOK
  <2>3. j \in JobType /\ j.op = "webhook" /\ j.key = s /\ j.inv \in Invoices
    BY <2>1, <2>2 DEF PaymentJob, InvoiceJob, JobType, Ops
  <2>4. Start(h, "settle", j)
    BY <1>2 DEF DeliverWebhook, AlreadyReconciled
  <2> HIDE DEF j
  <2>5. LocalInv'
    BY <2>3, <2>4, StartLocal DEF PCs
  <2>6. TargetInv'
    BY <1>1, <1>2, <2>3, <2>4, StartTarget
  <2> QED
    BY <1>1, <2>5, <2>6 DEF TypeInv, TypeOK, RowsInv, LocalInv, TargetInv
<1>3. CASE payments[s].status # "pending"
  <2>1. acked' = acked \union {s} /\ UNCHANGED <<pc, job, sums>>
    BY <1>3 DEF DeliverWebhook, AlreadyReconciled, local
  <2>2. LocalInv'
    BY <2>1 DEF TypeInv, TypeOK, LocalTypeOK, LocalInv, HandlerOK
  <2>3. JobsKept
    BY <2>1 DEF JobsKept
  <2> QED
    BY <1>1, <2>2, <2>3, PaymentsAlone
<1> QED
  BY <1>2, <1>3

LEMMA EnvironmentType ==
  ASSUME TypeInv,
         \/ \E s \in Sessions, o \in {"succeeded", "failed"} : GatewayDecides(s, o)
         \/ \E i \in Invoices : DueDatePasses(i)
         \/ UNCHANGED vars
  PROVE  TypeInv'
<1>1. UNCHANGED <<rows, acked, pc, job, sums, fails>>
  BY DEF GatewayDecides, DueDatePasses, vars, local
<1>2. outcome' \in [Sessions -> {"none", "succeeded", "failed"}] /\ pastDue' \subseteq Invoices
  BY DEF GatewayDecides, DueDatePasses, vars, TypeInv, TypeOK, RowsTypeOK
<1>3. RowsInv'
  BY <1>1, <1>2 DEF rows, TypeInv, TypeOK, RowsTypeOK, RowsInv, RowOK
<1>4. LocalInv' /\ JobsKept
  BY <1>1, NoHandler DEF JobsKept
<1> QED
  BY <1>1, <1>3, <1>4, PaymentsAlone DEF rows

LEMMA TypeStep == TypeInv /\ [Next]_vars => TypeInv'
<1> SUFFICES ASSUME TypeInv, [Next]_vars PROVE TypeInv'
  OBVIOUS
<1> QED
  BY ArriveType, ContinueType, FailType, DeliverWebhookType, EnvironmentType DEF Next

\* Every row and every handler's memory is well formed whatever the requests, their
\* interleaving and their failures: no amount of a gateway payment and no credit is negative.
THEOREM TypeCorrect == Spec => []TypeOK
<1>1. Spec => []TypeInv
  BY TypeInit, TypeStep, PTL DEF Spec
<1>2. TypeInv => TypeOK
  BY DEF TypeInv
<1> QED
  BY <1>1, <1>2, PTL

-----------------------------------------------------------------------------
(***************************************************************************)
(* Money: what the gateway reported, what was refunded and paid out, and   *)
(* what an invoice's status claims is backed by rows.  And history: no     *)
(* step rewrites it.                                                       *)
(*                                                                         *)
(* The argument: money that came in for an invoice stays received for that *)
(* invoice (Kept), although a webhook's request writes a status it decided *)
(* on before.  It can: the gateway has decided the session by then, and    *)
(* decides once.  So what another handler has checked or written remains   *)
(* true of the rows (OthersWork), and each action need only look after its *)
(* own handler and the rows it writes.                                     *)
(***************************************************************************)

\* What no step takes back.
Kept ==
  /\ \A k \in PayIds :
       /\ payments[k].status # "none" => payments'[k].inv = payments[k].inv
       /\ payments[k].status \in Received => payments'[k].status \in Received
       /\ refunds[k] > 0 => refunds'[k] > 0
  /\ \A s \in Sessions : outcome[s] # "none" => outcome'[s] = outcome[s]
  /\ pastDue \subseteq pastDue'

Others(h) == \A g \in Handlers \ {h} : pc'[g] = pc[g] /\ job'[g] = job[g] /\ sums'[g] = sums[g]

Backed == GatewayTruth /\ RefundBacked /\ PayoutBacked /\ StatusBacked

-----------------------------------------------------------------------------
(* Handlers. *)

LEMMA MoneyInit == Init => MoneyInv
BY DEF Init, MoneyInv, WorkOK, GatewayTruth, RefundBacked, PayoutBacked, StatusBacked,
       NoJob, NoRow, NoSums, Unread, Received, PayIds

LEMMA KeepsOthers ==
  ASSUME TypeInv, NEW h \in Handlers,
         \/ \E p \in PCs, j \in JobType : Start(h, p, j)
         \/ \E p, q \in PCs : Step(h, p, q)
         \/ Finish(h) \/ AfterRecompute(h)
  PROVE  Others(h)
BY DEF Start, Step, Finish, AfterRecompute, Others, TypeInv, TypeOK, LocalTypeOK

\* What another handler knows remains true.
LEMMA OthersWork ==
  ASSUME TypeInv, MoneyInv, Kept, NEW g \in Handlers,
         pc'[g] = pc[g] /\ job'[g] = job[g] /\ sums'[g] = sums[g]
  PROVE  WorkOK(g)'
<1>1. WorkOK(g) /\ HandlerOK(g) /\ TargetOK(g)
  BY DEF TypeInv, MoneyInv
<1> DEFINE k == job[g].key
<1>2. job[g].op = "record" => k \in PayIds
  BY <1>1 DEF HandlerOK, PayIds
<1>3. job[g].op \in {"webhook", "refund"} => k \in PayIds /\ payments[k].status # "none"
  BY <1>1 DEF HandlerOK, TargetOK, PayIds
<1>4. job[g].op = "webhook" => k \in Sessions
  BY <1>1 DEF HandlerOK
<1>5. "none" \notin Received
  BY DEF Received
<1>6. ASSUME job[g].op = "record", pc[g] # "insertPayment"
      PROVE  payments'[k].inv = job[g].inv /\ payments'[k].status \in Received
  BY <1>1, <1>2, <1>5, <1>6 DEF WorkOK, Kept
<1>7. ASSUME job[g].op = "webhook"
      PROVE  /\ payments'[k].inv = job[g].inv /\ outcome'[k] = outcome[k]
             /\ payments[k].status \in Received => payments'[k].status \in Received
  BY <1>1, <1>3, <1>4, <1>7 DEF WorkOK, Kept
<1>8. ASSUME job[g].op = "refund"
      PROVE  /\ payments'[k].inv = job[g].inv /\ payments'[k].status \in Received
             /\ refunds[k] > 0 => refunds'[k] > 0
  BY <1>1, <1>3, <1>8 DEF WorkOK, Kept
<1>9. ASSUME sums[g].paid > 0
      PROVE  \E m \in PayIds : payments'[m].inv = job[g].inv /\ payments'[m].status \in Received
  BY <1>1, <1>5, <1>9 DEF WorkOK, Kept
<1> QED
  BY <1>1, <1>6, <1>7, <1>8, <1>9 DEF WorkOK

LEMMA EveryWork ==
  ASSUME TypeInv, MoneyInv, Kept, NEW h \in Handlers, Others(h), WorkOK(h)'
  PROVE  \A g \in Handlers : WorkOK(g)'
BY OthersWork DEF Others

\* A request that ends knows nothing.
LEMMA FinishWork ==
  ASSUME TypeInv, NEW h \in Handlers,
         job' = [job EXCEPT ![h] = NoJob], sums' = [sums EXCEPT ![h] = NoSums]
  PROVE  WorkOK(h)'
BY DEF TypeInv, TypeOK, LocalTypeOK, WorkOK, NoJob, NoSums, Unread

\* One that goes on with what it knows, and the same rows.
LEMMA StepWork ==
  ASSUME TypeInv, MoneyInv, NEW h \in Handlers, NEW from \in PCs, NEW to \in PCs,
         Step(h, from, to), UNCHANGED <<payments, refunds, outcome>>,
         from \in {"sums", "credit", "grant"} /\ to \in {"credit", "grant", "payout"}
  PROVE  WorkOK(h)'
BY DEF TypeInv, TypeOK, LocalTypeOK, MoneyInv, WorkOK, Step

LEMMA AfterRecomputeWork ==
  ASSUME TypeInv, MoneyInv, NEW h \in Handlers, AfterRecompute(h),
         pc[h] \in {"sums", "credit", "grant"}, UNCHANGED <<payments, refunds, outcome>>
  PROVE  WorkOK(h)'
<1>1. CASE job[h].op \in {"record", "webhook"}
  BY <1>1 DEF AfterRecompute, TypeInv, TypeOK, LocalTypeOK, MoneyInv, WorkOK
<1>2. CASE job[h].op \notin {"record", "webhook"}
  BY <1>2, FinishWork DEF AfterRecompute, Finish
<1> QED
  BY <1>1, <1>2

-----------------------------------------------------------------------------
(* Rows. *)

LEMMA SameRowsKept ==
  ASSUME UNCHANGED <<payments, refunds, outcome>>, pastDue \subseteq pastDue'
  PROVE  Kept
BY DEF Kept

\* Statements that write none of the rows that must be backed.
LEMMA SameRowsBacked ==
  ASSUME MoneyInv, UNCHANGED <<payments, outcome, payouts>>, pastDue \subseteq pastDue',
         \A k \in PayIds : refunds[k] > 0 => refunds'[k] > 0,
         \A i \in Invoices : invoice'[i].status = invoice[i].status
  PROVE  Backed'
BY DEF MoneyInv, Backed, GatewayTruth, RefundBacked, PayoutBacked, StatusBacked, PayIds

LEMMA PayoutsStayBacked ==
  ASSUME MoneyInv, Kept, UNCHANGED payouts
  PROVE  PayoutBacked'
BY DEF MoneyInv, Kept, PayoutBacked, Received

LEMMA StatusStaysBacked ==
  ASSUME MoneyInv, Kept, UNCHANGED invoice
  PROVE  StatusBacked'
BY DEF MoneyInv, Kept, StatusBacked, Received

LEMMA OneStep ==
  ASSUME TypeInv, MoneyInv, Kept, NEW h \in Handlers, Others(h), WorkOK(h)', Backed'
  PROVE  MoneyInv'
BY EveryWork DEF MoneyInv, Backed

-----------------------------------------------------------------------------
(* New requests. *)

LEMMA ArriveMoney ==
  ASSUME TypeInv, MoneyInv, NEW h \in Handlers, Arrive(h)
  PROVE  MoneyInv'
<1>1. UNCHANGED <<rows, pastDue, outcome>>
  BY DEF Arrive, StartNote, StartRecord, StartInitiate, StartRefund
<1>2. Kept /\ Backed'
  BY <1>1, SameRowsKept, SameRowsBacked DEF rows
<1>3. pc[h] = "idle" /\ sums' = sums /\ sums[h] = NoSums
  BY DEF Arrive, StartNote, StartRecord, StartInitiate, StartRefund, Start, TypeInv, HandlerOK
<1>4. ~(sums'[h].paid > 0)
  BY <1>3 DEF NoSums, Unread
<1>5. Others(h)
  BY DEF Arrive, StartNote, StartRecord, StartInitiate, StartRefund, Start, Others,
         TypeInv, TypeOK, LocalTypeOK
<1>6. pc \in [Handlers -> PCs] /\ job \in [Handlers -> JobType]
  BY DEF TypeInv, TypeOK, LocalTypeOK
<1>7. WorkOK(h)'
  <2>1. CASE \E i \in Invoices, a \in Amounts : StartNote(h, i, a)
    BY <2>1, <1>4, <1>6 DEF StartNote, Start, InvoiceJob, WorkOK
  <2>2. CASE \E i \in Invoices, k \in Keys, a \in Amounts : StartRecord(h, i, k, a)
    BY <2>2, <1>4, <1>6 DEF StartRecord, Start, InvoiceJob, WorkOK
  <2>3. CASE \E i \in Invoices : StartInitiate(h, i)
    BY <2>3, <1>4, <1>6 DEF StartInitiate, Start, InvoiceJob, WorkOK
  <2>4. CASE \E k \in PayIds : StartRefund(h, k)
    BY <2>4, <1>1, <1>4, <1>6 DEF StartRefund, Start, PaymentJob, InvoiceJob, WorkOK, rows, Received
  <2> QED
    BY <2>1, <2>2, <2>3, <2>4 DEF Arrive
<1> QED
  BY <1>2, <1>5, <1>7, OneStep

LEMMA DeliverWebhookMoney ==
  ASSUME TypeInv, MoneyInv, NEW h \in Handlers, NEW s \in Sessions, DeliverWebhook(h, s)
  PROVE  MoneyInv'
<1>1. UNCHANGED <<rows, pastDue, outcome>>
  BY DEF DeliverWebhook
<1>2. Kept /\ Backed'
  BY <1>1, SameRowsKept, SameRowsBacked DEF rows
<1>3. pc[h] = "idle" /\ sums' = sums /\ sums[h] = NoSums
  BY DEF DeliverWebhook, Start, local, TypeInv, HandlerOK
<1>4. Others(h)
  BY DEF DeliverWebhook, Start, local, Others, TypeInv, TypeOK, LocalTypeOK
<1>5. WorkOK(h)'
  <2>1. CASE UNCHANGED local
    <3>1. WorkOK(h)
      BY DEF MoneyInv
    <3> QED
      BY <2>1, <3>1, <1>1 DEF WorkOK, local, rows
  <2>2. CASE Start(h, "settle", PaymentJob("webhook", s))
    <3>1. pc'[h] = "settle" /\ job'[h] = PaymentJob("webhook", s)
      BY <2>2 DEF Start, TypeInv, TypeOK, LocalTypeOK
    <3>2. job'[h].op = "webhook" /\ job'[h].key = s /\ job'[h].inv = payments[s].inv
      BY <3>1 DEF PaymentJob, InvoiceJob
    <3>3. outcome[s] # "none" /\ ~(sums'[h].paid > 0)
      BY <1>3 DEF DeliverWebhook, NoSums, Unread
    <3> QED
      BY <1>1, <3>1, <3>2, <3>3 DEF WorkOK, rows
  <2> QED
    BY <2>1, <2>2 DEF DeliverWebhook
<1> QED
  BY <1>2, <1>4, <1>5, OneStep

-----------------------------------------------------------------------------
(* The statements of a request. *)

LEMMA InsertNoteMoney ==
  ASSUME TypeInv, MoneyInv, NEW h \in Handlers, InsertNote(h)
  PROVE  MoneyInv'
<1>1. Kept /\ Backed'
  BY SameRowsKept, SameRowsBacked DEF InsertNote
<1>2. Others(h)
  BY KeepsOthers DEF InsertNote, PCs
<1>3. WorkOK(h)'
  BY DEF InsertNote, Step, TypeInv, TypeOK, LocalTypeOK, HandlerOK, MoneyInv, WorkOK
<1> QED
  BY <1>1, <1>2, <1>3, OneStep

LEMMA InsertPaymentMoney ==
  ASSUME TypeInv, MoneyInv, NEW h \in Handlers, InsertPayment(h)
  PROVE  MoneyInv'
<1> DEFINE k == job[h].key
<1> DEFINE row == [status |-> "confirmed", inv |-> job[h].inv, amount |-> job[h].amount]
<1>1. job[h].op = "record" /\ k \in Keys /\ k \in PayIds /\ k \notin Sessions
  BY PaymentsAssumption DEF InsertPayment, TypeInv, HandlerOK, PayIds
<1>2. UNCHANGED <<invoice, refunds, payouts, pastDue, outcome>>
  BY DEF InsertPayment
<1>3. Others(h)
  BY KeepsOthers DEF InsertPayment, PCs
<1>4. CASE payments[k].status = "none"
  <2>1. payments' = [payments EXCEPT ![k] = row] /\ Step(h, "insertPayment", "sums")
    BY <1>4 DEF InsertPayment
  <2>2. payments \in [PayIds -> [status : PaymentStatus, inv : Invoices \union {None},
                                 amount : 0..MaxAmount]]
    BY DEF TypeInv, TypeOK, RowsTypeOK
  <2>3. Kept
    BY <1>1, <1>2, <1>4, <2>1, <2>2 DEF Kept, Received
  <2>4. GatewayTruth'
    BY <1>1, <1>2, <2>1, <2>2 DEF MoneyInv, GatewayTruth, PayIds
  <2>5. RefundBacked'
    BY <1>1, <1>2, <2>1, <2>2 DEF MoneyInv, RefundBacked
  <2>6. WorkOK(h)'
    <3>1. payments'[k] = row /\ pc'[h] = "sums" /\ job'[h] = job[h] /\ sums'[h] = sums[h]
      BY <1>1, <2>1, <2>2 DEF Step, TypeInv, TypeOK, LocalTypeOK
    <3> QED
      BY <1>1, <3>1 DEF WorkOK, Received
  <2> QED
    BY <1>2, <1>3, <2>3, <2>4, <2>5, <2>6, OneStep, PayoutsStayBacked, StatusStaysBacked DEF Backed
<1>5. CASE payments[k].status # "none"
  <2>1. UNCHANGED payments /\ Finish(h)
    BY <1>5 DEF InsertPayment
  <2>2. Kept /\ Backed'
    BY <1>2, <2>1, SameRowsKept, SameRowsBacked
  <2>3. WorkOK(h)'
    BY <2>1, FinishWork DEF Finish
  <2> QED
    BY <1>3, <2>2, <2>3, OneStep
<1> QED
  BY <1>4, <1>5

LEMMA OpenSessionMoney ==
  ASSUME TypeInv, MoneyInv, NEW h \in Handlers, NEW s \in Sessions, OpenSession(h, s)
  PROVE  MoneyInv'
<1> DEFINE a == AmountDue(h)
<1> DEFINE row == [status |-> "pending", inv |-> job[h].inv, amount |-> a]
<1>1. UNCHANGED <<invoice, refunds, payouts, pastDue, outcome>>
  BY DEF OpenSession
<1>2. payments[s].status = "none" /\ payments' = [payments EXCEPT ![s] = row] /\ Finish(h)
  BY DEF OpenSession
<1> HIDE DEF a
<1>3. payments \in [PayIds -> [status : PaymentStatus, inv : Invoices \union {None},
                               amount : 0..MaxAmount]] /\ s \in PayIds
  BY DEF TypeInv, TypeOK, RowsTypeOK, PayIds
<1>4. Kept
  BY <1>1, <1>2, <1>3 DEF Kept, Received
<1>5. GatewayTruth'
  BY <1>1, <1>2, <1>3 DEF MoneyInv, GatewayTruth, PayIds, Received
<1>6. RefundBacked'
  BY <1>1, <1>2, <1>3 DEF MoneyInv, RefundBacked
<1>7. WorkOK(h)' /\ Others(h)
  BY <1>2, FinishWork, KeepsOthers DEF Finish
<1> QED
  BY <1>1, <1>4, <1>5, <1>6, <1>7, OneStep, PayoutsStayBacked, StatusStaysBacked DEF Backed

\* Writing a status that is backed to the row of a payment that exists.
LEMMA StatusWritten ==
  ASSUME TypeInv, MoneyInv, NEW h \in Handlers, NEW k \in PayIds, NEW st \in PaymentStatus,
         payments[k].status # "none",
         payments' = [payments EXCEPT ![k].status = st],
         UNCHANGED <<invoice, refunds, payouts, pastDue, outcome>>,
         payments[k].status \in Received => st \in Received,
         st = "refunded" => refunds[k] > 0,
         k \in Sessions => /\ st \in Received => outcome[k] = "succeeded"
                           /\ st = "failed" => outcome[k] = "failed"
  PROVE  Kept /\ Backed'
<1>1. payments \in [PayIds -> [status : PaymentStatus, inv : Invoices \union {None},
                               amount : 0..MaxAmount]]
  BY DEF TypeInv, TypeOK, RowsTypeOK
<1>2. \A m \in PayIds : payments'[m].inv = payments[m].inv
                        /\ payments'[m].status = IF m = k THEN st ELSE payments[m].status
  BY <1>1
<1>3. Kept
  BY <1>2 DEF Kept
<1>4. GatewayTruth'
  BY <1>2 DEF MoneyInv, GatewayTruth, PayIds
<1>5. RefundBacked'
  BY <1>2 DEF MoneyInv, RefundBacked
<1> QED
  BY <1>3, <1>4, <1>5, PayoutsStayBacked, StatusStaysBacked DEF Backed

LEMMA SettlePaymentMoney ==
  ASSUME TypeInv, MoneyInv, NEW h \in Handlers, SettlePayment(h)
  PROVE  MoneyInv'
<1> DEFINE k == job[h].key
           st == Reported(k)
<1>1. job[h].op = "webhook" /\ k \in Sessions /\ k \in PayIds /\ payments[k].status # "none"
  BY DEF SettlePayment, Step, TypeInv, HandlerOK, TargetOK, PayIds
<1>2. outcome[k] \in {"succeeded", "failed"} /\ payments[k].inv = job[h].inv
  BY <1>1 DEF MoneyInv, WorkOK, TypeInv, TypeOK, RowsTypeOK
<1>3. st \in PaymentStatus /\ st = (IF outcome[k] = "succeeded" THEN "confirmed" ELSE "failed")
  BY DEF Reported, PaymentStatus
<1>4. payments[k].status \in Received => outcome[k] = "succeeded"
  BY <1>1 DEF MoneyInv, GatewayTruth
<1>5. payments' = [payments EXCEPT ![k].status = st]
  BY DEF SettlePayment
<1>6. UNCHANGED <<invoice, refunds, payouts, pastDue, outcome>> /\ Step(h, "settle", "auditSettle")
  BY DEF SettlePayment
<1> HIDE DEF st
<1>7. Kept /\ Backed'
  BY <1>1, <1>2, <1>3, <1>4, <1>5, <1>6, StatusWritten DEF Received
<1>8. WorkOK(h)'
  <2>1. payments'[k].inv = payments[k].inv /\ payments'[k].status = st
    BY <1>1, <1>5 DEF TypeInv, TypeOK, RowsTypeOK
  <2>2. pc'[h] = "auditSettle" /\ job'[h] = job[h] /\ sums'[h] = sums[h]
    BY <1>6 DEF Step, TypeInv, TypeOK, LocalTypeOK
  <2>3. sums[h].paid > 0 =>
          \E m \in PayIds : payments'[m].inv = job[h].inv /\ payments'[m].status \in Received
    <3>1. WorkOK(h) /\ "none" \notin Received
      BY DEF MoneyInv, Received
    <3> QED
      BY <3>1, <1>7 DEF WorkOK, Kept
  <2> QED
    BY <1>1, <1>2, <1>3, <1>6, <2>1, <2>2, <2>3 DEF WorkOK, Received
<1>9. Others(h)
  BY <1>6, KeepsOthers DEF PCs
<1> QED
  BY <1>7, <1>8, <1>9, OneStep

LEMMA MarkRefundedMoney ==
  ASSUME TypeInv, MoneyInv, NEW h \in Handlers, MarkRefunded(h)
  PROVE  MoneyInv'
<1> DEFINE k == job[h].key
<1>1. job[h].op = "refund" /\ k \in PayIds /\ payments[k].status # "none"
  BY DEF MarkRefunded, Step, TypeInv, HandlerOK, TargetOK
<1>2. refunds[k] > 0 /\ payments[k].status \in Received /\ payments[k].inv = job[h].inv
  BY <1>1 DEF MoneyInv, WorkOK, MarkRefunded, Step
<1>3. k \in Sessions => outcome[k] = "succeeded"
  BY <1>2 DEF MoneyInv, GatewayTruth
<1>4. payments' = [payments EXCEPT ![k].status = "refunded"]
  BY DEF MarkRefunded
<1>5. /\ UNCHANGED <<invoice, refunds, payouts, pastDue, outcome>>
      /\ Step(h, "markRefunded", "auditRefund")
  BY DEF MarkRefunded
<1>6. Kept /\ Backed'
  BY <1>1, <1>2, <1>3, <1>4, <1>5, StatusWritten DEF Received, PaymentStatus
<1>7. WorkOK(h)'
  <2>1. payments'[k].inv = payments[k].inv /\ payments'[k].status = "refunded"
    BY <1>1, <1>4 DEF TypeInv, TypeOK, RowsTypeOK
  <2>2. pc'[h] = "auditRefund" /\ job'[h] = job[h] /\ sums'[h] = sums[h]
    BY <1>5 DEF Step, TypeInv, TypeOK, LocalTypeOK
  <2> QED
    BY <1>1, <1>2, <1>5, <2>1, <2>2 DEF WorkOK, Received
<1>8. Others(h)
  BY <1>5, KeepsOthers DEF PCs
<1> QED
  BY <1>6, <1>7, <1>8, OneStep

LEMMA AuditSettleMoney ==
  ASSUME TypeInv, MoneyInv, NEW h \in Handlers, AuditSettle(h)
  PROVE  MoneyInv'
<1> DEFINE k == job[h].key
<1>1. UNCHANGED <<invoice, payments, refunds, payouts, pastDue, outcome>>
  BY DEF AuditSettle
<1>2. Kept /\ Backed'
  BY <1>1, SameRowsKept, SameRowsBacked
<1>3. Others(h)
  BY KeepsOthers DEF AuditSettle, PCs
<1>4. WorkOK(h)'
  <2>1. CASE Finish(h)
    BY <2>1, FinishWork DEF Finish
  <2>2. CASE Reported(k) = "confirmed" /\ Step(h, "auditSettle", "sums")
    <3>1. pc[h] = "auditSettle" /\ outcome[k] = "succeeded" /\ job[h].op = "webhook"
      BY <2>2 DEF Reported, Step, TypeInv, HandlerOK
    <3>2. WorkOK(h)
      BY DEF MoneyInv
    <3>3. pc'[h] = "sums" /\ job'[h] = job[h] /\ sums'[h] = sums[h]
      BY <2>2 DEF Step, TypeInv, TypeOK, LocalTypeOK
    <3> QED
      BY <1>1, <3>1, <3>2, <3>3 DEF WorkOK
  <2> QED
    BY <2>1, <2>2 DEF AuditSettle
<1> QED
  BY <1>2, <1>3, <1>4, OneStep

LEMMA AuditRefundMoney ==
  ASSUME TypeInv, MoneyInv, NEW h \in Handlers, AuditRefund(h)
  PROVE  MoneyInv'
<1>1. UNCHANGED <<invoice, payments, refunds, payouts, pastDue, outcome>>
  BY DEF AuditRefund
<1>2. Kept /\ Backed'
  BY <1>1, SameRowsKept, SameRowsBacked
<1>3. Others(h)
  BY KeepsOthers DEF AuditRefund, PCs
<1>4. WorkOK(h)'
  <2>1. pc[h] = "auditRefund" /\ pc'[h] = "sums" /\ job'[h] = job[h] /\ sums'[h] = sums[h]
    BY DEF AuditRefund, Step, TypeInv, TypeOK, LocalTypeOK
  <2>2. WorkOK(h) /\ job[h].op = "refund"
    BY <2>1 DEF MoneyInv, TypeInv, HandlerOK
  <2> QED
    BY <1>1, <2>1, <2>2 DEF WorkOK
<1> QED
  BY <1>2, <1>3, <1>4, OneStep

LEMMA InsertRefundMoney ==
  ASSUME TypeInv, MoneyInv, NEW h \in Handlers, InsertRefund(h)
  PROVE  MoneyInv'
<1> DEFINE k == job[h].key
<1>1. UNCHANGED <<invoice, payments, payouts, pastDue, outcome>>
  BY DEF InsertRefund
<1>2. job[h].op = "refund" /\ k \in PayIds /\ pc[h] = "insertRefund"
  BY DEF InsertRefund, Step, TypeInv, HandlerOK
<1>3. refunds \in [PayIds -> Nat] /\ refunds' = [refunds EXCEPT ![k] = refunds[k] + 1]
  BY DEF InsertRefund, TypeInv, TypeOK, RowsTypeOK
<1>4. refunds'[k] > 0 /\ \A m \in PayIds : refunds[m] > 0 => refunds'[m] > 0
  <2>1. \A n \in Nat : n + 1 > 0
    OBVIOUS
  <2> QED
    BY <1>2, <1>3, <2>1
<1>5. Kept
  BY <1>1, <1>4 DEF Kept
<1>6. Backed'
  BY <1>1, <1>4, SameRowsBacked
<1>7. Others(h)
  BY KeepsOthers DEF InsertRefund, PCs
<1>8. WorkOK(h)'
  <2>1. pc'[h] = "markRefunded" /\ job'[h] = job[h] /\ sums'[h] = sums[h]
    BY DEF InsertRefund, Step, TypeInv, TypeOK, LocalTypeOK
  <2>2. WorkOK(h)
    BY DEF MoneyInv
  <2> QED
    BY <1>1, <1>2, <1>4, <2>1, <2>2 DEF WorkOK
<1> QED
  BY <1>5, <1>6, <1>7, <1>8, OneStep

LEMMA SumsMoney ==
  ASSUME TypeInv, MoneyInv, NEW h \in Handlers, ReadNotes(h) \/ ReadPayments(h)
  PROVE  MoneyInv'
<1>1. UNCHANGED <<rows, pastDue, outcome, pc, job>>
  BY DEF ReadNotes, ReadPayments
<1>2. Kept /\ Backed'
  BY <1>1, SameRowsKept, SameRowsBacked DEF rows
<1>3. Others(h)
  BY <1>1 DEF ReadNotes, ReadPayments, Others, TypeInv, TypeOK, LocalTypeOK
<1>4. WorkOK(h)'
  <2>1. WorkOK(h)
    BY DEF MoneyInv
  <2>2. ASSUME sums'[h].paid > 0
        PROVE  \E k \in PayIds : payments[k].inv = job[h].inv /\ payments[k].status \in Received
    <3>1. CASE ReadNotes(h)
      <4>1. sums'[h].paid = sums[h].paid
        BY <3>1 DEF ReadNotes, TypeInv, TypeOK, LocalTypeOK
      <4> QED
        BY <2>1, <2>2, <4>1 DEF WorkOK
    <3>2. CASE ReadPayments(h)
      <4>1. sums'[h].paid \in PaidTotals(job[h].inv)
        BY <3>2 DEF ReadPayments, TypeInv, TypeOK, LocalTypeOK
      <4> QED
        BY <2>2, <4>1, PaidTotalsPositive DEF Received
    <3> QED
      BY <3>1, <3>2
  <2> QED
    BY <1>1, <2>1, <2>2 DEF WorkOK, rows
<1> QED
  BY <1>2, <1>3, <1>4, OneStep

\* The status derived from sums that are backed is backed.
LEMMA SaveStatusMoney ==
  ASSUME TypeInv, MoneyInv, NEW h \in Handlers, SaveStatus(h)
  PROVE  MoneyInv'
<1> DEFINE i == job[h].inv
           new == StatusFor(sums[h].net, sums[h].paid, i \in pastDue)
<1>1. UNCHANGED <<payments, refunds, payouts, pastDue, outcome>> /\ pc[h] = "sums"
  BY DEF SaveStatus
<1>2. sums[h].net \in Int /\ sums[h].paid \in Int
  BY DEF TypeInv, TypeOK, LocalTypeOK, Unread
<1>3. new \in {"paid", "partial"} =>
        \E k \in PayIds : payments[k].inv = i /\ payments[k].status \in Received
  <2>1. new \in {"paid", "partial"} => sums[h].paid > 0
    BY <1>2 DEF StatusFor
  <2>2. WorkOK(h)
    BY DEF MoneyInv
  <2> QED
    BY <2>1, <2>2 DEF WorkOK
<1>4. new = "overdue" => i \in pastDue
  BY DEF StatusFor
<1>5. invoice' = invoice \/ invoice' = [invoice EXCEPT ![i].status = new]
  BY DEF SaveStatus
<1> HIDE DEF new
<1>6. StatusBacked'
  <2>1. invoice \in [Invoices -> [total : 0..MaxAmount, status : InvoiceStatus]]
    BY DEF TypeInv, TypeOK, RowsTypeOK
  <2>2. \A n \in Invoices :
          \/ invoice'[n].status = invoice[n].status
          \/ n = i /\ invoice'[n].status = new
    BY <1>5, <2>1
  <2>3. StatusBacked
    BY DEF MoneyInv
  <2> QED
    BY <1>1, <1>3, <1>4, <2>2, <2>3 DEF StatusBacked
<1>7. Kept /\ GatewayTruth' /\ RefundBacked'
  BY <1>1, SameRowsKept DEF MoneyInv, GatewayTruth, RefundBacked
<1>8. Backed'
  BY <1>1, <1>6, <1>7, PayoutsStayBacked DEF Backed
<1>9. Others(h) /\ WorkOK(h)'
  BY <1>1, KeepsOthers, StepWork, AfterRecomputeWork DEF SaveStatus, PCs
<1> QED
  BY <1>7, <1>8, <1>9, OneStep

LEMMA CreditMoney ==
  ASSUME TypeInv, MoneyInv, NEW h \in Handlers, CheckCredit(h) \/ GrantCredit(h)
  PROVE  MoneyInv'
<1>1. UNCHANGED <<invoice, payments, refunds, payouts, pastDue, outcome>>
  BY DEF CheckCredit, GrantCredit, rows
<1>2. Kept /\ Backed'
  BY <1>1, SameRowsKept, SameRowsBacked
<1>3. Others(h) /\ WorkOK(h)'
  BY <1>1, KeepsOthers, StepWork, AfterRecomputeWork DEF CheckCredit, GrantCredit, PCs
<1> QED
  BY <1>2, <1>3, OneStep

\* The request still knows that its payment was received, and the UNIQUE payment_id does the rest.
LEMMA GeneratePayoutMoney ==
  ASSUME TypeInv, MoneyInv, NEW h \in Handlers, GeneratePayout(h)
  PROVE  MoneyInv'
<1> DEFINE k == job[h].key
<1>1. UNCHANGED <<invoice, payments, refunds, pastDue, outcome>> /\ Finish(h)
  BY DEF GeneratePayout
<1>2. pc[h] = "payout" /\ job[h].op \in {"record", "webhook"} /\ k \in PayIds
  BY DEF GeneratePayout, TypeInv, HandlerOK, PayIds
<1>3. payments[k].inv = job[h].inv /\ payments[k].status \in Received
  <2>1. WorkOK(h)
    BY DEF MoneyInv
  <2> QED
    BY <1>2, <2>1 DEF WorkOK
<1>4. payouts \in [PayIds -> Nat]
  BY DEF TypeInv, TypeOK, RowsTypeOK
<1>5. \/ payouts' = payouts
      \/ /\ payouts' = [payouts EXCEPT ![k] = payouts[k] + 1]
         /\ payouts[k] = 0 /\ job[h].inv \in Shared
  BY DEF GeneratePayout, PayoutDue
<1>6. PayoutBacked'
  BY <1>1, <1>2, <1>3, <1>4, <1>5 DEF PayoutBacked, MoneyInv
<1>7. Kept /\ GatewayTruth' /\ RefundBacked' /\ StatusBacked'
  BY <1>1, SameRowsKept, StatusStaysBacked DEF MoneyInv, GatewayTruth, RefundBacked
<1>8. Others(h) /\ WorkOK(h)'
  BY <1>1, KeepsOthers, FinishWork DEF Finish
<1> QED
  BY <1>6, <1>7, <1>8, OneStep DEF Backed

LEMMA ContinueMoney ==
  ASSUME TypeInv, MoneyInv, NEW h \in Handlers, Continue(h)
  PROVE  MoneyInv'
BY InsertNoteMoney, InsertPaymentMoney, OpenSessionMoney, SettlePaymentMoney, AuditSettleMoney,
   InsertRefundMoney, MarkRefundedMoney, AuditRefundMoney, SumsMoney, SaveStatusMoney,
   CreditMoney, GeneratePayoutMoney
   DEF Continue

LEMMA FailMoney ==
  ASSUME TypeInv, MoneyInv, NEW h \in Handlers, Fail(h)
  PROVE  MoneyInv'
<1>1. Kept /\ Backed'
  BY SameRowsKept, SameRowsBacked DEF Fail, rows
<1>2. Others(h) /\ WorkOK(h)'
  BY FinishWork DEF Fail, Others, TypeInv, TypeOK, LocalTypeOK
<1> QED
  BY <1>1, <1>2, OneStep

LEMMA EnvironmentMoney ==
  ASSUME TypeInv, MoneyInv,
         \/ \E s \in Sessions, o \in {"succeeded", "failed"} : GatewayDecides(s, o)
         \/ \E i \in Invoices : DueDatePasses(i)
         \/ UNCHANGED vars
  PROVE  MoneyInv'
<1>1. UNCHANGED <<invoice, payments, refunds, payouts, pc, job, sums>>
  BY DEF GatewayDecides, DueDatePasses, vars, local, rows
<1>2. pastDue \subseteq pastDue'
  BY DEF GatewayDecides, DueDatePasses, vars
\* The gateway decides a session whose payment is pending.
<1>3. \A s \in Sessions : outcome[s] = outcome'[s]
                          \/ (outcome[s] = "none" /\ payments[s].status = "pending")
                          \/ (outcome[s] = "none" /\ payments[s].status = "none")
  BY DEF GatewayDecides, DueDatePasses, vars, TypeInv, TypeOK, RowsTypeOK
<1>4. Kept
  BY <1>1, <1>2, <1>3 DEF Kept
<1>5. GatewayTruth'
  BY <1>1, <1>3 DEF MoneyInv, GatewayTruth, Received
<1>6. RefundBacked'
  BY <1>1 DEF MoneyInv, RefundBacked
<1>7. \A g \in Handlers : WorkOK(g)'
  BY <1>1, <1>4, OthersWork
<1> QED
  BY <1>1, <1>4, <1>5, <1>6, <1>7, PayoutsStayBacked, StatusStaysBacked DEF MoneyInv

LEMMA MoneyStep == TypeInv /\ MoneyInv /\ [Next]_vars => MoneyInv'
<1> SUFFICES ASSUME TypeInv, MoneyInv, [Next]_vars PROVE MoneyInv'
  OBVIOUS
<1> QED
  BY ArriveMoney, ContinueMoney, FailMoney, DeliverWebhookMoney, EnvironmentMoney DEF Next

-----------------------------------------------------------------------------
\* The invariant that the model checker evaluates is inductive: it holds of every reachable state.
THEOREM Invariant == Spec => []IInv
<1>1. Init => IInv
  BY TypeInit, MoneyInit DEF IInv
<1>2. IInv /\ [Next]_vars => IInv'
  BY TypeStep, MoneyStep DEF IInv
<1> QED
  BY <1>1, <1>2, PTL DEF Spec

\* A gateway payment's status is what the gateway reported, however webhooks are repeated and
\* overlap with each other and with refunds (confirmGatewayWebhook).
THEOREM GatewayTold == Spec => []GatewayTruth
<1>1. IInv => GatewayTruth
  BY DEF IInv, MoneyInv
<1> QED
  BY <1>1, Invariant, PTL

\* No payment is marked refunded without the row that says so (refundPayment).
THEOREM RefundsBacked == Spec => []RefundBacked
<1>1. IInv => RefundBacked
  BY DEF IInv, MoneyInv
<1> QED
  BY <1>1, Invariant, PTL

\* A teacher is paid out at most once for a payment, and only for one that was received for an
\* invoice of an institute (generatePayoutIfApplicable).
THEOREM PayoutsBacked == Spec => []PayoutBacked
<1>1. IInv => PayoutBacked
  BY DEF IInv, MoneyInv
<1> QED
  BY <1>1, Invariant, PTL

\* An invoice that claims to be paid, even in part, or to be overdue has a reason
\* (recomputeInvoiceStatus).
THEOREM StatusesBacked == Spec => []StatusBacked
<1>1. IInv => StatusBacked
  BY DEF IInv, MoneyInv
<1> QED
  BY <1>1, Invariant, PTL

-----------------------------------------------------------------------------
(* The action property HistoryKept: invoices and payments are immutable    *)
(* but for their status, and everything else only grows.                   *)

LEMMA ExtendsItself == ASSUME NEW S, NEW s \in Seq(S) PROVE Extends(s, s)
BY DEF Extends

LEMMA ExtendsAppend ==
  ASSUME NEW S, NEW s \in Seq(S), NEW e \in S
  PROVE  Extends(Append(s, e), s)
BY DEF Extends

History ==
  /\ \A i \in Invoices : InvoiceHistoryKept(i)
  /\ \A k \in PayIds : PaymentHistoryKept(k)
  /\ Extends(ledger', ledger)

\* The parts of a payment's history, table by table.
PaymentsFixed ==
  \A k \in PayIds : payments[k].status # "none" =>
    /\ payments'[k].status # "none"
    /\ payments'[k].inv = payments[k].inv
    /\ payments'[k].amount = payments[k].amount
Grows(new, old) == \A k \in PayIds : new[k] >= old[k]
AuditGrows == \A k \in PayIds : Extends(audit'[k], audit[k])
InvoicesFixed == \A i \in Invoices : invoice'[i].total = invoice[i].total
CreditedGrows == \A i \in Invoices : credited'[i] >= credited[i]

LEMMA HistoryParts ==
  History <=> /\ InvoicesFixed /\ CreditedGrows /\ PaymentsFixed /\ AuditGrows
              /\ Grows(refunds', refunds) /\ Grows(payouts', payouts) /\ Extends(ledger', ledger)
BY DEF History, InvoiceHistoryKept, PaymentHistoryKept, InvoicesFixed, CreditedGrows,
       PaymentsFixed, AuditGrows, Grows

\* A table that a statement does not write.
LEMMA Unwritten ==
  ASSUME TypeInv
  PROVE  /\ UNCHANGED invoice => InvoicesFixed
         /\ UNCHANGED credited => CreditedGrows
         /\ UNCHANGED payments => PaymentsFixed
         /\ UNCHANGED audit => AuditGrows
         /\ UNCHANGED refunds => Grows(refunds', refunds)
         /\ UNCHANGED payouts => Grows(payouts', payouts)
         /\ UNCHANGED ledger => Extends(ledger', ledger)
<1>1. /\ credited \in [Invoices -> Nat] /\ refunds \in [PayIds -> Nat] /\ payouts \in [PayIds -> Nat]
      /\ audit \in [PayIds -> Seq(PaymentStatus)]
      /\ ledger \in Seq([inv : Invoices, amount : Nat])
  BY DEF TypeInv, TypeOK, RowsTypeOK
<1>2. \A n \in Nat : n >= n
  OBVIOUS
<1>3. UNCHANGED credited => CreditedGrows
  BY <1>1, <1>2 DEF CreditedGrows
<1>4. UNCHANGED refunds => Grows(refunds', refunds)
  BY <1>1, <1>2 DEF Grows
<1>5. UNCHANGED payouts => Grows(payouts', payouts)
  BY <1>1, <1>2 DEF Grows
<1>6. UNCHANGED audit => AuditGrows
  BY <1>1, ExtendsItself DEF AuditGrows
<1>7. UNCHANGED ledger => Extends(ledger', ledger)
  BY <1>1, ExtendsItself
<1>8. (UNCHANGED invoice => InvoicesFixed) /\ (UNCHANGED payments => PaymentsFixed)
  BY DEF InvoicesFixed, PaymentsFixed
<1> QED
  BY <1>3, <1>4, <1>5, <1>6, <1>7, <1>8

LEMMA IncrementGrows ==
  ASSUME NEW T \in [PayIds -> Nat], NEW k \in PayIds, NEW U, U = [T EXCEPT ![k] = T[k] + 1]
  PROVE  Grows(U, T)
<1>1. \A n \in Nat : n + 1 >= n /\ n >= n
  OBVIOUS
<1> QED
  BY <1>1 DEF Grows

LEMMA StatusOnly ==
  ASSUME TypeInv, NEW k \in PayIds, NEW st \in PaymentStatus \ {"none"},
         payments' = [payments EXCEPT ![k].status = st]
  PROVE  PaymentsFixed
<1>1. payments \in [PayIds -> [status : PaymentStatus, inv : Invoices \union {None},
                               amount : 0..MaxAmount]]
  BY DEF TypeInv, TypeOK, RowsTypeOK
<1> QED
  BY <1>1 DEF PaymentsFixed

LEMMA LoggedGrows ==
  ASSUME TypeInv, NEW k \in PayIds, NEW st \in PaymentStatus, audit' = Logged(k, st)
  PROVE  AuditGrows
<1>1. audit \in [PayIds -> Seq(PaymentStatus)]
  BY DEF TypeInv, TypeOK, RowsTypeOK
<1>2. \A m \in PayIds : audit'[m] = IF m = k THEN Append(audit[k], st) ELSE audit[m]
  BY <1>1 DEF Logged
<1>3. Extends(Append(audit[k], st), audit[k])
  BY <1>1, ExtendsAppend
<1>4. \A m \in PayIds : Extends(audit[m], audit[m])
  BY <1>1, ExtendsItself
<1> QED
  BY <1>2, <1>3, <1>4 DEF AuditGrows

LEMMA ContinueHistory ==
  ASSUME TypeInv, NEW h \in Handlers, Continue(h)
  PROVE  History
<1>1. CASE InsertNote(h)
  <2>1. CreditedGrows
    <3>1. credited \in [Invoices -> Nat] /\ job[h].amount \in Nat
      BY PaymentsAssumption DEF TypeInv, TypeOK, RowsTypeOK, LocalTypeOK, JobType
    <3>2. \A m \in Nat, n \in Nat : m + n >= m /\ m >= m
      OBVIOUS
    <3>3. credited' = [credited EXCEPT ![job[h].inv] = credited[job[h].inv] + job[h].amount]
      BY <1>1 DEF InsertNote
    <3> QED
      BY <3>1, <3>2, <3>3 DEF CreditedGrows
  <2> QED
    BY <1>1, <2>1, Unwritten, HistoryParts DEF InsertNote
<1>2. CASE InsertPayment(h)
  <2>1. PaymentsFixed
    <3>1. payments \in [PayIds -> [status : PaymentStatus, inv : Invoices \union {None},
                                   amount : 0..MaxAmount]]
      BY DEF TypeInv, TypeOK, RowsTypeOK
    <3> QED
      BY <1>2, <3>1 DEF InsertPayment, PaymentsFixed
  <2> QED
    BY <1>2, <2>1, Unwritten, HistoryParts DEF InsertPayment
<1>3. CASE \E s \in Sessions : OpenSession(h, s)
  <2>1. PaymentsFixed
    <3>1. payments \in [PayIds -> [status : PaymentStatus, inv : Invoices \union {None},
                                   amount : 0..MaxAmount]]
      BY DEF TypeInv, TypeOK, RowsTypeOK
    <3> QED
      BY <1>3, <3>1 DEF OpenSession, PaymentsFixed
  <2> QED
    BY <1>3, <2>1, Unwritten, HistoryParts DEF OpenSession
<1>4. CASE SettlePayment(h)
  <2>1. job[h].key \in PayIds /\ Reported(job[h].key) \in PaymentStatus \ {"none"}
    BY <1>4 DEF SettlePayment, Step, TypeInv, HandlerOK, PayIds, Reported, PaymentStatus
  <2>2. payments' = [payments EXCEPT ![job[h].key].status = Reported(job[h].key)]
    BY <1>4 DEF SettlePayment
  <2>3. PaymentsFixed
    BY <2>1, <2>2, StatusOnly
  <2> QED
    BY <1>4, <2>3, Unwritten, HistoryParts DEF SettlePayment
<1>5. CASE AuditSettle(h)
  <2>1. job[h].key \in PayIds /\ Reported(job[h].key) \in PaymentStatus
    BY <1>5 DEF AuditSettle, TypeInv, HandlerOK, PayIds, Reported, PaymentStatus
  <2>2. AuditGrows
    BY <1>5, <2>1, LoggedGrows DEF AuditSettle
  <2> QED
    BY <1>5, <2>2, Unwritten, HistoryParts DEF AuditSettle
<1>6. CASE InsertRefund(h)
  <2>1. job[h].key \in PayIds /\ refunds \in [PayIds -> Nat]
    BY <1>6 DEF InsertRefund, Step, TypeInv, HandlerOK, TypeOK, RowsTypeOK
  <2>2. refunds' = [refunds EXCEPT ![job[h].key] = refunds[job[h].key] + 1]
    BY <1>6 DEF InsertRefund
  <2>3. Grows(refunds', refunds)
    BY <2>1, <2>2, IncrementGrows
  <2> QED
    BY <1>6, <2>3, Unwritten, HistoryParts DEF InsertRefund
<1>7. CASE MarkRefunded(h)
  <2>1. job[h].key \in PayIds
    BY <1>7 DEF MarkRefunded, Step, TypeInv, HandlerOK
  <2>2. /\ "refunded" \in PaymentStatus \ {"none"}
        /\ payments' = [payments EXCEPT ![job[h].key].status = "refunded"]
    BY <1>7 DEF MarkRefunded, PaymentStatus
  <2>3. PaymentsFixed
    BY <2>1, <2>2, StatusOnly
  <2> QED
    BY <1>7, <2>3, Unwritten, HistoryParts DEF MarkRefunded
<1>8. CASE AuditRefund(h)
  <2>1. job[h].key \in PayIds
    BY <1>8 DEF AuditRefund, Step, TypeInv, HandlerOK
  <2>2. AuditGrows
    BY <1>8, <2>1, LoggedGrows DEF AuditRefund, PaymentStatus
  <2> QED
    BY <1>8, <2>2, Unwritten, HistoryParts DEF AuditRefund
<1>9. CASE ReadNotes(h) \/ ReadPayments(h) \/ CheckCredit(h)
  BY <1>9, Unwritten, HistoryParts DEF ReadNotes, ReadPayments, CheckCredit, rows
<1>10. CASE SaveStatus(h)
  <2>1. InvoicesFixed
    <3>1. invoice \in [Invoices -> [total : 0..MaxAmount, status : InvoiceStatus]]
      BY DEF TypeInv, TypeOK, RowsTypeOK
    <3> DEFINE new == StatusFor(sums[h].net, sums[h].paid, job[h].inv \in pastDue)
    <3>2. invoice' = invoice \/ invoice' = [invoice EXCEPT ![job[h].inv].status = new]
      BY <1>10 DEF SaveStatus
    <3> HIDE DEF new
    <3> QED
      BY <3>1, <3>2 DEF InvoicesFixed
  <2> QED
    BY <1>10, <2>1, Unwritten, HistoryParts DEF SaveStatus
<1>11. CASE GrantCredit(h)
  <2> DEFINE entry == [inv |-> job[h].inv, amount |-> Overpay(h)]
  <2>1. entry \in [inv : Invoices, amount : Nat]
    BY <1>11, CreditEntryType
  <2>2. ledger \in Seq([inv : Invoices, amount : Nat]) /\ ledger' = Append(ledger, entry)
    BY <1>11 DEF GrantCredit, TypeInv, TypeOK, RowsTypeOK
  <2> HIDE DEF entry
  <2>3. Extends(ledger', ledger)
    BY <2>1, <2>2, ExtendsAppend
  <2> QED
    BY <1>11, <2>3, Unwritten, HistoryParts DEF GrantCredit
<1>12. CASE GeneratePayout(h)
  <2>1. job[h].key \in PayIds /\ payouts \in [PayIds -> Nat]
    BY <1>12 DEF GeneratePayout, TypeInv, HandlerOK, TypeOK, RowsTypeOK, PayIds
  <2>2. payouts' = payouts \/ payouts' = [payouts EXCEPT ![job[h].key] = payouts[job[h].key] + 1]
    BY <1>12 DEF GeneratePayout
  <2>3. Grows(payouts', payouts)
    BY <2>1, <2>2, IncrementGrows, Unwritten
  <2> QED
    BY <1>12, <2>3, Unwritten, HistoryParts DEF GeneratePayout
<1> QED
  BY <1>1, <1>2, <1>3, <1>4, <1>5, <1>6, <1>7, <1>8, <1>9, <1>10, <1>11, <1>12 DEF Continue

LEMMA OtherHistory ==
  ASSUME TypeInv, UNCHANGED rows
  PROVE  History
BY Unwritten, HistoryParts DEF rows

LEMMA HistoryStep == TypeInv /\ [Next]_vars => History
<1> SUFFICES ASSUME TypeInv, [Next]_vars PROVE History
  OBVIOUS
<1>1. CASE \E h \in Handlers : Continue(h)
  BY <1>1, ContinueHistory
<1>2. CASE UNCHANGED rows
  BY <1>2, OtherHistory
<1>3. (\E h \in Handlers : Continue(h)) \/ UNCHANGED rows
  BY DEF Next, Arrive, StartNote, StartRecord, StartInitiate, StartRefund, Fail, DeliverWebhook,
         GatewayDecides, DueDatePasses, vars
<1> QED
  BY <1>1, <1>2, <1>3

\* Whatever requests, repetitions and failures do, an invoice's total and a payment's invoice and
\* amount never change, and refunds, audit rows, credits, notes and payouts are only ever added
\* (the entities' "IMMUTABLE" and "append-only").
THEOREM NothingRewritten == Spec => HistoryKept
<1>1. Spec => []TypeInv
  BY TypeInit, TypeStep, PTL DEF Spec
<1>2. TypeInv /\ [Next]_vars =>
        [/\ \A i \in Invoices : InvoiceHistoryKept(i)
         /\ \A k \in PayIds : PaymentHistoryKept(k)
         /\ Extends(ledger', ledger)]_vars
  BY HistoryStep DEF History
<1> QED
  BY <1>1, <1>2, PTL DEF Spec, HistoryKept

-----------------------------------------------------------------------------
(* The life cycle of a payment's status, when deliveries of a session do   *)
(* not overlap.  A delivery that is about to settle a payment then works   *)
(* on one that is still pending, as nobody else settles it.                *)

Delivers(h, s) == job[h].op = "webhook" /\ job[h].key = s

OneDelivery ==
  \A s \in Sessions, g, h \in Handlers : Delivers(g, s) /\ Delivers(h, s) => g = h

Unsettled(h) == pc[h] = "settle" => payments[job[h].key].status = "pending"

DeliveryInv == OneDelivery /\ \A h \in Handlers : Unsettled(h)

Statuses == [k \in PayIds |-> payments[k].status]

LEMMA DeliveryInit == Init => DeliveryInv
BY DEF Init, DeliveryInv, OneDelivery, Delivers, Unsettled, NoJob

LEMMA StatusesType ==
  ASSUME TypeInv
  PROVE  /\ payments \in [PayIds -> PaymentRow]
         /\ \A k \in PayIds : Statuses[k] = payments[k].status
BY DEF TypeInv, TypeOK, RowsTypeOK, PaymentRow, Statuses

\* A row whose status is written moves, and no other row does.
LEMMA StatusMoves ==
  ASSUME TypeInv, NEW k \in PayIds, NEW row, NEW st, row.status = st,
         payments' = [payments EXCEPT ![k] = row]
  PROVE  Statuses' = [Statuses EXCEPT ![k] = st]
<1>1. payments \in [PayIds -> PaymentRow]
  BY StatusesType
<1>2. \A m \in PayIds : payments'[m] = IF m = k THEN row ELSE payments[m]
  BY <1>1
<1>3. \A m \in PayIds : payments'[m].status = IF m = k THEN st ELSE payments[m].status
  BY <1>2
<1> QED
  BY <1>3 DEF Statuses

LEMMA StatusWrittenMoves ==
  ASSUME TypeInv, NEW k \in PayIds, NEW st \in PaymentStatus,
         payments' = [payments EXCEPT ![k].status = st]
  PROVE  Statuses' = [Statuses EXCEPT ![k] = st]
<1>1. payments \in [PayIds -> PaymentRow]
  BY StatusesType
<1>2. \A m \in PayIds : payments'[m].status = IF m = k THEN st ELSE payments[m].status
  BY <1>1 DEF PaymentRow
<1> QED
  BY <1>2 DEF Statuses

\* Nothing that a handler's step leaves pending or somebody else's is lost to the invariant.
LEMMA DeliveryKept ==
  ASSUME TypeInv, DeliveryInv, NEW h \in Handlers,
         \A g \in Handlers \ {h} : pc'[g] = pc[g] /\ job'[g] = job[g],
         job'[h] = job[h] \/ job'[h].op # "webhook",
         pc'[h] # "settle",
         \A g \in Handlers \ {h} :
           pc[g] = "settle" => payments'[job[g].key].status = payments[job[g].key].status
  PROVE  DeliveryInv'
<1>1. OneDelivery'
  BY DEF DeliveryInv, OneDelivery, Delivers
<1>2. \A g \in Handlers : Unsettled(g)'
  BY DEF DeliveryInv, Unsettled
<1> QED
  BY <1>1, <1>2 DEF DeliveryInv

\* How a step leaves the memory of the handlers.
LEMMA HandlerMoves ==
  ASSUME TypeInv, NEW h \in Handlers,
         Continue(h) \/ Fail(h) \/ Arrive(h)
  PROVE  /\ \A g \in Handlers \ {h} : pc'[g] = pc[g] /\ job'[g] = job[g]
         /\ job'[h] = job[h] \/ job'[h].op # "webhook"
         /\ pc'[h] # "settle" \/ (pc'[h] = pc[h] /\ job'[h] = job[h])
<1>1. pc \in [Handlers -> PCs] /\ job \in [Handlers -> JobType]
  BY DEF TypeInv, TypeOK, LocalTypeOK
<1>2. NoJob.op # "webhook"
  BY DEF NoJob
<1>3. CASE Arrive(h)
  <2>1. PICK p \in PCs \ {"settle"}, op \in Ops \ {"webhook"} :
          \E i, k, a : Start(h, p, InvoiceJob(op, i, k, a))
    BY <1>3, Zenon DEF Arrive, StartNote, StartRecord, StartInitiate, StartRefund, PaymentJob, PCs, Ops
  <2> QED
    BY <1>1, <2>1 DEF Start, InvoiceJob
<1>4. CASE Fail(h)
  BY <1>1, <1>2, <1>4 DEF Fail
<1>5. CASE InsertNote(h) \/ InsertPayment(h) \/ (\E s \in Sessions : OpenSession(h, s))
           \/ SettlePayment(h) \/ AuditSettle(h)
  BY <1>1, <1>2, <1>5 DEF InsertNote, InsertPayment, OpenSession, SettlePayment, AuditSettle,
                          Step, Finish
<1>6. CASE InsertRefund(h) \/ MarkRefunded(h) \/ AuditRefund(h) \/ GeneratePayout(h)
  BY <1>1, <1>2, <1>6 DEF InsertRefund, MarkRefunded, AuditRefund, GeneratePayout, Step, Finish
<1>7. CASE ReadNotes(h) \/ ReadPayments(h)
  BY <1>1, <1>7 DEF ReadNotes, ReadPayments
<1>8. CASE SaveStatus(h) \/ CheckCredit(h) \/ GrantCredit(h)
  <2>1. Step(h, "sums", "credit") \/ Step(h, "credit", "grant") \/ AfterRecompute(h)
    BY <1>8 DEF SaveStatus, CheckCredit, GrantCredit
  <2> QED
    BY <1>1, <1>2, <2>1 DEF Step, AfterRecompute, Finish
<1> QED
  BY <1>3, <1>4, <1>5, <1>6, <1>7, <1>8 DEF Continue

LEMMA PaymentsUnwritten ==
  ASSUME NEW h \in Handlers, Continue(h)
  PROVE  \/ UNCHANGED payments
         \/ InsertPayment(h) \/ SettlePayment(h) \/ MarkRefunded(h)
         \/ \E s \in Sessions : OpenSession(h, s)
BY Zenon DEF Continue, InsertNote, AuditSettle, InsertRefund, AuditRefund, ReadNotes, ReadPayments,
       SaveStatus, CheckCredit, GrantCredit, GeneratePayout, rows

\* Every statement moves at most one payment, along its life cycle.
LEMMA ContinueDelivers ==
  ASSUME TypeInv, MoneyInv, DeliveryInv, NEW h \in Handlers, Continue(h)
  PROVE  DeliveryInv' /\ (Lifecycle!LNext \/ UNCHANGED Statuses)
<1>1. /\ \A g \in Handlers \ {h} : pc'[g] = pc[g] /\ job'[g] = job[g]
      /\ job'[h] = job[h] \/ job'[h].op # "webhook"
      /\ pc'[h] # "settle" \/ (pc'[h] = pc[h] /\ job'[h] = job[h])
  BY HandlerMoves
<1>2. /\ payments \in [PayIds -> PaymentRow] /\ pc \in [Handlers -> PCs]
      /\ \A k \in PayIds : Statuses[k] = payments[k].status
  BY StatusesType DEF TypeInv, TypeOK, LocalTypeOK
<1>3. \A g \in Handlers : pc[g] = "settle" =>
        job[g].key \in Sessions /\ job[g].op = "webhook" /\ payments[job[g].key].status = "pending"
  BY DEF TypeInv, HandlerOK, DeliveryInv, Unsettled
<1>4. Keys \intersect Sessions = {} /\ Keys \subseteq PayIds /\ Sessions \subseteq PayIds
  BY PaymentsAssumption DEF PayIds
<1>5. CASE UNCHANGED payments
  <2>1. UNCHANGED Statuses
    BY <1>5 DEF Statuses
  <2>2. OneDelivery'
    BY <1>1 DEF DeliveryInv, OneDelivery, Delivers
  <2>3. \A g \in Handlers : Unsettled(g)'
    BY <1>1, <1>5 DEF DeliveryInv, Unsettled
  <2> QED
    BY <2>1, <2>2, <2>3 DEF DeliveryInv
<1>6. CASE InsertPayment(h) /\ ~UNCHANGED payments
  <2>0. PICK key \in Keys : key = job[h].key
    BY <1>6 DEF InsertPayment, TypeInv, HandlerOK
  <2> DEFINE row == [status |-> "confirmed", inv |-> job[h].inv, amount |-> job[h].amount]
  <2>1. payments[key].status = "none" /\ payments' = [payments EXCEPT ![key] = row]
        /\ pc'[h] # "settle"
    BY <1>2, <1>6, <2>0 DEF InsertPayment, Step
  <2>2. row.status = "confirmed" /\ "confirmed" \in PaymentStatus
    BY DEF PaymentStatus
  <2> HIDE DEF row
  <2>3. Statuses' = [Statuses EXCEPT ![key] = "confirmed"]
    BY <1>4, <2>1, <2>2, StatusMoves
  <2>4. Lifecycle!Record(key)
    BY <1>2, <1>4, <2>1, <2>3 DEF Lifecycle!Record, Lifecycle!Move, Statuses
  <2>5. Lifecycle!LNext
    BY <2>1, <2>4 DEF Lifecycle!LNext
  <2>6. \A g \in Handlers \ {h} :
          pc[g] = "settle" => payments'[job[g].key].status = payments[job[g].key].status
    BY <1>2, <1>3, <1>4, <2>1
  <2>7. DeliveryInv'
    BY <1>1, <2>1, <2>6, DeliveryKept
  <2> QED
    BY <2>5, <2>7
<1>7. CASE \E s \in Sessions : OpenSession(h, s)
  <2>1. PICK s \in Sessions : OpenSession(h, s)
    BY <1>7
  <2> DEFINE row == [status |-> "pending", inv |-> job[h].inv, amount |-> AmountDue(h)]
  <2>2. payments[s].status = "none" /\ payments' = [payments EXCEPT ![s] = row] /\ pc'[h] # "settle"
    BY <1>2, <2>1 DEF OpenSession, Finish
  <2>3. row.status = "pending" /\ "pending" \in PaymentStatus
    BY DEF PaymentStatus
  <2> HIDE DEF row
  <2>4. Statuses' = [Statuses EXCEPT ![s] = "pending"]
    BY <1>4, <2>2, <2>3, StatusMoves
  <2>5. Lifecycle!Open(s)
    BY <1>2, <1>4, <2>2, <2>4 DEF Lifecycle!Open, Lifecycle!Move, Statuses
  <2>6. Lifecycle!LNext
    BY <2>5 DEF Lifecycle!LNext
  <2>7. \A g \in Handlers \ {h} :
          pc[g] = "settle" => payments'[job[g].key].status = payments[job[g].key].status
    BY <1>2, <1>3, <1>4, <2>2
  <2>8. DeliveryInv'
    BY <1>1, <2>2, <2>7, DeliveryKept
  <2> QED
    BY <2>6, <2>8
<1>8. CASE SettlePayment(h)
  <2>0. PICK key \in Sessions : key = job[h].key
    BY <1>3, <1>8 DEF SettlePayment, Step
  <2>1. /\ pc[h] = "settle" /\ pc'[h] # "settle"
        /\ payments[key].status = "pending" /\ payments' = [payments EXCEPT ![key].status = Reported(key)]
    BY <1>2, <1>3, <1>8, <2>0 DEF SettlePayment, Step
  <2>2. Reported(key) \in {"confirmed", "failed"} /\ Reported(key) \in PaymentStatus
    BY DEF Reported, PaymentStatus
  <2>3. Statuses' = [Statuses EXCEPT ![key] = Reported(key)]
    BY <1>4, <2>1, <2>2, StatusWrittenMoves
  <2>4. Lifecycle!Settle(key)
    BY <1>2, <1>4, <2>1, <2>2, <2>3 DEF Lifecycle!Settle, Lifecycle!Move, Statuses
  <2>5. Lifecycle!LNext
    BY <2>1, <2>4 DEF Lifecycle!LNext
  <2>6. \A g \in Handlers \ {h} : pc[g] = "settle" => job[g].key # key
    BY <1>3, <2>0, <2>1 DEF DeliveryInv, OneDelivery, Delivers
  <2>7. \A g \in Handlers \ {h} :
          pc[g] = "settle" => payments'[job[g].key].status = payments[job[g].key].status
    BY <1>2, <1>3, <1>4, <2>1, <2>6
  <2>8. DeliveryInv'
    BY <1>1, <2>1, <2>7, DeliveryKept
  <2> QED
    BY <2>5, <2>8
<1>9. CASE MarkRefunded(h)
  <2>0. PICK key \in PayIds : key = job[h].key
    BY <1>9 DEF MarkRefunded, Step, TypeInv, HandlerOK
  <2>1. /\ pc'[h] # "settle" /\ payments[key].status \in Received
        /\ payments' = [payments EXCEPT ![key].status = "refunded"]
    BY <1>2, <1>9, <2>0 DEF MarkRefunded, Step, TypeInv, MoneyInv, HandlerOK, WorkOK
  <2>2. Statuses' = [Statuses EXCEPT ![key] = "refunded"]
    BY <2>1, StatusWrittenMoves DEF PaymentStatus
  <2>3. ASSUME payments[key].status = "confirmed" PROVE Lifecycle!LNext
    <3>1. Lifecycle!Refund(key)
      BY <1>2, <2>1, <2>2, <2>3 DEF Lifecycle!Refund, Lifecycle!Move, Statuses
    <3> QED
      BY <2>1, <3>1 DEF Lifecycle!LNext, Lifecycle!PayIds, PayIds
  <2>4. ASSUME payments[key].status = "refunded" PROVE UNCHANGED Statuses
    BY <1>2, <2>1, <2>2, <2>4 DEF Statuses
  <2>5. \A g \in Handlers \ {h} : pc[g] = "settle" => job[g].key # key
    BY <1>3, <2>1 DEF Received
  <2>6. \A g \in Handlers \ {h} :
          pc[g] = "settle" => payments'[job[g].key].status = payments[job[g].key].status
    BY <1>2, <1>3, <1>4, <2>1, <2>5
  <2>7. DeliveryInv'
    BY <1>1, <2>1, <2>6, DeliveryKept
  <2> QED
    BY <2>1, <2>3, <2>4, <2>7 DEF Received
<1> QED
  BY <1>5, <1>6, <1>7, <1>8, <1>9, PaymentsUnwritten

\* A webhook that starts finds its payment pending, and no other delivery of it in progress.
LEMMA DeliverDelivers ==
  ASSUME MaxInFlight = 1, TypeInv, DeliveryInv, NEW h \in Handlers, NEW s \in Sessions,
         DeliverWebhook(h, s)
  PROVE  DeliveryInv' /\ UNCHANGED Statuses
<1>1. UNCHANGED payments
  BY DEF DeliverWebhook, rows
<1>2. UNCHANGED Statuses
  BY <1>1 DEF Statuses
<1>3. CASE UNCHANGED local
  <2>1. UNCHANGED <<pc, job>>
    BY <1>3 DEF local
  <2> QED
    BY <1>1, <1>2, <2>1 DEF DeliveryInv, OneDelivery, Delivers, Unsettled
<1>4. CASE Start(h, "settle", PaymentJob("webhook", s)) /\ payments[s].status = "pending"
  <2>1. /\ pc \in [Handlers -> PCs] /\ job \in [Handlers -> JobType]
        /\ job'[h].op = "webhook" /\ job'[h].key = s /\ pc'[h] = "settle"
        /\ \A g \in Handlers \ {h} : pc'[g] = pc[g] /\ job'[g] = job[g]
    BY <1>4 DEF TypeInv, TypeOK, LocalTypeOK, Start, PaymentJob, InvoiceJob
  <2>2. \A g \in Handlers : ~Delivers(g, s)
    <3>1. IsFiniteSet(InFlight(s))
      BY PaymentsAssumption, FS_Subset DEF InFlight
    <3>2. Cardinality(InFlight(s)) \in Nat /\ Cardinality(InFlight(s)) < 1
      BY <3>1, FS_CardinalityType DEF DeliverWebhook
    <3>3. InFlight(s) = {}
      BY <3>1, <3>2, FS_EmptySet
    <3> QED
      BY <3>3 DEF InFlight, Delivers
  <2>3. OneDelivery'
    BY <2>1, <2>2 DEF DeliveryInv, OneDelivery, Delivers
  <2>4. \A g \in Handlers : Unsettled(g)'
    BY <1>1, <1>4, <2>1 DEF DeliveryInv, Unsettled
  <2> QED
    BY <1>2, <2>3, <2>4 DEF DeliveryInv
<1> QED
  BY <1>2, <1>3, <1>4 DEF DeliverWebhook, AlreadyReconciled

LEMMA DeliveryStep ==
  ASSUME MaxInFlight = 1, TypeInv, MoneyInv, DeliveryInv, [Next]_vars
  PROVE  DeliveryInv' /\ (Lifecycle!LNext \/ UNCHANGED Statuses)
<1>1. CASE \E h \in Handlers : Continue(h)
  BY <1>1, ContinueDelivers
<1>2. CASE \E h \in Handlers : Arrive(h) \/ Fail(h)
  <2>1. PICK h \in Handlers : Arrive(h) \/ Fail(h)
    BY <1>2
  <2>2. UNCHANGED payments
    BY <2>1, Zenon DEF Arrive, StartNote, StartRecord, StartInitiate, StartRefund, Fail, rows
  <2>3. /\ \A g \in Handlers \ {h} : pc'[g] = pc[g] /\ job'[g] = job[g]
        /\ job'[h] = job[h] \/ job'[h].op # "webhook"
        /\ pc'[h] # "settle" \/ (pc'[h] = pc[h] /\ job'[h] = job[h])
    BY <2>1, HandlerMoves
  <2>4. OneDelivery' /\ \A g \in Handlers : Unsettled(g)'
    BY <2>2, <2>3 DEF DeliveryInv, OneDelivery, Delivers, Unsettled
  <2> QED
    BY <2>2, <2>4 DEF DeliveryInv, Statuses
<1>3. CASE \E h \in Handlers, s \in Sessions : DeliverWebhook(h, s)
  BY <1>3, DeliverDelivers
<1>4. CASE \/ \E s \in Sessions, o \in {"succeeded", "failed"} : GatewayDecides(s, o)
           \/ \E i \in Invoices : DueDatePasses(i)
           \/ UNCHANGED vars
  <2>1. UNCHANGED <<payments, pc, job>>
    BY <1>4, Zenon DEF GatewayDecides, DueDatePasses, vars, rows, local
  <2> QED
    BY <2>1 DEF DeliveryInv, OneDelivery, Delivers, Unsettled, Statuses
<1> QED
  BY <1>1, <1>2, <1>3, <1>4 DEF Next

\* As long as the gateway waits for the end of a delivery before it repeats it, a payment's status
\* follows its life cycle, whatever else interleaves with it and whatever dies: it is settled once,
\* and refunded and failed are final.
THEOREM LifecycleImplemented ==
  ASSUME MaxInFlight = 1
  PROVE  Spec => ImplementsLifecycle
<1>1. Init => Lifecycle!LInit
  BY DEF Init, Lifecycle!LInit, NoRow, Lifecycle!PayIds, PayIds
<1>2. IInv /\ DeliveryInv /\ [Next]_vars => DeliveryInv' /\ [Lifecycle!LNext]_Statuses
  BY DeliveryStep DEF IInv
<1>3. Init => DeliveryInv
  BY DeliveryInit
<1> QED
  BY <1>1, <1>2, <1>3, Invariant, PTL DEF Spec, ImplementsLifecycle, Lifecycle!LSpec, Statuses

-----------------------------------------------------------------------------
(* One request at a time.  What the handler has read is then still so when *)
(* it acts on it, also after others have died: the status it saw (Seen),   *)
(* the sums (Summed), the payment it is about to settle or refund (Found). *)

Serial == \A g, h \in Handlers : g = h

Found(h) ==
  /\ pc[h] = "settle" => payments[job[h].key].status = "pending"
  /\ pc[h] \in {"insertRefund", "markRefunded"} => payments[job[h].key].status = "confirmed"

Early == {"insertNote", "insertPayment", "settle", "auditSettle",
          "insertRefund", "markRefunded", "auditRefund"}

Seen(h) ==
  pc[h] \in Early \union {"sums"} => job[h].seen = invoice[job[h].inv].status

\* What getFinancials may derive from the rows, for every invoice.
Nets == [i \in Invoices |-> NetTotals(i)]
Paids == [i \in Invoices |-> PaidTotals(i)]

Summed(h) ==
  /\ pc[h] \in Early => sums[h] = NoSums
  /\ sums[h].net # Unread => sums[h].net \in Nets[job[h].inv]
  /\ sums[h].paid # Unread => sums[h].paid \in Paids[job[h].inv]

\* A handler that has changed what an invoice's status is derived from, and not yet the status.
Owes(h) ==
  \/ pc[h] = "auditSettle" /\ Reported(job[h].key) = "confirmed"
  \/ pc[h] = "auditRefund"
  \/ pc[h] = "sums" /\ job[h].op # "initiate"

\* Agrees, of the functions above.
Fits(i) ==
  \E late \in BOOLEAN, n \in Nets[i], p \in Paids[i] :
    /\ late => i \in pastDue
    /\ invoice[i].status = StatusFor(n, p, late)

Saved == {"credit", "grant", "payout"}

AgreeInv ==
  /\ \A h \in Handlers : Seen(h) /\ Summed(h)
  /\ \A h \in Handlers : pc[h] \in Saved => Fits(job[h].inv)
  /\ fails = 0 =>
       \A i \in Invoices : Fits(i) \/ \E h \in Handlers : Owes(h) /\ job[h].inv = i

\* Credit about to be granted has not been granted.
Ungranted(h) == pc[h] = "grant" => ~AlreadyCredited(job[h].inv, Overpay(h))

GrantInv == NoDuplicateCredit /\ \A h \in Handlers : Ungranted(h)

FoundInv == \A h \in Handlers : Found(h)

LEMMA FoundInit == Init => FoundInv
BY DEF Init, FoundInv, Found

\* Which statements follow each other.
LEMMA Follows ==
  ASSUME TypeInv, NEW h \in Handlers, Continue(h)
  PROVE  /\ pc'[h] \in {"settle", "insertNote", "insertPayment", "insertRefund"} => FALSE
         /\ pc'[h] = "markRefunded" => InsertRefund(h)
         /\ pc'[h] = "auditSettle" => SettlePayment(h)
         /\ pc'[h] = "auditRefund" => MarkRefunded(h)
         /\ pc'[h] = "grant" => CheckCredit(h)
<1>1. pc \in [Handlers -> PCs]
  BY DEF TypeInv, TypeOK, LocalTypeOK
<1>2. CASE InsertNote(h) \/ InsertPayment(h) \/ (\E s \in Sessions : OpenSession(h, s))
  BY <1>1, <1>2 DEF InsertNote, InsertPayment, OpenSession, Step, Finish
<1>3. CASE SettlePayment(h) \/ AuditSettle(h) \/ GeneratePayout(h)
  BY <1>1, <1>3 DEF SettlePayment, AuditSettle, GeneratePayout, Step, Finish
<1>4. CASE InsertRefund(h) \/ MarkRefunded(h) \/ AuditRefund(h)
  BY <1>1, <1>4 DEF InsertRefund, MarkRefunded, AuditRefund, Step
<1>5. CASE ReadNotes(h) \/ ReadPayments(h)
  BY <1>1, <1>5 DEF ReadNotes, ReadPayments
<1>6. CASE SaveStatus(h) \/ CheckCredit(h) \/ GrantCredit(h)
  <2>1. \/ Step(h, "sums", "credit") \/ AfterRecompute(h)
        \/ CheckCredit(h) /\ Step(h, "credit", "grant")
    BY <1>6 DEF SaveStatus, CheckCredit, GrantCredit
  <2> QED
    BY <1>1, <2>1 DEF Step, AfterRecompute, Finish
<1> QED
  BY <1>2, <1>3, <1>4, <1>5, <1>6 DEF Continue

LEMMA FoundStep ==
  ASSUME Serial, TypeInv, FoundInv, [Next]_vars
  PROVE  FoundInv'
<1>0. pc \in [Handlers -> PCs] /\ job \in [Handlers -> JobType]
  BY DEF TypeInv, TypeOK, LocalTypeOK
<1>1. ASSUME NEW h \in Handlers, Continue(h) PROVE FoundInv'
  <2>1. CASE InsertRefund(h)
    <3>1. pc[h] = "insertRefund" /\ UNCHANGED <<payments, job>>
      BY <2>1 DEF InsertRefund, Step
    <3>2. Found(h)'
      BY <3>1, <2>1, <1>0 DEF FoundInv, Found, InsertRefund, Step
    <3> QED
      BY <3>2 DEF Serial, FoundInv
  <2>2. CASE ~InsertRefund(h)
    <3>1. Found(h)'
      BY <1>1, <2>2, Follows DEF Found
    <3> QED
      BY <3>1 DEF Serial, FoundInv
  <2> QED
    BY <2>1, <2>2
<1>2. ASSUME NEW h \in Handlers, Arrive(h) PROVE FoundInv'
  <2>1. UNCHANGED payments
    BY <1>2, Zenon DEF Arrive, StartNote, StartRecord, StartInitiate, StartRefund, rows
  <2>2. CASE \E k \in PayIds : StartRefund(h, k)
    <3>1. Found(h)'
      BY <1>0, <2>1, <2>2 DEF StartRefund, Start, PaymentJob, InvoiceJob, Found
    <3> QED
      BY <3>1 DEF Serial, FoundInv
  <2>3. CASE ~ \E k \in PayIds : StartRefund(h, k)
    <3>1. PICK p \in {"insertNote", "insertPayment", "sums"} : \E j : Start(h, p, j)
      BY <1>2, <2>3 DEF Arrive, StartNote, StartRecord, StartInitiate
    <3>2. Found(h)'
      BY <1>0, <3>1 DEF Start, Found
    <3> QED
      BY <3>2 DEF Serial, FoundInv
  <2> QED
    BY <2>2, <2>3
<1>3. ASSUME NEW h \in Handlers, Fail(h) PROVE FoundInv'
  <2>1. Found(h)'
    BY <1>0, <1>3 DEF Fail, Found
  <2> QED
    BY <2>1 DEF Serial, FoundInv
<1>4. ASSUME NEW h \in Handlers, NEW s \in Sessions, DeliverWebhook(h, s) PROVE FoundInv'
  <2>1. UNCHANGED payments
    BY <1>4 DEF DeliverWebhook, rows
  <2>2. CASE UNCHANGED local
    BY <2>1, <2>2 DEF local, FoundInv, Found
  <2>3. CASE Start(h, "settle", PaymentJob("webhook", s)) /\ payments[s].status = "pending"
    <3>1. Found(h)'
      BY <1>0, <2>1, <2>3 DEF Start, PaymentJob, InvoiceJob, Found
    <3> QED
      BY <3>1 DEF Serial, FoundInv
  <2> QED
    BY <1>4, <2>2, <2>3 DEF DeliverWebhook, AlreadyReconciled
<1>5. CASE \/ \E s \in Sessions, o \in {"succeeded", "failed"} : GatewayDecides(s, o)
           \/ \E i \in Invoices : DueDatePasses(i)
           \/ UNCHANGED vars
  <2>1. UNCHANGED <<payments, pc, job>>
    BY <1>5, Zenon DEF GatewayDecides, DueDatePasses, vars, rows, local
  <2> QED
    BY <2>1 DEF FoundInv, Found
<1> QED
  BY <1>1, <1>2, <1>3, <1>4, <1>5 DEF Next

-----------------------------------------------------------------------------
(* No overpayment is credited twice. *)

LEMMA GrantInit == Init => GrantInv
BY DEF Init, GrantInv, NoDuplicateCredit, Ungranted

LEMMA GrantStep ==
  ASSUME Serial, TypeInv, GrantInv, [Next]_vars
  PROVE  GrantInv'
<1>0. /\ pc \in [Handlers -> PCs] /\ job \in [Handlers -> JobType]
      /\ ledger \in Seq([inv : Invoices, amount : Nat])
  BY DEF TypeInv, TypeOK, RowsTypeOK, LocalTypeOK
<1>1. ASSUME NEW h \in Handlers, GrantCredit(h) PROVE GrantInv'
  <2> DEFINE entry == [inv |-> job[h].inv, amount |-> Overpay(h)]
             old == Len(ledger)
  <2>1. pc[h] = "grant" /\ ledger' = Append(ledger, entry) /\ pc'[h] # "grant"
    BY <1>0, <1>1 DEF GrantCredit, AfterRecompute, Finish
  <2>2. \A n \in 1..old : ledger[n] # entry
    BY <2>1 DEF GrantInv, Ungranted, AlreadyCredited
  <2> HIDE DEF entry
  <2>3. /\ old \in Nat /\ Len(ledger') = old + 1 /\ ledger'[old + 1] = entry
        /\ \A n \in 1..old : ledger'[n] = ledger[n]
    BY <1>0, <2>1
  <2>4. NoDuplicateCredit'
    <3> SUFFICES ASSUME NEW m \in 1..(old + 1), NEW n \in 1..(old + 1), ledger'[m] = ledger'[n]
                 PROVE  m = n
      BY <2>3 DEF NoDuplicateCredit
    <3>1. m \in 1..old \/ m = old + 1
      BY <2>3
    <3>2. n \in 1..old \/ n = old + 1
      BY <2>3
    <3> HIDE DEF old
    <3> QED
      BY <2>2, <2>3, <3>1, <3>2 DEF GrantInv, NoDuplicateCredit, old
  <2>5. Ungranted(h)'
    BY <2>1 DEF Ungranted
  <2> QED
    BY <2>4, <2>5 DEF Serial, GrantInv
<1>2. ASSUME NEW h \in Handlers, CheckCredit(h) PROVE GrantInv'
  <2>1. UNCHANGED ledger
    BY <1>2 DEF CheckCredit, rows
  <2>2. CASE AlreadyCredited(job[h].inv, Overpay(h))
    <3>1. pc'[h] # "grant"
      BY <1>0, <1>2, <2>2 DEF CheckCredit, AfterRecompute, Finish
    <3> QED
      BY <2>1, <3>1 DEF Serial, GrantInv, NoDuplicateCredit, Ungranted
  <2>3. CASE ~AlreadyCredited(job[h].inv, Overpay(h))
    <3>1. UNCHANGED <<job, sums>>
      BY <1>2, <2>3 DEF CheckCredit, Step
    <3>2. Ungranted(h)'
      BY <2>1, <2>3, <3>1 DEF Ungranted, AlreadyCredited, Overpay
    <3> QED
      BY <2>1, <3>2 DEF Serial, GrantInv, NoDuplicateCredit
  <2> QED
    BY <2>2, <2>3
<1>3. ASSUME NEW h \in Handlers, UNCHANGED ledger, pc'[h] # "grant" PROVE GrantInv'
  BY <1>3 DEF Serial, GrantInv, NoDuplicateCredit, Ungranted
<1>4. ASSUME NEW h \in Handlers, Continue(h), ~GrantCredit(h), ~CheckCredit(h) PROVE GrantInv'
  <2>1. UNCHANGED ledger
    BY <1>4, Zenon DEF Continue, InsertNote, InsertPayment, OpenSession, SettlePayment, AuditSettle,
       InsertRefund, MarkRefunded, AuditRefund, ReadNotes, ReadPayments, SaveStatus, GeneratePayout, rows
  <2>2. pc'[h] # "grant"
    BY <1>4, Follows
  <2> QED
    BY <1>3, <2>1, <2>2
<1>5. ASSUME NEW h \in Handlers, Arrive(h) \/ Fail(h) PROVE GrantInv'
  <2>1. UNCHANGED ledger
    BY <1>5, Zenon DEF Arrive, StartNote, StartRecord, StartInitiate, StartRefund, Fail, rows
  <2>2. (\E p \in PCs \ {"grant"} : \E j : Start(h, p, j)) \/ Fail(h)
    BY <1>5, Zenon DEF Arrive, StartNote, StartRecord, StartInitiate, StartRefund, PCs
  <2>3. pc'[h] # "grant"
    BY <1>0, <2>2 DEF Start, Fail
  <2> QED
    BY <1>3, <2>1, <2>3
<1>6. ASSUME NEW h \in Handlers, NEW s \in Sessions, DeliverWebhook(h, s) PROVE GrantInv'
  <2>1. UNCHANGED ledger
    BY <1>6 DEF DeliverWebhook, rows
  <2>2. pc'[h] # "grant"
    BY <1>0, <1>6 DEF DeliverWebhook, Start, local
  <2> QED
    BY <1>3, <2>1, <2>2
<1>7. CASE \/ \E s \in Sessions, o \in {"succeeded", "failed"} : GatewayDecides(s, o)
           \/ \E i \in Invoices : DueDatePasses(i)
           \/ UNCHANGED vars
  <2>1. UNCHANGED <<ledger, pc, job, sums>>
    BY <1>7, Zenon DEF GatewayDecides, DueDatePasses, vars, rows, local
  <2> QED
    BY <2>1 DEF GrantInv, NoDuplicateCredit, Ungranted, AlreadyCredited, Overpay
<1> QED
  BY <1>1, <1>2, <1>4, <1>5, <1>6, <1>7 DEF Next

\* One request at a time, the same overpayment is never credited twice, whatever died before.
THEOREM CreditedOnce ==
  ASSUME Serial
  PROVE  Spec => []NoDuplicateCredit
<1>1. TypeInv /\ GrantInv /\ [Next]_vars => GrantInv'
  BY GrantStep
<1>2. Spec => []TypeInv
  BY TypeInit, TypeStep, PTL DEF Spec
<1>3. GrantInv => NoDuplicateCredit
  BY DEF GrantInv
<1> QED
  BY <1>1, <1>2, <1>3, GrantInit, PTL DEF Spec

-----------------------------------------------------------------------------
(* The audit rows of a payment tell its whole history. *)

Confirmed(k) == IF k \in Sessions THEN <<"confirmed">> ELSE <<>>

\* What the rows of a payment of a status are.
Rows(k, st) ==
  IF st = "confirmed" THEN Confirmed(k)
  ELSE IF st = "refunded" THEN Append(Confirmed(k), "refunded")
  ELSE IF st = "failed" THEN Append(<<>>, "failed")
  ELSE <<>>

LEMMA ConfirmedRows ==
  ASSUME NEW k
  PROVE  /\ Confirmed(k) \in Seq(PaymentStatus)
         /\ Confirmed(k) \o <<"refunded">> = Append(Confirmed(k), "refunded")
<1>0. <<>> \in Seq(PaymentStatus) /\ <<"confirmed">> \in Seq(PaymentStatus)
  BY DEF PaymentStatus
<1>1. Confirmed(k) \in Seq(PaymentStatus) /\ "refunded" \in PaymentStatus
  BY <1>0, Zenon DEF Confirmed, PaymentStatus
<1>2. ASSUME NEW S, NEW s \in Seq(S), NEW e \in S PROVE s \o <<e>> = Append(s, e)
  OBVIOUS
<1> QED
  BY <1>1, <1>2

LEMMA ExpectedRows ==
  ASSUME NEW k
  PROVE  ExpectedAudit(k) = Rows(k, payments[k].status)
<1> DEFINE st == payments[k].status
<1>1. /\ <<>> \o <<>> = <<>> /\ <<>> \o <<"failed">> = Append(<<>>, "failed")
      /\ <<"confirmed">> \o <<>> = <<"confirmed">>
  OBVIOUS
<1>2. CASE st = "refunded"
  BY <1>2, ConfirmedRows DEF ExpectedAudit, Received, Rows, Confirmed
<1>3. CASE st = "confirmed"
  BY <1>1, <1>3 DEF ExpectedAudit, Received, Rows, Confirmed
<1>4. CASE st = "failed"
  BY <1>1, <1>4 DEF ExpectedAudit, Received, Rows
<1>5. CASE st \notin {"failed", "confirmed", "refunded"}
  BY <1>1, <1>5 DEF ExpectedAudit, Received, Rows
<1> QED
  BY <1>2, <1>3, <1>4, <1>5

Complete(k) == audit[k] = Rows(k, payments[k].status)

\* What is so of a payment's rows while its last one is still to be written.
Unfinished(h, k) ==
  /\ pc[h] = "auditSettle" => audit[k] = <<>> /\ payments[k].status = Reported(k)
  /\ pc[h] = "auditRefund" =>
       audit[k] = Confirmed(k) /\ payments[k].status = "refunded"

\* A status is written and its audit row is still to come.
Unlogged(h, k) == job[h].key = k /\ pc[h] \in {"auditSettle", "auditRefund"}

AuditInv ==
  fails = 0 =>
    \A k \in PayIds : /\ (\A h \in Handlers : ~Unlogged(h, k)) => Complete(k)
                      /\ \A h \in Handlers : Unlogged(h, k) => Unfinished(h, k)

LEMMA AuditInit == Init => AuditInv
<1> SUFFICES ASSUME Init PROVE AuditInv
  OBVIOUS
<1>1. \A k \in PayIds : payments[k].status = "none" /\ audit[k] = <<>>
  BY DEF Init, NoRow
<1>2. \A k \in PayIds : Complete(k)
  BY <1>1 DEF Complete, Rows
<1>3. \A h \in Handlers, k \in PayIds : ~Unlogged(h, k)
  BY DEF Init, Unlogged
<1> QED
  BY <1>2, <1>3 DEF AuditInv

LEMMA CompleteKept ==
  ASSUME NEW k \in PayIds, Complete(k), audit'[k] = audit[k],
         \/ payments'[k].status = payments[k].status
         \/ payments[k].status = "none" /\ payments'[k].status = "pending"
         \/ payments[k].status = "none" /\ payments'[k].status = "confirmed" /\ k \notin Sessions
  PROVE  Complete(k)'
<1>1. CASE payments'[k].status = payments[k].status
  BY <1>1 DEF Complete
<1>2. CASE payments[k].status = "none" /\ payments'[k].status = "pending"
  BY <1>2 DEF Complete, Rows, Confirmed
<1>3. CASE payments[k].status = "none" /\ payments'[k].status = "confirmed" /\ k \notin Sessions
  BY <1>3 DEF Complete, Rows, Confirmed
<1> QED
  BY <1>1, <1>2, <1>3

\* A step of h that writes no audit row, and after which h has none to write.
LEMMA AuditQuiet ==
  ASSUME Serial, TypeInv, AuditInv, fails' = fails \/ fails' = fails + 1, UNCHANGED audit,
         NEW h \in Handlers,
         pc[h] \notin {"auditSettle", "auditRefund"} \/ fails' = fails + 1,
         pc'[h] \notin {"auditSettle", "auditRefund"},
         \A k \in PayIds :
           \/ payments'[k].status = payments[k].status
           \/ payments[k].status = "none" /\ payments'[k].status = "pending"
           \/ payments[k].status = "none" /\ payments'[k].status = "confirmed" /\ k \notin Sessions
  PROVE  AuditInv'
<1>1. fails \in Nat
  BY PaymentsAssumption DEF TypeInv, TypeOK, RowsTypeOK
<1> SUFFICES ASSUME fails' = 0 PROVE AuditInv'
  BY DEF AuditInv
<1>2. fails = 0 /\ fails' = fails
  BY <1>1
<1>3. \A k \in PayIds : Complete(k)
  BY <1>1, <1>2 DEF AuditInv, Unlogged, Serial
<1>4. \A k \in PayIds : Complete(k)'
  BY <1>3, CompleteKept
<1>5. \A k \in PayIds, g \in Handlers : ~Unlogged(g, k)'
  BY DEF Unlogged, Serial
<1> QED
  BY <1>4, <1>5 DEF AuditInv

\* The one handler logs, or is about to log, what it did to payment key; the other payments' rows
\* are complete and stay so.
LEMMA AuditOthers ==
  ASSUME Serial, AuditInv, NEW h \in Handlers, fails = 0, NEW key \in PayIds,
         job[h].key = key \/ pc[h] \notin {"auditSettle", "auditRefund"},
         \A k \in PayIds \ {key} :
           audit'[k] = audit[k] /\ payments'[k].status = payments[k].status
  PROVE  \A k \in PayIds \ {key} : Complete(k)'
<1>1. ASSUME NEW k \in PayIds \ {key} PROVE Complete(k)'
  <2>1. \A g \in Handlers : ~Unlogged(g, k)
    BY DEF Serial, Unlogged
  <2>2. Complete(k)
    BY <2>1 DEF AuditInv
  <2> QED
    BY <2>2, CompleteKept
<1> QED
  BY <1>1

LEMMA AuditContinue ==
  ASSUME Serial, TypeInv, MoneyInv, FoundInv, AuditInv, NEW h \in Handlers, Continue(h)
  PROVE  AuditInv'
<1>0. /\ pc \in [Handlers -> PCs] /\ payments \in [PayIds -> PaymentRow]
      /\ audit \in [PayIds -> Seq(PaymentStatus)] /\ fails' = fails
  BY Zenon DEF TypeInv, TypeOK, RowsTypeOK, LocalTypeOK, PaymentRow, Continue, InsertNote, InsertPayment,
     OpenSession, SettlePayment, AuditSettle, InsertRefund, MarkRefunded, AuditRefund, ReadNotes,
     ReadPayments, SaveStatus, CheckCredit, GrantCredit, GeneratePayout
<1>1. Keys \intersect Sessions = {} /\ Keys \subseteq PayIds /\ Sessions \subseteq PayIds
  BY PaymentsAssumption DEF PayIds
<1>2. CASE SettlePayment(h)
  <2> SUFFICES ASSUME fails' = 0 PROVE AuditInv'
    BY DEF AuditInv
  <2>0. PICK key \in Sessions : key = job[h].key
    BY <1>2 DEF SettlePayment, Step, TypeInv, HandlerOK
  <2>1. /\ pc[h] = "settle" /\ pc'[h] = "auditSettle" /\ job' = job /\ UNCHANGED <<audit, outcome>>
        /\ payments' = [payments EXCEPT ![key].status = Reported(key)]
        /\ payments[key].status = "pending"
    BY <1>0, <1>2, <2>0 DEF SettlePayment, Step, FoundInv, Found
  <2>2. /\ payments'[key].status = Reported(key) /\ Reported(key)' = Reported(key)
        /\ \A k \in PayIds \ {key} : payments'[k].status = payments[k].status
    BY <1>0, <1>1, <2>1 DEF PaymentRow, Reported
  <2>3. \A k \in PayIds \ {key} : Complete(k)'
    BY <1>0, <1>1, <2>0, <2>1, <2>2, AuditOthers
  <2>4. Complete(key)
    BY <1>0, <1>1, <2>1 DEF AuditInv, Unlogged, Serial
  <2>5. audit[key] = <<>>
    BY <2>1, <2>4 DEF Complete, Rows
  <2>6. Unfinished(h, key)'
    BY <2>1, <2>2, <2>5 DEF Unfinished
  <2>7. Unlogged(h, key)' /\ \A k \in PayIds \ {key} : ~Unlogged(h, k)'
    BY <2>0, <2>1 DEF Unlogged
  <2> QED
    BY <2>3, <2>6, <2>7 DEF AuditInv, Serial
<1>3. CASE MarkRefunded(h)
  <2> SUFFICES ASSUME fails' = 0 PROVE AuditInv'
    BY DEF AuditInv
  <2>0. PICK key \in PayIds : key = job[h].key
    BY <1>3 DEF MarkRefunded, Step, TypeInv, HandlerOK
  <2>1. /\ pc[h] = "markRefunded" /\ pc'[h] = "auditRefund" /\ job' = job /\ UNCHANGED audit
        /\ payments' = [payments EXCEPT ![key].status = "refunded"]
        /\ payments[key].status = "confirmed"
    BY <1>0, <1>3, <2>0 DEF MarkRefunded, Step, FoundInv, Found
  <2>2. /\ payments'[key].status = "refunded"
        /\ \A k \in PayIds \ {key} : payments'[k].status = payments[k].status
    BY <1>0, <2>1 DEF PaymentRow
  <2>3. \A k \in PayIds \ {key} : Complete(k)'
    BY <1>0, <2>0, <2>1, <2>2, AuditOthers
  <2>4. Complete(key)
    BY <1>0, <2>1 DEF AuditInv, Unlogged, Serial
  <2>5. audit[key] = Confirmed(key)
    BY <2>1, <2>4 DEF Complete, Rows
  <2>6. Unfinished(h, key)'
    BY <2>1, <2>2, <2>5 DEF Unfinished, Confirmed
  <2>7. Unlogged(h, key)' /\ \A k \in PayIds \ {key} : ~Unlogged(h, k)'
    BY <2>0, <2>1 DEF Unlogged
  <2> QED
    BY <2>3, <2>6, <2>7 DEF AuditInv, Serial
<1>4. CASE AuditSettle(h)
  <2> SUFFICES ASSUME fails' = 0 PROVE AuditInv'
    BY DEF AuditInv
  <2>0. PICK key \in Sessions : key = job[h].key
    BY <1>4 DEF AuditSettle, TypeInv, HandlerOK
  <2>1. /\ pc[h] = "auditSettle" /\ UNCHANGED <<payments, outcome>>
        /\ pc'[h] \in {"sums", "idle"} /\ audit' = [audit EXCEPT ![key] = Append(audit[key], Reported(key))]
    BY <1>0, <1>4, <2>0 DEF AuditSettle, Step, Finish, Logged
  <2>2. \A k \in PayIds \ {key} : audit'[k] = audit[k]
    BY <1>0, <2>1
  <2>3. \A k \in PayIds \ {key} : Complete(k)'
    BY <1>0, <1>1, <2>0, <2>1, <2>2, AuditOthers
  <2>4. audit[key] = <<>> /\ payments[key].status = Reported(key)
    BY <1>0, <1>1, <2>0, <2>1 DEF AuditInv, Unlogged, Unfinished
  <2>5. audit'[key] = Append(<<>>, Reported(key))
    BY <1>0, <1>1, <2>1, <2>4
  <2>6. Append(<<>>, "confirmed") = <<"confirmed">>
    OBVIOUS
  <2>7. Complete(key)'
    BY <2>1, <2>4, <2>5, <2>6 DEF Complete, Rows, Confirmed, Reported
  <2>8. \A k \in PayIds : ~Unlogged(h, k)'
    BY <2>1 DEF Unlogged
  <2> QED
    BY <2>3, <2>7, <2>8 DEF AuditInv, Serial
<1>5. CASE AuditRefund(h)
  <2> SUFFICES ASSUME fails' = 0 PROVE AuditInv'
    BY DEF AuditInv
  <2>0. PICK key \in PayIds : key = job[h].key
    BY <1>5 DEF AuditRefund, Step, TypeInv, HandlerOK
  <2>1. /\ pc[h] = "auditRefund" /\ UNCHANGED payments
        /\ pc'[h] = "sums" /\ audit' = [audit EXCEPT ![key] = Append(audit[key], "refunded")]
    BY <1>0, <1>5, <2>0 DEF AuditRefund, Step, Logged
  <2>2. \A k \in PayIds \ {key} : audit'[k] = audit[k]
    BY <1>0, <2>1
  <2>3. \A k \in PayIds \ {key} : Complete(k)'
    BY <1>0, <2>0, <2>1, <2>2, AuditOthers
  <2>4. audit[key] = Confirmed(key) /\ payments[key].status = "refunded"
    BY <1>0, <2>0, <2>1 DEF AuditInv, Unlogged, Unfinished
  <2>5. audit'[key] = Append(Confirmed(key), "refunded")
    BY <1>0, <2>1, <2>4
  <2>6. Complete(key)'
    BY <2>1, <2>4, <2>5 DEF Complete, Rows, Confirmed
  <2>7. \A k \in PayIds : ~Unlogged(h, k)'
    BY <2>1 DEF Unlogged
  <2> QED
    BY <2>3, <2>6, <2>7 DEF AuditInv, Serial
<1>6. CASE ~(SettlePayment(h) \/ MarkRefunded(h) \/ AuditSettle(h) \/ AuditRefund(h))
  <2>1. pc[h] \notin {"auditSettle", "auditRefund"} /\ pc'[h] \notin {"auditSettle", "auditRefund"}
    <3>1. pc[h] \in {"insertNote", "insertPayment", "sums", "insertRefund", "credit", "grant", "payout"}
      BY <1>6 DEF Continue, InsertNote, InsertPayment, OpenSession, InsertRefund, Step, ReadNotes,
                  ReadPayments, SaveStatus, CheckCredit, GrantCredit, GeneratePayout
    <3> QED
      BY <1>6, <3>1, Follows
  <2>2. UNCHANGED audit
    BY <1>6, Zenon DEF Continue, InsertNote, InsertPayment, OpenSession, InsertRefund, ReadNotes,
       ReadPayments, SaveStatus, CheckCredit, GrantCredit, GeneratePayout, rows
  <2>3. \A k \in PayIds :
          \/ payments'[k].status = payments[k].status
          \/ payments[k].status = "none" /\ payments'[k].status = "pending"
          \/ payments[k].status = "none" /\ payments'[k].status = "confirmed" /\ k \notin Sessions
    <3>1. CASE UNCHANGED payments
      BY <3>1
    <3>2. CASE InsertPayment(h)
      <4>1. job[h].key \in Keys
        BY <3>2 DEF InsertPayment, Step, TypeInv, HandlerOK
      <4> QED
        BY <1>0, <1>1, <3>2, <4>1 DEF InsertPayment
    <3>3. CASE \E s \in Sessions : OpenSession(h, s)
      BY <1>0, <3>3 DEF OpenSession
    <3> QED
      BY <1>6, <3>1, <3>2, <3>3, PaymentsUnwritten
  <2> QED
    BY <1>0, <2>1, <2>2, <2>3, AuditQuiet
<1> QED
  BY <1>2, <1>3, <1>4, <1>5, <1>6

LEMMA AuditStep ==
  ASSUME Serial, TypeInv, MoneyInv, FoundInv, AuditInv, [Next]_vars
  PROVE  AuditInv'
<1>0. pc \in [Handlers -> PCs]
  BY DEF TypeInv, TypeOK, LocalTypeOK
<1>1. ASSUME NEW h \in Handlers, Arrive(h) PROVE AuditInv'
  <2>1. UNCHANGED <<payments, audit, fails>>
    BY <1>1, Zenon DEF Arrive, StartNote, StartRecord, StartInitiate, StartRefund, rows
  <2>2. \E p \in PCs \ {"auditSettle", "auditRefund"} : \E j : Start(h, p, j)
    BY <1>1, Zenon DEF Arrive, StartNote, StartRecord, StartInitiate, StartRefund, PCs
  <2>3. pc[h] = "idle" /\ pc'[h] \notin {"auditSettle", "auditRefund"}
    BY <1>0, <2>2 DEF Start
  <2> QED
    BY <2>1, <2>3, AuditQuiet
<1>2. ASSUME NEW h \in Handlers, Fail(h) PROVE AuditInv'
  <2>1. UNCHANGED <<payments, audit>> /\ fails' = fails + 1 /\ pc'[h] = "idle"
    BY <1>0, <1>2 DEF Fail, rows
  <2> QED
    BY <2>1, AuditQuiet
<1>3. ASSUME NEW h \in Handlers, NEW s \in Sessions, DeliverWebhook(h, s) PROVE AuditInv'
  <2>1. UNCHANGED <<payments, audit, fails>>
    BY <1>3 DEF DeliverWebhook, rows
  <2>2. pc[h] = "idle" /\ pc'[h] \in {"idle", "settle"}
    BY <1>0, <1>3 DEF DeliverWebhook, Start, local
  <2> QED
    BY <2>1, <2>2, AuditQuiet
<1>4. CASE \/ \E i \in Invoices : DueDatePasses(i)
           \/ UNCHANGED vars
  <2>1. UNCHANGED <<payments, audit, fails, pc, job, outcome>>
    BY <1>4, Zenon DEF DueDatePasses, vars, rows, local
  <2> QED
    BY <2>1 DEF AuditInv, Unlogged, Unfinished, Complete, Reported
<1>5. ASSUME NEW s \in Sessions, NEW o \in {"succeeded", "failed"}, GatewayDecides(s, o) PROVE AuditInv'
  <2>1. /\ UNCHANGED <<payments, audit, fails, pc, job>>
        /\ outcome[s] = "none" /\ outcome' = [outcome EXCEPT ![s] = o]
    BY <1>5, Zenon DEF GatewayDecides, rows, local
  <2>2. ASSUME NEW h \in Handlers, NEW k \in PayIds, pc[h] = "auditSettle", job[h].key = k
        PROVE  Reported(k)' = Reported(k)
    <3>1. k \in Sessions /\ outcome[k] # "none"
      BY <2>2 DEF TypeInv, HandlerOK, MoneyInv, WorkOK
    <3>2. outcome \in [Sessions -> {"none", "succeeded", "failed"}]
      BY DEF TypeInv, TypeOK, RowsTypeOK
    <3> QED
      BY <2>1, <3>1, <3>2 DEF Reported
  <2> QED
    BY <2>1, <2>2 DEF AuditInv, Unlogged, Unfinished, Complete
<1> QED
  BY <1>1, <1>2, <1>3, <1>4, <1>5, AuditContinue DEF Next

\* One request at a time, none of which died, the audit rows of every payment tell its whole
\* history.
THEOREM AuditTold ==
  ASSUME Serial
  PROVE  Spec => []AuditComplete
<1>1. IInv /\ FoundInv /\ AuditInv /\ [Next]_vars => FoundInv' /\ AuditInv'
  BY FoundStep, AuditStep DEF IInv
<1>2. AuditInv => AuditComplete
  BY ExpectedRows DEF AuditInv, AuditComplete, AuditExact, Idle, Unlogged, Complete
<1> QED
  BY <1>1, <1>2, FoundInit, AuditInit, Invariant, PTL DEF Spec

-----------------------------------------------------------------------------
(* The stored status of an invoice agrees with the rows. *)

LEMMA Derived ==
  \A i \in Invoices : Nets[i] = NetTotals(i) /\ Paids[i] = PaidTotals(i) /\ (Fits(i) <=> Agrees(i))
BY DEF Nets, Paids, Fits, Agrees

LEMMA NetKept ==
  ASSUME NEW i \in Invoices, invoice'[i].total = invoice[i].total, credited'[i] = credited[i],
         notes'[i] = notes[i]
  PROVE  Nets'[i] = Nets[i]
BY DEF Nets, NetTotals

LEMMA PaidKept ==
  ASSUME NEW i \in Invoices,
         \A k \in PayIds :
           \/ payments'[k] = payments[k]
           \/ /\ ~(payments[k].inv = i /\ payments[k].status = "confirmed")
              /\ ~(payments'[k].inv = i /\ payments'[k].status = "confirmed")
  PROVE  Paids'[i] = Paids[i]
<1>1. ConfirmedOf(i)' = ConfirmedOf(i)
  BY DEF ConfirmedOf
<1>2. \A k \in ConfirmedOf(i) : payments'[k] = payments[k]
  BY DEF ConfirmedOf
<1>3. Units(ConfirmedOf(i))' = Units(ConfirmedOf(i))
  BY <1>1, <1>2 DEF Units
<1>4. {k \in ConfirmedOf(i) : payments[k].amount > 0}' = {k \in ConfirmedOf(i) : payments[k].amount > 0}
  BY <1>1, <1>2
<1> QED
  BY <1>3, <1>4 DEF Paids, PaidTotals

LEMMA SumsKept ==
  ASSUME UNCHANGED <<invoice, credited, notes, payments>>
  PROVE  Nets' = Nets /\ Paids' = Paids
BY DEF Nets, Paids, NetTotals, PaidTotals, Units, ConfirmedOf

LEMMA FitsKept ==
  ASSUME NEW i \in Invoices, Fits(i), invoice'[i] = invoice[i], pastDue \subseteq pastDue',
         Nets'[i] = Nets[i], Paids'[i] = Paids[i]
  PROVE  Fits(i)'
BY DEF Fits

\* A handler on its way to a recomputation.
LEMMA AgreeTouched ==
  ASSUME Serial, TypeInv, AgreeInv, NEW h \in Handlers, pc[h] \in Early,
         UNCHANGED <<invoice, pastDue, fails, job, sums>>, pc'[h] \in Early \union {"sums"},
         \A i \in Invoices \ {job[h].inv} : Nets'[i] = Nets[i] /\ Paids'[i] = Paids[i],
         Owes(h)' \/ (~Owes(h) /\ Nets' = Nets /\ Paids' = Paids)
  PROVE  AgreeInv'
<1>1. Seen(h)' /\ Summed(h)'
  BY DEF AgreeInv, Seen, Summed, Early, NoSums
<1>2. pc'[h] \notin Saved
  BY DEF Early, Saved
<1>3. ASSUME fails' = 0, NEW i \in Invoices PROVE Fits(i)' \/ (Owes(h)' /\ job'[h].inv = i)
  <2>1. CASE i = job[h].inv /\ Owes(h)'
    BY <2>1
  <2>2. CASE ~(i = job[h].inv /\ Owes(h)')
    <3>1. Fits(i)
      BY <1>3, <2>2 DEF AgreeInv, Serial
    <3> QED
      BY <2>2, <3>1, FitsKept
  <2> QED
    BY <2>1, <2>2
<1> QED
  BY <1>1, <1>2, <1>3 DEF AgreeInv, Serial

\* A handler that ends, or dies.
LEMMA AgreeDone ==
  ASSUME Serial, TypeInv, AgreeInv, NEW h \in Handlers, pc'[h] = "idle", sums'[h] = NoSums,
         UNCHANGED <<invoice, pastDue>>, Nets' = Nets, Paids' = Paids,
         fails' = fails + 1 \/ (fails' = fails /\ ~Owes(h))
  PROVE  AgreeInv'
<1>0. fails \in Nat
  BY PaymentsAssumption DEF TypeInv, TypeOK, RowsTypeOK
<1>1. Seen(h)' /\ Summed(h)'
  BY DEF Seen, Summed, Early, NoSums
<1>2. pc'[h] \notin Saved
  BY DEF Saved
<1>3. ASSUME fails' = 0, NEW i \in Invoices PROVE Fits(i)'
  <2>1. fails = 0 /\ ~Owes(h)
    BY <1>0, <1>3
  <2>2. Fits(i)
    BY <2>1 DEF AgreeInv, Serial
  <2> QED
    BY <2>2, FitsKept
<1> QED
  BY <1>1, <1>2, <1>3 DEF AgreeInv, Serial

\* A handler that starts.
LEMMA AgreeStarted ==
  ASSUME Serial, TypeInv, AgreeInv, NEW h \in Handlers, NEW p, NEW j, Start(h, p, j),
         p \in Early \union {"sums"}, j.seen = invoice[j.inv].status,
         UNCHANGED <<rows, pastDue, fails>>
  PROVE  AgreeInv'
<1>1. /\ pc[h] = "idle" /\ pc'[h] = p /\ job'[h] = j /\ sums' = sums /\ sums[h] = NoSums
  BY DEF Start, TypeInv, TypeOK, LocalTypeOK, HandlerOK
<1>2. UNCHANGED <<invoice, credited, notes, payments>>
  BY DEF rows
<1>3. Seen(h)' /\ Summed(h)'
  BY <1>1, <1>2 DEF Seen, Summed, NoSums
<1>4. pc'[h] \notin Saved
  BY <1>1 DEF Saved, Early
<1>5. ASSUME fails' = 0, NEW i \in Invoices PROVE Fits(i)'
  <2>1. Fits(i)
    BY <1>1, <1>5 DEF AgreeInv, Serial, Owes
  <2> QED
    BY <1>2, <2>1, FitsKept, SumsKept
<1> QED
  BY <1>3, <1>4, <1>5 DEF AgreeInv, Serial

\* A handler that has saved the status and goes on.
LEMMA AgreeOn ==
  ASSUME Serial, TypeInv, AgreeInv, NEW h \in Handlers, pc[h] \in Saved, pc'[h] \in Saved,
         UNCHANGED <<invoice, credited, notes, payments, pastDue, fails, job, sums>>
  PROVE  AgreeInv'
<1>1. Nets' = Nets /\ Paids' = Paids
  BY SumsKept
<1>2. Seen(h)' /\ Summed(h)'
  BY <1>1 DEF AgreeInv, Seen, Summed, Saved, Early
<1>3. \A i \in Invoices : Fits(i) => Fits(i)'
  BY <1>1, FitsKept
<1>4. ~Owes(h)
  BY DEF Owes, Saved
<1>5. Fits(job[h].inv)'
  BY <1>1 DEF AgreeInv, Fits
<1> QED
  BY <1>2, <1>3, <1>4, <1>5 DEF AgreeInv, Serial

LEMMA InsertNoteAgree ==
  ASSUME Serial, TypeInv, AgreeInv, NEW h \in Handlers, InsertNote(h)
  PROVE  AgreeInv'
<1>1. /\ pc[h] = "insertNote" /\ pc'[h] = "sums" /\ job[h].op = "note"
      /\ UNCHANGED <<invoice, payments, pastDue, fails, job, sums>>
  BY DEF InsertNote, Step, TypeInv, TypeOK, LocalTypeOK, HandlerOK
<1>2. ASSUME NEW i \in Invoices \ {job[h].inv} PROVE Nets'[i] = Nets[i] /\ Paids'[i] = Paids[i]
  <2>1. credited'[i] = credited[i] /\ notes'[i] = notes[i]
    BY <1>2 DEF InsertNote, TypeInv, TypeOK, RowsTypeOK
  <2> QED
    BY <1>1, <2>1, NetKept, PaidKept
<1>3. Owes(h)'
  BY <1>1 DEF Owes
<1> QED
  BY <1>1, <1>2, <1>3, AgreeTouched DEF Early

\* What a write to payment k does to the sums of the invoices.
LEMMA RowMoves ==
  ASSUME TypeInv, UNCHANGED <<invoice, credited, notes>>, NEW k \in PayIds, NEW row,
         payments' = [payments EXCEPT ![k] = row], NEW i \in Invoices,
         ~(payments[k].inv = i /\ payments[k].status = "confirmed"),
         ~(row.inv = i /\ row.status = "confirmed")
  PROVE  Nets'[i] = Nets[i] /\ Paids'[i] = Paids[i]
<1>1. payments \in [PayIds -> PaymentRow]
  BY DEF TypeInv, TypeOK, RowsTypeOK, PaymentRow
<1>2. \A m \in PayIds : payments'[m] = IF m = k THEN row ELSE payments[m]
  BY <1>1
<1> QED
  BY <1>2, NetKept, PaidKept

LEMMA RowMovesElsewhere ==
  ASSUME TypeInv, UNCHANGED <<invoice, credited, notes>>, NEW k \in PayIds, NEW row,
         payments' = [payments EXCEPT ![k] = row],
         payments[k].inv = row.inv \/ payments[k].status # "confirmed"
  PROVE  \A i \in Invoices \ {row.inv} : Nets'[i] = Nets[i] /\ Paids'[i] = Paids[i]
BY RowMoves

LEMMA RowMovesNowhere ==
  ASSUME TypeInv, UNCHANGED <<invoice, credited, notes>>, NEW k \in PayIds, NEW row,
         payments' = [payments EXCEPT ![k] = row],
         row.status # "confirmed", payments[k].status # "confirmed"
  PROVE  Nets' = Nets /\ Paids' = Paids
<1>1. \A i \in Invoices : Nets'[i] = Nets[i] /\ Paids'[i] = Paids[i]
  BY RowMoves
<1> QED
  BY <1>1 DEF Nets, Paids

LEMMA StatusRow ==
  ASSUME NEW k \in PayIds, NEW st,
         payments' = [payments EXCEPT ![k].status = st], TypeInv
  PROVE  payments' = [payments EXCEPT ![k] = [payments[k] EXCEPT !.status = st]]
BY DEF TypeInv, TypeOK, RowsTypeOK

LEMMA InsertPaymentAgree ==
  ASSUME Serial, TypeInv, AgreeInv, NEW h \in Handlers, InsertPayment(h)
  PROVE  AgreeInv'
<1> DEFINE k == job[h].key
           row == [status |-> "confirmed", inv |-> job[h].inv, amount |-> job[h].amount]
<1>1. /\ pc[h] = "insertPayment" /\ job[h].op = "record" /\ k \in PayIds
      /\ UNCHANGED <<invoice, credited, notes, pastDue, fails>>
  BY DEF InsertPayment, TypeInv, HandlerOK, PayIds
<1>2. CASE payments[k].status = "none"
  <2>1. payments' = [payments EXCEPT ![k] = row] /\ Step(h, "insertPayment", "sums")
    BY <1>2 DEF InsertPayment
  <2>2. \A i \in Invoices \ {row.inv} : Nets'[i] = Nets[i] /\ Paids'[i] = Paids[i]
    BY <1>1, <1>2, <2>1, RowMovesElsewhere
  <2>3. pc'[h] = "sums" /\ UNCHANGED <<job, sums>>
    BY <2>1 DEF Step, TypeInv, TypeOK, LocalTypeOK
  <2>4. Owes(h)'
    BY <1>1, <2>3 DEF Owes
  <2> QED
    BY <1>1, <2>2, <2>3, <2>4, AgreeTouched DEF Early
<1>3. CASE payments[k].status # "none"
  <2>1. Finish(h) /\ UNCHANGED payments
    BY <1>3 DEF InsertPayment
  <2>2. pc'[h] = "idle" /\ sums'[h] = NoSums
    BY <2>1 DEF Finish, TypeInv, TypeOK, LocalTypeOK
  <2>3. ~Owes(h)
    BY <1>1 DEF Owes
  <2> QED
    BY <1>1, <2>1, <2>2, <2>3, SumsKept, AgreeDone
<1> QED
  BY <1>2, <1>3

LEMMA OpenSessionAgree ==
  ASSUME Serial, TypeInv, AgreeInv, NEW h \in Handlers, NEW s \in Sessions, OpenSession(h, s)
  PROVE  AgreeInv'
<1>1. /\ pc[h] = "sums" /\ job[h].op = "initiate" /\ Finish(h)
      /\ UNCHANGED <<invoice, credited, notes, pastDue, fails>>
  BY DEF OpenSession
<1>2. PICK row : /\ payments' = [payments EXCEPT ![s] = row]
                 /\ row.status = "pending" /\ payments[s].status = "none"
  BY DEF OpenSession
<1>3. Nets' = Nets /\ Paids' = Paids
  BY <1>1, <1>2, RowMovesNowhere DEF PayIds
<1>4. pc'[h] = "idle" /\ sums'[h] = NoSums
  BY <1>1 DEF Finish, TypeInv, TypeOK, LocalTypeOK
<1>5. ~Owes(h)
  BY <1>1 DEF Owes
<1> QED
  BY <1>1, <1>3, <1>4, <1>5, AgreeDone

\* A delivery that settles: the payment it was pending for is confirmed, or failed.
LEMMA SettlePaymentAgree ==
  ASSUME Serial, TypeInv, MoneyInv, FoundInv, AgreeInv, NEW h \in Handlers, SettlePayment(h)
  PROVE  AgreeInv'
<1> DEFINE k == job[h].key
           row == [payments[k] EXCEPT !.status = Reported(k)]
<1>1. /\ pc[h] = "settle" /\ job[h].op = "webhook" /\ k \in PayIds
      /\ pc'[h] = "auditSettle"
      /\ UNCHANGED <<invoice, credited, notes, pastDue, fails, job, sums, outcome>>
  BY DEF SettlePayment, Step, TypeInv, TypeOK, LocalTypeOK, HandlerOK, PayIds
<1>2. payments' = [payments EXCEPT ![k] = row]
  BY <1>1, StatusRow DEF SettlePayment
<1>3. payments[k].inv = job[h].inv /\ payments[k].status = "pending"
  BY <1>1 DEF MoneyInv, WorkOK, FoundInv, Found
<1>4. payments[k] \in PaymentRow
  BY <1>1 DEF TypeInv, TypeOK, RowsTypeOK, PaymentRow
<1>5. row.inv = job[h].inv /\ row.status = Reported(k)
  BY <1>3, <1>4 DEF PaymentRow
<1> HIDE DEF row
<1>6. \A i \in Invoices \ {job[h].inv} : Nets'[i] = Nets[i] /\ Paids'[i] = Paids[i]
  BY <1>1, <1>2, <1>3, <1>5, RowMovesElsewhere
<1>7. CASE Reported(k) = "confirmed"
  <2>1. Owes(h)'
    BY <1>1, <1>7 DEF Owes, Reported
  <2> QED
    BY <1>1, <1>6, <2>1, AgreeTouched DEF Early
<1>8. CASE Reported(k) # "confirmed"
  <2>1. Nets' = Nets /\ Paids' = Paids
    BY <1>1, <1>2, <1>3, <1>5, <1>8, RowMovesNowhere
  <2>2. ~Owes(h)
    BY <1>1 DEF Owes
  <2> QED
    BY <1>1, <1>6, <2>1, <2>2, AgreeTouched DEF Early
<1> QED
  BY <1>7, <1>8

LEMMA MarkRefundedAgree ==
  ASSUME Serial, TypeInv, MoneyInv, AgreeInv, NEW h \in Handlers, MarkRefunded(h)
  PROVE  AgreeInv'
<1> DEFINE k == job[h].key
           row == [payments[k] EXCEPT !.status = "refunded"]
<1>1. /\ pc[h] = "markRefunded" /\ job[h].op = "refund" /\ k \in PayIds
      /\ pc'[h] = "auditRefund"
      /\ UNCHANGED <<invoice, credited, notes, pastDue, fails, job, sums>>
  BY DEF MarkRefunded, Step, TypeInv, TypeOK, LocalTypeOK, HandlerOK
<1>2. payments' = [payments EXCEPT ![k] = row]
  BY <1>1, StatusRow DEF MarkRefunded
<1>3. payments[k].inv = job[h].inv
  BY <1>1 DEF MoneyInv, WorkOK
<1>4. payments[k] \in PaymentRow
  BY <1>1 DEF TypeInv, TypeOK, RowsTypeOK, PaymentRow
<1>5. row.inv = job[h].inv /\ payments[k].inv = row.inv
  BY <1>3, <1>4 DEF PaymentRow
<1> HIDE DEF row
<1>6. \A i \in Invoices \ {row.inv} : Nets'[i] = Nets[i] /\ Paids'[i] = Paids[i]
  BY <1>1, <1>2, <1>5, RowMovesElsewhere
<1>7. Owes(h)'
  BY <1>1 DEF Owes
<1> QED
  BY <1>1, <1>5, <1>6, <1>7, AgreeTouched DEF Early

LEMMA AuditAgree ==
  ASSUME Serial, TypeInv, AgreeInv, NEW h \in Handlers, AuditSettle(h) \/ AuditRefund(h)
  PROVE  AgreeInv'
<1>0. /\ UNCHANGED <<invoice, credited, notes, payments, pastDue, fails>>
      /\ pc \in [Handlers -> PCs] /\ sums \in [Handlers -> [net : Unread..(Grain * MaxAmount + 1), paid : Nat \union {Unread}]]
      /\ job \in [Handlers -> JobType]
  BY DEF AuditSettle, AuditRefund, TypeInv, TypeOK, LocalTypeOK
<1>1. CASE \/ Step(h, "auditSettle", "sums") /\ Reported(job[h].key) = "confirmed"
           \/ Step(h, "auditRefund", "sums")
  <2>1. /\ pc[h] \in {"auditSettle", "auditRefund"} /\ pc'[h] = "sums"
        /\ UNCHANGED <<job, sums>>
    BY <1>0, <1>1 DEF Step
  <2>2. Owes(h)'
    BY <2>1 DEF Owes, TypeInv, HandlerOK
  <2> QED
    BY <1>0, <2>1, <2>2, SumsKept, AgreeTouched DEF Early
<1>2. CASE Finish(h) /\ pc[h] = "auditSettle" /\ Reported(job[h].key) # "confirmed"
  <2>1. pc'[h] = "idle" /\ sums'[h] = NoSums
    BY <1>0, <1>2 DEF Finish
  <2>2. ~Owes(h)
    BY <1>2 DEF Owes
  <2> QED
    BY <1>0, <2>1, <2>2, SumsKept, AgreeDone
<1> QED
  BY <1>1, <1>2 DEF AuditSettle, AuditRefund

LEMMA InsertRefundAgree ==
  ASSUME Serial, TypeInv, AgreeInv, NEW h \in Handlers, InsertRefund(h)
  PROVE  AgreeInv'
<1>1. /\ pc[h] = "insertRefund" /\ pc'[h] = "markRefunded"
      /\ UNCHANGED <<invoice, credited, notes, payments, pastDue, fails, job, sums>>
  BY DEF InsertRefund, Step, TypeInv, TypeOK, LocalTypeOK
<1>2. ~Owes(h)
  BY <1>1 DEF Owes
<1> QED
  BY <1>1, <1>2, SumsKept, AgreeTouched DEF Early

LEMMA ReadAgree ==
  ASSUME Serial, TypeInv, AgreeInv, NEW h \in Handlers, ReadNotes(h) \/ ReadPayments(h)
  PROVE  AgreeInv'
<1>1. /\ pc[h] = "sums" /\ UNCHANGED <<invoice, credited, notes, payments, pastDue, fails, pc, job>>
      /\ job[h].inv \in Invoices
  BY DEF ReadNotes, ReadPayments, rows, TypeInv, HandlerOK
<1>2. Nets' = Nets /\ Paids' = Paids
  BY <1>1, SumsKept
<1>3. /\ sums'[h].net \in Nets[job[h].inv] \/ sums'[h].net = sums[h].net
      /\ sums'[h].paid \in Paids[job[h].inv] \/ sums'[h].paid = sums[h].paid
  <2>1. Nets[job[h].inv] = NetTotals(job[h].inv) /\ Paids[job[h].inv] = PaidTotals(job[h].inv)
    BY <1>1 DEF Nets, Paids
  <2>2. sums \in [Handlers -> [net : Unread..(Grain * MaxAmount + 1), paid : Nat \union {Unread}]]
    BY DEF TypeInv, TypeOK, LocalTypeOK
  <2> QED
    BY <2>1, <2>2 DEF ReadNotes, ReadPayments
<1>4. Seen(h)' /\ Summed(h)'
  BY <1>1, <1>2, <1>3 DEF AgreeInv, Seen, Summed, Early
<1>5. pc'[h] \notin Saved
  BY <1>1 DEF Saved
<1>6. Owes(h)' <=> Owes(h)
  BY <1>1 DEF Owes
<1>7. \A i \in Invoices : Fits(i) => Fits(i)'
  BY <1>1, <1>2, FitsKept
<1> QED
  BY <1>1, <1>4, <1>5, <1>6, <1>7 DEF AgreeInv, Serial

\* The new status is derived from sums that still are what the rows say, and compared with the
\* status that the row still has.
LEMMA SaveStatusAgree ==
  ASSUME Serial, TypeInv, AgreeInv, NEW h \in Handlers, SaveStatus(h)
  PROVE  AgreeInv'
<1> DEFINE i == job[h].inv
           new == StatusFor(sums[h].net, sums[h].paid, i \in pastDue)
<1>1. /\ pc[h] = "sums" /\ job[h].op # "initiate" /\ i \in Invoices
      /\ UNCHANGED <<credited, notes, payments, pastDue, fails>>
      /\ sums[h].net # Unread /\ sums[h].paid # Unread
  BY DEF SaveStatus, TypeInv, HandlerOK
<1>2. sums[h].net \in Nets[i] /\ sums[h].paid \in Paids[i] /\ job[h].seen = invoice[i].status
  BY <1>1 DEF AgreeInv, Seen, Summed
<1>3. /\ invoice'[i].status = new
      /\ \A n \in Invoices : invoice'[n].total = invoice[n].total
      /\ \A n \in Invoices \ {i} : invoice'[n] = invoice[n]
  <2>1. invoice \in [Invoices -> [total : 0..MaxAmount, status : InvoiceStatus]]
    BY DEF TypeInv, TypeOK, RowsTypeOK
  <2>2. \/ invoice' = invoice /\ job[h].seen = new
        \/ invoice' = [invoice EXCEPT ![i].status = new]
    BY DEF SaveStatus
  <2> HIDE DEF new, i
  <2> QED
    BY <1>1, <1>2, <2>1, <2>2
<1>4. Nets' = Nets /\ Paids' = Paids
  <2>1. \A n \in Invoices : Nets'[n] = Nets[n] /\ Paids'[n] = Paids[n]
    BY <1>1, <1>3, NetKept, PaidKept
  <2> QED
    BY <2>1 DEF Nets, Paids
<1>5. ASSUME NEW n \in Invoices, n = i PROVE Fits(n)'
  <2>1. (i \in pastDue) \in BOOLEAN /\ pastDue' = pastDue
    BY <1>1
  <2>2. /\ invoice'[n].status = StatusFor(sums[h].net, sums[h].paid, i \in pastDue)
        /\ sums[h].net \in Nets'[n] /\ sums[h].paid \in Paids'[n]
    BY <1>2, <1>3, <1>4, <1>5
  <2> QED
    BY <1>5, <2>1, <2>2 DEF Fits
<1>6. ASSUME NEW n \in Invoices, fails' = 0 PROVE Fits(n)'
  <2>1. CASE n # i
    <3>1. Fits(n)
      BY <1>1, <1>6, <2>1 DEF AgreeInv, Serial
    <3> QED
      BY <1>1, <1>3, <1>4, <2>1, <3>1, FitsKept
  <2> QED
    BY <1>5, <2>1
<1>7. CASE pc'[h] \in {"credit", "payout"} /\ UNCHANGED <<job, sums>>
  <2>1. Seen(h)' /\ Summed(h)'
    BY <1>1, <1>2, <1>4, <1>7 DEF Seen, Summed, Early
  <2>2. Fits(job[h].inv)'
    <3>1. PICK n \in Invoices : n = i
      BY <1>1
    <3>2. Fits(n)'
      BY <1>5, <3>1
    <3> QED
      BY <1>7, <3>1, <3>2 DEF Fits
  <2> QED
    BY <1>6, <2>1, <2>2 DEF AgreeInv, Serial
<1>8. CASE pc'[h] = "idle" /\ sums'[h] = NoSums
  <2>1. Seen(h)' /\ Summed(h)' /\ pc'[h] \notin Saved
    BY <1>8 DEF Seen, Summed, NoSums, Early, Saved
  <2> QED
    BY <1>6, <2>1 DEF AgreeInv, Serial
<1>9. \/ pc'[h] \in {"credit", "payout"} /\ UNCHANGED <<job, sums>>
      \/ pc'[h] = "idle" /\ sums'[h] = NoSums
  <2>1. Step(h, "sums", "credit") \/ AfterRecompute(h)
    BY DEF SaveStatus
  <2> QED
    BY <2>1 DEF Step, AfterRecompute, Finish, TypeInv, TypeOK, LocalTypeOK
<1> QED
  BY <1>7, <1>8, <1>9

LEMMA SavedAgree ==
  ASSUME Serial, TypeInv, AgreeInv, NEW h \in Handlers,
         CheckCredit(h) \/ GrantCredit(h) \/ GeneratePayout(h)
  PROVE  AgreeInv'
<1>1. UNCHANGED <<invoice, credited, notes, payments, pastDue, fails>> /\ pc[h] \in Saved
  BY DEF CheckCredit, GrantCredit, GeneratePayout, rows, Saved
<1>2. Step(h, "credit", "grant") \/ AfterRecompute(h) \/ Finish(h)
  BY DEF CheckCredit, GrantCredit, GeneratePayout
<1>3. \/ pc'[h] \in Saved /\ UNCHANGED <<job, sums>>
      \/ pc'[h] = "idle" /\ sums'[h] = NoSums
  BY <1>2 DEF Step, AfterRecompute, Finish, TypeInv, TypeOK, LocalTypeOK, Saved
<1>4. ~Owes(h)
  BY <1>1 DEF Owes, Saved
<1> QED
  BY <1>1, <1>3, <1>4, SumsKept, AgreeOn, AgreeDone

LEMMA ContinueAgree ==
  ASSUME Serial, TypeInv, MoneyInv, FoundInv, AgreeInv, NEW h \in Handlers, Continue(h)
  PROVE  AgreeInv'
BY InsertNoteAgree, InsertPaymentAgree, OpenSessionAgree, SettlePaymentAgree, MarkRefundedAgree,
   AuditAgree, InsertRefundAgree, ReadAgree, SaveStatusAgree, SavedAgree DEF Continue

LEMMA ArriveAgree ==
  ASSUME Serial, TypeInv, AgreeInv, NEW h \in Handlers, Arrive(h)
  PROVE  AgreeInv'
<1>1. UNCHANGED <<rows, pastDue, fails>>
  BY Zenon DEF Arrive, StartNote, StartRecord, StartInitiate, StartRefund
<1>2. PICK p \in {"insertNote", "insertPayment", "sums", "insertRefund"} :
        \E op, n, k, a : Start(h, p, InvoiceJob(op, n, k, a))
  BY DEF Arrive, StartNote, StartRecord, StartInitiate, StartRefund, PaymentJob
<1>3. PICK op, n, k, a : Start(h, p, InvoiceJob(op, n, k, a))
  BY <1>2
<1> DEFINE j == InvoiceJob(op, n, k, a)
<1>4. j.seen = invoice[j.inv].status
  BY DEF InvoiceJob
<1> HIDE DEF j
<1> QED
  BY <1>1, <1>3, <1>4, AgreeStarted DEF j, Early

LEMMA DeliverAgree ==
  ASSUME Serial, TypeInv, AgreeInv, NEW h \in Handlers, NEW s \in Sessions, DeliverWebhook(h, s)
  PROVE  AgreeInv'
<1>1. UNCHANGED <<rows, pastDue, outcome, fails>>
  BY DEF DeliverWebhook
<1>2. CASE UNCHANGED local
  <2>1. UNCHANGED <<invoice, credited, notes, payments, pc, job, sums>>
    BY <1>1, <1>2 DEF rows, local
  <2> QED
    BY <1>1, <2>1, SumsKept DEF AgreeInv, Seen, Summed, Fits, Owes, Reported
<1>3. CASE Start(h, "settle", PaymentJob("webhook", s))
  <2>1. PaymentJob("webhook", s).seen = invoice[PaymentJob("webhook", s).inv].status
    BY DEF PaymentJob, InvoiceJob
  <2> QED
    BY <1>1, <1>3, <2>1, AgreeStarted DEF Early
<1> QED
  BY <1>2, <1>3 DEF DeliverWebhook

\* What the gateway decides is not about a session whose decision a handler is at work on, and
\* a due date that passes lets the status be what it was.
LEMMA EnvironmentAgree ==
  ASSUME Serial, TypeInv, MoneyInv, AgreeInv,
         \/ \E s \in Sessions, o \in {"succeeded", "failed"} : GatewayDecides(s, o)
         \/ \E i \in Invoices : DueDatePasses(i)
         \/ UNCHANGED vars
  PROVE  AgreeInv'
<1>1. /\ UNCHANGED <<invoice, credited, notes, payments, fails, pc, job, sums>>
      /\ pastDue \subseteq pastDue'
  BY Zenon DEF GatewayDecides, DueDatePasses, vars, rows, local
<1>2. Nets' = Nets /\ Paids' = Paids
  BY <1>1, SumsKept
<1>3. \A h \in Handlers : Seen(h)' /\ Summed(h)'
  BY <1>1, <1>2 DEF AgreeInv, Seen, Summed
<1>4. ASSUME NEW h \in Handlers, Owes(h) PROVE Owes(h)'
  <2>1. CASE pc[h] = "auditSettle"
    <3>1. job[h].key \in Sessions /\ outcome[job[h].key] # "none"
      BY <2>1 DEF TypeInv, HandlerOK, MoneyInv, WorkOK
    <3>2. outcome \in [Sessions -> {"none", "succeeded", "failed"}]
      BY DEF TypeInv, TypeOK, RowsTypeOK
    <3>3. outcome'[job[h].key] = outcome[job[h].key]
      BY <3>1, <3>2 DEF GatewayDecides, DueDatePasses, vars
    <3> QED
      BY <1>1, <1>4, <2>1, <3>3 DEF Owes, Reported
  <2>2. CASE pc[h] # "auditSettle"
    BY <1>1, <1>4, <2>2 DEF Owes
  <2> QED
    BY <2>1, <2>2
<1>5. \A i \in Invoices : Fits(i) => Fits(i)'
  BY <1>1, <1>2, FitsKept
<1>6. \A h \in Handlers : pc'[h] \in Saved => Fits(job[h].inv)'
  BY <1>1, <1>2 DEF AgreeInv, Fits
<1> QED
  BY <1>1, <1>3, <1>4, <1>5, <1>6 DEF AgreeInv

LEMMA AgreeStep ==
  ASSUME Serial, TypeInv, MoneyInv, FoundInv, AgreeInv, [Next]_vars
  PROVE  AgreeInv'
<1>1. ASSUME NEW h \in Handlers, Fail(h) PROVE AgreeInv'
  <2>1. /\ UNCHANGED <<invoice, credited, notes, payments, pastDue>> /\ fails' = fails + 1
        /\ pc'[h] = "idle" /\ sums'[h] = NoSums
    BY <1>1 DEF Fail, rows, TypeInv, TypeOK, LocalTypeOK
  <2> QED
    BY <2>1, SumsKept, AgreeDone
<1> QED
  BY <1>1, ArriveAgree, ContinueAgree, DeliverAgree, EnvironmentAgree DEF Next

LEMMA AgreeInit == Init => AgreeInv
<1> SUFFICES ASSUME Init PROVE AgreeInv
  OBVIOUS
<1>1. ASSUME NEW i \in Invoices PROVE Fits(i)
  <2>1. ConfirmedOf(i) = {}
    BY DEF Init, ConfirmedOf, NoRow
  <2>2. ~ \E k \in PayIds : payments[k].inv = i /\ payments[k].status = "confirmed"
    BY <2>1 DEF ConfirmedOf
  <2>3. TypeOK
    BY TypeInit DEF TypeInv
  <2>4. PICK n \in NetTotals(i), p \in PaidTotals(i) : TRUE
    <3>1. invoice[i].total - credited[i] \in Int
      BY <2>3, PaymentsAssumption DEF TypeOK, RowsTypeOK
    <3> QED
      BY <3>1, TotalsExist
  <2>5. p \in Nat /\ ~(p > 0) /\ n \in Int
    BY <2>2, <2>3, <2>4, PaidTotalsType, PaidTotalsPositive, NetTotalsType, PaymentsAssumption DEF Grain
  <2>6. invoice[i].status = "issued" /\ StatusFor(n, p, FALSE) = "issued"
    BY <2>5 DEF Init, StatusFor
  <2>7. n \in Nets[i] /\ p \in Paids[i]
    BY Derived
  <2> QED
    BY <2>6, <2>7, Zenon DEF Fits
<1>2. \A h \in Handlers : Seen(h) /\ Summed(h) /\ pc[h] \notin Saved
  BY DEF Init, Seen, Summed, Early, Saved, NoSums
<1> QED
  BY <1>1, <1>2 DEF AgreeInv

\* One request at a time, the stored status of an invoice agrees with its rows after every
\* request that was answered, and again after the first one to reach it when one has died.
THEOREM StatusesAgree ==
  ASSUME Serial
  PROVE  Spec => []StatusAgrees
<1>1. IInv /\ FoundInv /\ AgreeInv /\ [Next]_vars => FoundInv' /\ AgreeInv'
  BY FoundStep, AgreeStep DEF IInv
<1>2. IInv /\ AgreeInv => StatusAgrees
  <2> SUFFICES ASSUME IInv, AgreeInv PROVE StatusAgrees
    OBVIOUS
  <2>1. \A h \in Handlers : Owes(h) => pc[h] # "idle"
    BY DEF Owes
  <2>2. Idle /\ fails = 0 => \A i \in Invoices : Agrees(i)
    BY <2>1, Derived DEF AgreeInv, Idle
  <2>3. ASSUME NEW h \in Handlers, pc[h] \in {"credit", "grant", "payout"} PROVE Agrees(job[h].inv)
    <3>1. job[h].inv \in Invoices /\ Fits(job[h].inv)
      BY <2>3 DEF IInv, TypeInv, HandlerOK, AgreeInv, Saved
    <3> QED
      BY <3>1, Derived
  <2> QED
    BY <2>2, <2>3 DEF StatusAgrees
<1> QED
  BY <1>1, <1>2, FoundInit, AgreeInit, Invariant, PTL DEF Spec

=============================================================================
