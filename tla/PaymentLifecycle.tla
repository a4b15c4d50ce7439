-------------------------- MODULE PaymentLifecycle --------------------------
(***************************************************************************)
(* What the fees component promises about one `payments` row: the status   *)
(* column is a small state machine (enum PaymentStatus).  A payment        *)
(* recorded by hand is born confirmed; a gateway payment is born pending   *)
(* and is settled once, to confirmed or failed; only a confirmed payment   *)
(* is refunded, and refunded and failed are final.  Module Payments, the   *)
(* handlers step by step, is shown to implement this as long as the        *)
(* gateway never has two deliveries of one session in progress at once.    *)
(***************************************************************************)
CONSTANTS
  Keys,      \* idempotency keys chosen by clients: offline payments
  Sessions   \* gateway sessions: online payments

VARIABLE status

PayIds == Keys \union Sessions

LTypeOK == status \in [PayIds -> {"none", "pending", "confirmed", "failed", "refunded"}]

LInit == status = [k \in PayIds |-> "none"]

\* Row k moves from one status to another; every other row stays.
Move(k, from, to) ==
  /\ status[k] = from
  /\ status' = [status EXCEPT ![k] = to]

Record(k) == Move(k, "none", "confirmed")

Open(s) == Move(s, "none", "pending")

Settle(s) == Move(s, "pending", "confirmed") \/ Move(s, "pending", "failed")

Refund(k) == Move(k, "confirmed", "refunded")

LNext ==
  \/ \E k \in Keys : Record(k)
  \/ \E s \in Sessions : Open(s) \/ Settle(s)
  \/ \E k \in PayIds : Refund(k)

LSpec == LInit /\ [][LNext]_status
=============================================================================
