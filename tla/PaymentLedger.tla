--------------------------- MODULE PaymentLedger ---------------------------
(***************************************************************************)
(* What the payment side of an order promises, whatever the interleaving   *)
(* of browser, webhook, payment-check job and staff that drives it:        *)
(* an order is marked paid only for money that was really taken, the mark  *)
(* is never lowered by a late failure, and a refund is recorded only for   *)
(* an order marked paid, in the same step that marks it refunded.          *)
(*                                                                         *)
(* OrderPayments implements this specification.                            *)
(***************************************************************************)
EXTENDS Naturals

CONSTANT Orders

VARIABLES money,    \* money[o]: Razorpay captured it, or staff hold the cash
          mark,     \* mark[o]: the order's paymentStatus column
          rows      \* rows[o]: number of Refund rows of the order

ledger == <<money, mark, rows>>

Marks == {"PENDING", "PAID", "FAILED", "REFUNDED"}

LedgerTypeOK ==
  /\ money \in [Orders -> BOOLEAN]
  /\ mark \in [Orders -> Marks]
  /\ rows \in [Orders -> Nat]

LedgerInit ==
  /\ money = [o \in Orders |-> FALSE]
  /\ mark = [o \in Orders |-> "PENDING"]
  /\ rows = [o \in Orders |-> 0]

Take(o) ==
  /\ ~money[o]
  /\ money' = [money EXCEPT ![o] = TRUE]
  /\ UNCHANGED <<mark, rows>>

\* A captured payment can be confirmed at any time, by any of the paths and
\* more than once: the code's markPaid has no condition on the row.
Confirm(o) ==
  /\ money[o]
  /\ mark' = [mark EXCEPT ![o] = "PAID"]
  /\ UNCHANGED <<money, rows>>

Fail(o) ==
  /\ mark[o] # "PAID"
  /\ mark' = [mark EXCEPT ![o] = "FAILED"]
  /\ UNCHANGED <<money, rows>>

Refund(o) ==
  /\ mark[o] = "PAID"
  /\ mark' = [mark EXCEPT ![o] = "REFUNDED"]
  /\ rows' = [rows EXCEPT ![o] = @ + 1]
  /\ UNCHANGED money

LedgerNext == \E o \in Orders : Take(o) \/ Confirm(o) \/ Fail(o) \/ Refund(o)

LedgerSpec == LedgerInit /\ [][LedgerNext]_ledger

\* Nothing is marked paid or refunded, and no refund is recorded, without
\* money behind it; and "refunded" always has a refund to show.
LedgerSafe ==
  \A o \in Orders :
    /\ mark[o] \in {"PAID", "REFUNDED"} => money[o]
    /\ rows[o] > 0 => money[o]
    /\ mark[o] = "REFUNDED" => rows[o] > 0

=============================================================================
