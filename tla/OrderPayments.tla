--------------------------- MODULE OrderPayments ---------------------------
(***************************************************************************)
(* One row of the orders table, from checkout to delivery or refund, and   *)
(* every handler that reads or writes it: the browser's verify call, the   *)
(* Razorpay webhook with its de-duplication record, the payment-check job, *)
(* the staff actions (status dropdown, mark paid, kitchen board, cancel    *)
(* and refund under a Redis lock) and the customer's cancellation request. *)
(*                                                                         *)
(* A handler is a call: it runs in one of the slots Procs, and each of its *)
(* awaits is a step of its own, so two calls interleave exactly where the  *)
(* server's event loop lets them. A call can throw (a database, Redis or   *)
(* Razorpay error) or die with its server at any step; together those are  *)
(* bounded by MaxFaults. Rows are inserted by OrdersService.create and     *)
(* createManual in the initial state given here.                           *)
(***************************************************************************)
EXTENDS Naturals, FiniteSets

CONSTANTS
  Orders,            \* ids of the orders
  Procs,             \* slots for calls in flight: the bound on concurrency
  Free,              \* value of a Redis refund lock nobody holds
  Handlers,          \* the handlers that are called in this instance
  Methods,           \* payment methods the orders may be placed with
  EventKinds,        \* webhook events the business subscribed to
  SettableStatuses,  \* statuses the staff dropdown may set
  MaxRefunds,        \* bound: refunds per order
  MaxFaults,         \* bound: thrown errors and dead calls
  SlowCalls          \* TRUE: a refund may outlive its lock's 120 s

Statuses == {"PENDING_PAYMENT", "CONFIRMED", "PREPARING", "READY",
             "OUT_FOR_DELIVERY", "DELIVERED", "CANCELLED"}
PaymentStatuses == {"PENDING", "PAID", "FAILED", "REFUNDED"}
PaymentMethods == {"RAZORPAY", "CASH"}     \* UPI is handled exactly as CASH
RefundMethods == {"MANUAL", "RAZORPAY"}
CapturedKinds == {"payment.captured", "order.paid"}
WebhookKinds == CapturedKinds \cup {"payment.failed"}
EventStatuses == {"NONE", "PENDING", "PROCESSED", "FAILED"}
RequestStatuses == {"NONE", "PENDING", "WITHDRAWN", "REJECTED", "APPROVED"}
AllHandlers == {"verify", "webhook", "job", "status", "markPaid", "kitchen",
                "refund", "request"}
Ages == {"new", "due", "stale"}            \* < 3 min, 3 min - 24 h, > 24 h

OrderRows == [method : PaymentMethods, status : Statuses,
              payment : PaymentStatuses, payId : BOOLEAN, age : Ages]

ASSUME OrdersAssumption == Orders # {}
ASSUME FreeAssumption == Free \notin Procs
ASSUME HandlersAssumption == Handlers \subseteq AllHandlers
ASSUME MethodsAssumption == Methods \subseteq PaymentMethods
ASSUME KindsAssumption == EventKinds \subseteq WebhookKinds
ASSUME SettableAssumption == SettableStatuses \subseteq Statuses
ASSUME BoundsAssumption == MaxRefunds \in Nat /\ MaxFaults \in Nat
ASSUME SlowAssumption == SlowCalls \in BOOLEAN

VARIABLES
  order,     \* order[o]: the columns of the row the handlers look at
  money,     \* money[o]: captured at Razorpay, or cash in the till
  failed,    \* failed[o]: an online attempt at paying it failed
  sent,      \* sent[o]: refunds Razorpay has executed
  refunds,   \* refunds[o][m]: Refund rows recorded by method
  request,   \* request[o]: status of its latest cancellation request
  event,     \* event[o][k]: status of the webhook_events record
  queued,    \* queued[o]: its order-confirmed job was added to Bull
  lock,      \* lock[o]: Redis key refund-lock:order:o, by owning call
  call,      \* call[p]: the call running in slot p
  faults     \* thrown errors and dead calls so far

outside == <<money, failed, sent>>
tables == <<order, refunds, request, event>>
redis == <<queued, lock>>
vars == <<outside, tables, redis, call, faults>>

-----------------------------------------------------------------------------
\* Calls in flight.

Phases == {"idle", "confirm", "enqueue",                     \* confirmOrderPayment
           "lookup", "create", "fail", "processed",          \* handleWebhook
           "ask",                                            \* payment-check job
           "status", "manualPaid", "kitchen",                \* staff
           "check", "gateway", "save", "release",            \* cancelWithRefund
           "request"}                                        \* customer

NoCall ==
  [phase |-> "idle", order |-> CHOOSE o \in Orders : TRUE, kind |-> "none",
   sawPaid |-> FALSE, seen |-> "PENDING_PAYMENT", to |-> "PENDING_PAYMENT",
   via |-> "MANUAL"]

Calls == [phase : Phases, order : Orders, kind : WebhookKinds \cup {"none"},
          sawPaid : BOOLEAN, seen : Statuses, to : Statuses,
          via : RefundMethods]

NewCall(o, phase) == [NoCall EXCEPT !.phase = phase, !.order = o]

Idle(p) == call[p].phase = "idle"
In(p, phase) == call[p].phase = phase
Begin(p, c) == Idle(p) /\ call' = [call EXCEPT ![p] = c]
Goto(p, phase) == call' = [call EXCEPT ![p].phase = phase]
Return(p) == call' = [call EXCEPT ![p] = NoCall]

\* The locked part of cancelWithRefund, and the part of handleWebhook inside
\* its try block.
RefundPhases == {"check", "gateway", "save", "release"}
HoldsLock(p, o) == call[p].phase \in RefundPhases /\ call[p].order = o
InWebhookTry(p) ==
  call[p].kind # "none"
    /\ call[p].phase \in {"confirm", "enqueue", "fail", "processed"}

Write(o, row) == order' = [order EXCEPT ![o] = row]

RefundRows(o) == refunds[o]["MANUAL"] + refunds[o]["RAZORPAY"]

-----------------------------------------------------------------------------
\* Outside the program: the customer, Razorpay, the till and the clock.

TakeMoney(o) ==
  /\ ~money[o]
  /\ order[o].method = "CASH" => order[o].status # "CANCELLED"
  /\ money' = [money EXCEPT ![o] = TRUE]
  /\ UNCHANGED <<tables, redis, failed, sent, call, faults>>

AttemptFails(o) ==
  /\ order[o].method = "RAZORPAY" /\ ~money[o] /\ ~failed[o]
  /\ failed' = [failed EXCEPT ![o] = TRUE]
  /\ UNCHANGED <<tables, redis, money, sent, call, faults>>

Age(o) ==
  /\ order[o].age # "stale"
  /\ Write(o, [order[o] EXCEPT !.age = IF @ = "new" THEN "due" ELSE "stale"])
  /\ UNCHANGED <<outside, redis, refunds, request, event, call, faults>>

-----------------------------------------------------------------------------
\* Confirming a captured payment: shared by browser, webhook and job.

StartVerify(p, o) ==
  /\ order[o].method = "RAZORPAY" /\ order[o].payment # "PAID"
  /\ money[o]                    \* else the checkout signature is not valid
  /\ Begin(p, NewCall(o, "confirm"))
  /\ UNCHANGED <<outside, tables, redis, faults>>

Confirmed(row) ==
  [row EXCEPT !.payment = "PAID", !.status = "CONFIRMED", !.payId = TRUE]

\* Bug: confirmOrderPayment forgets to queue the confirmation.
MarkPaidSilently(p) ==
  LET o == call[p].order IN
  /\ In(p, "confirm")
  /\ Write(o, Confirmed(order[o]))
  /\ IF call[p].kind = "none" THEN Return(p) ELSE Goto(p, "processed")
  /\ UNCHANGED <<outside, redis, refunds, request, event, faults>>

\* ordersRepo.markPaid: no condition on the row it overwrites.
MarkPaid(p) ==
  LET o == call[p].order IN
  /\ In(p, "confirm")
  /\ Write(o, Confirmed(order[o]))
  /\ Goto(p, "enqueue")
  /\ UNCHANGED <<outside, redis, refunds, request, event, faults>>

\* Bull ignores a second job with the same id, so adding is setting a flag.
EnqueueOrderConfirmation(p) ==
  LET o == call[p].order IN
  /\ In(p, "enqueue")
  /\ queued' = [queued EXCEPT ![o] = TRUE]
  /\ IF call[p].kind = "none" THEN Return(p) ELSE Goto(p, "processed")
  /\ UNCHANGED <<outside, tables, lock, faults>>

-----------------------------------------------------------------------------
\* handleWebhook. Razorpay may deliver an event whose fact has happened at
\* any time, more than once, in any order, and redelivers what was not
\* acknowledged.

Happened(o, k) ==
  order[o].method = "RAZORPAY"
    /\ IF k \in CapturedKinds THEN money[o] ELSE failed[o]

ReceiveWebhook(p, o, k) ==
  /\ Happened(o, k)
  /\ Begin(p, [NewCall(o, "lookup") EXCEPT !.kind = k,
                                 !.sawPaid = (order[o].payment = "PAID")])
  /\ UNCHANGED <<outside, tables, redis, faults>>

\* What the try block does first, decided on the row as it was first read.
EventAction(k, sawPaid) ==
  IF k = "payment.failed" THEN "fail"
  ELSE IF sawPaid THEN "processed" ELSE "confirm"

\* Bug: any existing record counts as processed, also one a fault left behind.
LookupEventOnce(p) ==
  LET c == call[p] IN
  /\ In(p, "lookup")
  /\ IF event[c.order][c.kind] = "NONE" THEN Goto(p, "create") ELSE Return(p)
  /\ UNCHANGED <<outside, tables, redis, faults>>

LookupEvent(p) ==
  LET c == call[p] IN
  /\ In(p, "lookup")
  /\ CASE event[c.order][c.kind] = "PROCESSED" -> Return(p)
       [] event[c.order][c.kind] = "NONE" -> Goto(p, "create")
       [] OTHER -> Goto(p, EventAction(c.kind, c.sawPaid))
  /\ UNCHANGED <<outside, tables, redis, faults>>

\* eventId is unique: the loser of two concurrent creates throws, outside
\* the try block, and Razorpay will redeliver.
CreateEvent(p) ==
  LET c == call[p] IN
  /\ In(p, "create")
  /\ IF event[c.order][c.kind] = "NONE"
       THEN /\ event' = [event EXCEPT ![c.order][c.kind] = "PENDING"]
            /\ Goto(p, EventAction(c.kind, c.sawPaid))
       ELSE Return(p) /\ UNCHANGED event
  /\ UNCHANGED <<outside, redis, order, refunds, request, faults>>

\* Bug: payment.failed is written to the wrong column.
FailedMarkOnStatus(row) == [row EXCEPT !.status = "FAILED"]

FailedMark(row) == IF row.payment = "PAID" THEN row
                   ELSE [row EXCEPT !.payment = "FAILED"]

MarkFailed(p) ==
  LET o == call[p].order IN
  /\ In(p, "fail")
  /\ Write(o, FailedMark(order[o]))
  /\ Goto(p, "processed")
  /\ UNCHANGED <<outside, redis, refunds, request, event, faults>>

MarkProcessed(p) ==
  LET c == call[p] IN
  /\ In(p, "processed")
  /\ event' = [event EXCEPT ![c.order][c.kind] = "PROCESSED"]
  /\ Return(p)
  /\ UNCHANGED <<outside, redis, order, refunds, request, faults>>

-----------------------------------------------------------------------------
\* The payment-check job, projected on one order: which orders a run's batch
\* holds is left open.

PickPending(p, o) ==
  /\ order[o].method = "RAZORPAY" /\ order[o].payment = "PENDING"
  /\ order[o].age = "due"
  /\ Begin(p, NewCall(o, "ask"))
  /\ UNCHANGED <<outside, tables, redis, faults>>

\* Bug: "none captured" is taken for a payment.
AskRazorpayBlindly(p) ==
  /\ In(p, "ask")
  /\ Goto(p, "confirm")
  /\ UNCHANGED <<outside, tables, redis, faults>>

AskRazorpay(p) ==
  /\ In(p, "ask")
  /\ IF money[call[p].order] THEN Goto(p, "confirm") ELSE Return(p)
  /\ UNCHANGED <<outside, tables, redis, faults>>

MarkStaleFailed(o) ==
  /\ order[o].method = "RAZORPAY" /\ order[o].payment = "PENDING"
  /\ order[o].age = "stale"
  /\ Write(o, [order[o] EXCEPT !.payment = "FAILED"])
  /\ UNCHANGED <<outside, redis, refunds, request, event, call, faults>>

-----------------------------------------------------------------------------
\* Staff: the status dropdown, marking cash received, the kitchen board.

StatusChangeAllowed(row, to) ==
  /\ row.status # "CANCELLED"
  /\ IF row.payment = "PAID" THEN to # "CANCELLED" ELSE row.method # "RAZORPAY"

StartUpdateStatus(p, o, to) ==
  /\ StatusChangeAllowed(order[o], to)
  /\ Begin(p, [NewCall(o, "status") EXCEPT !.to = to])
  /\ UNCHANGED <<outside, tables, redis, faults>>

UpdateStatus(p) ==
  LET o == call[p].order IN
  /\ In(p, "status")
  /\ Write(o, [order[o] EXCEPT !.status = call[p].to])
  /\ Return(p)
  /\ UNCHANGED <<outside, redis, refunds, request, event, faults>>

StartMarkPaidManually(p, o) ==
  /\ money[o]                    \* staff confirm cash they hold
  /\ order[o].method # "RAZORPAY"
  /\ order[o].payment # "PAID" /\ order[o].status # "CANCELLED"
  /\ Begin(p, [NewCall(o, "manualPaid") EXCEPT !.seen = order[o].status])
  /\ UNCHANGED <<outside, tables, redis, faults>>

\* keepStatus: only an order read as PENDING_PAYMENT is confirmed by paying.
PaidByHand(row, seen) ==
  [row EXCEPT !.payment = "PAID",
              !.status = IF seen = "PENDING_PAYMENT" THEN "CONFIRMED" ELSE @]

MarkPaidManually(p) ==
  LET o == call[p].order IN
  /\ In(p, "manualPaid")
  /\ Write(o, PaidByHand(order[o], call[p].seen))
  /\ Return(p)
  /\ UNCHANGED <<outside, redis, refunds, request, event, faults>>

\* Bug: an unpaid online order is already the kitchen's.
KitchenStageUnpaid(row) ==
  CASE row.status \in {"CONFIRMED", "PENDING_PAYMENT"} -> "NEW"
    [] row.status \in {"PREPARING", "READY"} -> row.status
    [] row.status \in {"OUT_FOR_DELIVERY", "DELIVERED"} -> "DONE"
    [] OTHER -> "NONE"

KitchenStage(row) ==
  CASE row.status = "CONFIRMED" -> "NEW"
    [] row.status = "PENDING_PAYMENT" ->
         IF row.method # "RAZORPAY" THEN "NEW" ELSE "NONE"
    [] row.status \in {"PREPARING", "READY"} -> row.status
    [] row.status \in {"OUT_FOR_DELIVERY", "DELIVERED"} -> "DONE"
    [] OTHER -> "NONE"

KitchenMoveAllowed(row, cancelRequested, to) ==
  \/ to = "PREPARING" /\ KitchenStage(row) = "NEW" /\ ~cancelRequested
  \/ to = "PREPARING" /\ KitchenStage(row) = "READY"
  \/ to = "READY" /\ KitchenStage(row) = "PREPARING"

StartKitchenMove(p, o, to) ==
  /\ KitchenMoveAllowed(order[o], request[o] = "PENDING", to)
  /\ Begin(p, [NewCall(o, "kitchen") EXCEPT !.seen = order[o].status, !.to = to])
  /\ UNCHANGED <<outside, tables, redis, faults>>

\* moveStatus: only if the status is still the one that was read.
MoveStatus(p) ==
  LET o == call[p].order IN
  /\ In(p, "kitchen")
  /\ IF order[o].status = call[p].seen
       THEN Write(o, [order[o] EXCEPT !.status = call[p].to])
       ELSE UNCHANGED order
  /\ Return(p)
  /\ UNCHANGED <<outside, redis, refunds, request, event, faults>>

-----------------------------------------------------------------------------
\* Cancel and refund, under refund-lock:order:o.

\* Bug: SET without NX.
AcquireRefundLockAlways(p, o, via) ==
  /\ RefundRows(o) < MaxRefunds /\ sent[o] < MaxRefunds
  /\ lock' = [lock EXCEPT ![o] = p]
  /\ Begin(p, [NewCall(o, "check") EXCEPT !.via = via])
  /\ UNCHANGED <<outside, tables, queued, faults>>

AcquireRefundLock(p, o, via) ==
  /\ lock[o] = Free
  /\ RefundRows(o) < MaxRefunds /\ sent[o] < MaxRefunds
  /\ lock' = [lock EXCEPT ![o] = p]
  /\ Begin(p, [NewCall(o, "check") EXCEPT !.via = via])
  /\ UNCHANGED <<outside, tables, queued, faults>>

\* Bug: an order that is not PAID can be refunded.
RefundAllowedUnpaid(row, via) ==
  /\ row.status # "CANCELLED"
  /\ via = "RAZORPAY" => row.payId

RefundAllowed(row, via) ==
  /\ row.status # "CANCELLED" /\ row.payment = "PAID"
  /\ via = "RAZORPAY" => row.payId

CheckRefund(p) ==
  LET c == call[p] IN
  /\ In(p, "check")
  /\ Goto(p, IF ~RefundAllowed(order[c.order], c.via) THEN "release"
             ELSE IF c.via = "RAZORPAY" THEN "gateway" ELSE "save")
  /\ UNCHANGED <<outside, tables, redis, faults>>

\* The money leaves before anything is saved.
RefundPayment(p) ==
  /\ In(p, "gateway")
  /\ sent' = [sent EXCEPT ![call[p].order] = @ + 1]
  /\ Goto(p, "save")
  /\ UNCHANGED <<tables, redis, money, failed, faults>>

Refunded(row) == [row EXCEPT !.status = "CANCELLED", !.payment = "REFUNDED"]

\* Bug: the pending request is not answered in the transaction.
SaveRefundOnly(p) ==
  LET o == call[p].order IN
  /\ In(p, "save")
  /\ IF order[o].status # "CANCELLED"
       THEN /\ Write(o, Refunded(order[o]))
            /\ refunds' = [refunds EXCEPT ![o][call[p].via] = @ + 1]
       ELSE UNCHANGED <<order, refunds>>
  /\ Goto(p, "release")
  /\ UNCHANGED <<outside, redis, request, event, faults>>

\* One transaction: cancel unless cancelled, record the refund, approve a
\* pending request.
SaveRefund(p) ==
  LET o == call[p].order IN
  /\ In(p, "save")
  /\ IF order[o].status # "CANCELLED"
       THEN /\ Write(o, Refunded(order[o]))
            /\ refunds' = [refunds EXCEPT ![o][call[p].via] = @ + 1]
            /\ request' = [request EXCEPT ![o] =
                             IF @ = "PENDING" THEN "APPROVED" ELSE @]
       ELSE UNCHANGED <<order, refunds, request>>
  /\ Goto(p, "release")
  /\ UNCHANGED <<outside, redis, event, faults>>

\* releaseLock compares the token: it never frees another owner's lock.
Unlocked(p, o) == IF lock[o] = p THEN [lock EXCEPT ![o] = Free] ELSE lock

ReleaseRefundLock(p) ==
  /\ In(p, "release")
  /\ lock' = Unlocked(p, call[p].order)
  /\ Return(p)
  /\ UNCHANGED <<outside, tables, queued, faults>>

\* Bugs: a TTL shorter than the refund call; a lock without a TTL.
LockExpiresEarly(o) ==
  /\ lock[o] # Free
  /\ lock' = [lock EXCEPT ![o] = Free]
  /\ UNCHANGED <<outside, tables, queued, call, faults>>
LockExpiresNever(o) == FALSE /\ UNCHANGED vars

\* The TTL is for an owner that died; a live one keeps the lock unless its
\* calls outlast it.
LockExpires(o) ==
  /\ lock[o] # Free
  /\ SlowCalls \/ ~HoldsLock(lock[o], o)
  /\ lock' = [lock EXCEPT ![o] = Free]
  /\ UNCHANGED <<outside, tables, queued, call, faults>>

-----------------------------------------------------------------------------
\* The customer's cancellation request and its answers.

MayRequestCancel(row) == row.payment = "PAID" /\ row.status = "CONFIRMED"

StartRequest(p, o) ==
  /\ MayRequestCancel(order[o])
  /\ Begin(p, NewCall(o, "request"))
  /\ UNCHANGED <<outside, tables, redis, faults>>

\* createIfNonePending looks for a pending request under an advisory lock,
\* and at nothing else.
CreateIfNonePending(p) ==
  LET o == call[p].order IN
  /\ In(p, "request")
  /\ request' = [request EXCEPT ![o] = "PENDING"]
  /\ Return(p)
  /\ UNCHANGED <<outside, redis, order, refunds, event, faults>>

CloseIfPending(o, answer) ==
  /\ request[o] = "PENDING"
  /\ request' = [request EXCEPT ![o] = answer]
  /\ UNCHANGED <<outside, redis, order, refunds, event, call, faults>>

Withdraw(o) == CloseIfPending(o, "WITHDRAWN")
Reject(o) == CloseIfPending(o, "REJECTED")

-----------------------------------------------------------------------------
\* Faults. A throw unwinds the handler: the webhook's catch records FAILED
\* and the refund's finally releases the lock. A dead call does neither.

Throw(p) ==
  LET c == call[p] IN
  /\ ~Idle(p) /\ faults < MaxFaults
  /\ faults' = faults + 1
  /\ event' = IF InWebhookTry(p)
              THEN [event EXCEPT ![c.order][c.kind] = "FAILED"] ELSE event
  /\ lock' = IF c.phase \in RefundPhases THEN Unlocked(p, c.order) ELSE lock
  /\ Return(p)
  /\ UNCHANGED <<outside, order, refunds, request, queued>>

Die(p) ==
  /\ ~Idle(p) /\ faults < MaxFaults
  /\ faults' = faults + 1
  /\ Return(p)
  /\ UNCHANGED <<outside, tables, redis>>

-----------------------------------------------------------------------------
NewOrder(m) == [method |-> m, status |-> "PENDING_PAYMENT",
                payment |-> "PENDING", payId |-> FALSE, age |-> "new"]

Init ==
  /\ order \in [Orders -> {NewOrder(m) : m \in Methods}]
  /\ money = [o \in Orders |-> FALSE]
  /\ failed = [o \in Orders |-> FALSE]
  /\ sent = [o \in Orders |-> 0]
  /\ refunds = [o \in Orders |-> [m \in RefundMethods |-> 0]]
  /\ request = [o \in Orders |-> "NONE"]
  /\ event = [o \in Orders |-> [k \in WebhookKinds |-> "NONE"]]
  /\ queued = [o \in Orders |-> FALSE]
  /\ lock = [o \in Orders |-> Free]
  /\ call = [p \in Procs |-> NoCall]
  /\ faults = 0

World(o) == TakeMoney(o) \/ AttemptFails(o) \/ Age(o)

Start(p, o) ==
  \/ "verify" \in Handlers /\ StartVerify(p, o)
  \/ "webhook" \in Handlers /\ \E k \in EventKinds : ReceiveWebhook(p, o, k)
  \/ "job" \in Handlers /\ PickPending(p, o)
  \/ "status" \in Handlers
       /\ \E to \in SettableStatuses : StartUpdateStatus(p, o, to)
  \/ "markPaid" \in Handlers /\ StartMarkPaidManually(p, o)
  \/ "kitchen" \in Handlers
       /\ \E to \in {"PREPARING", "READY"} : StartKitchenMove(p, o, to)
  \/ "refund" \in Handlers /\ \E via \in RefundMethods : AcquireRefundLock(p, o, via)
  \/ "request" \in Handlers /\ StartRequest(p, o)

Step(p) ==
  \/ MarkPaid(p) \/ EnqueueOrderConfirmation(p)
  \/ LookupEvent(p) \/ CreateEvent(p) \/ MarkFailed(p) \/ MarkProcessed(p)
  \/ AskRazorpay(p)
  \/ UpdateStatus(p) \/ MarkPaidManually(p) \/ MoveStatus(p)
  \/ CheckRefund(p) \/ RefundPayment(p) \/ SaveRefund(p) \/ ReleaseRefundLock(p)
  \/ CreateIfNonePending(p)

Atomic(o) ==
  \/ "job" \in Handlers /\ MarkStaleFailed(o)
  \/ LockExpires(o) \/ Withdraw(o) \/ Reject(o)

Next ==
  \/ \E o \in Orders : World(o) \/ Atomic(o)
  \/ \E p \in Procs : Step(p) \/ Throw(p) \/ Die(p)
  \/ \E p \in Procs, o \in Orders : Start(p, o)

Spec == Init /\ [][Next]_vars

\* The server runs every call it has begun to its end, Redis expires keys,
\* and Razorpay redelivers an event until it is acknowledged. Its delivery
\* is strongly fair because the slots of Procs bound the model, not the
\* server, which never keeps a request waiting for the others to end.
Redeliver(o, k) ==
  event[o][k] # "PROCESSED" /\ \E p \in Procs : ReceiveWebhook(p, o, k)

Fairness ==
  /\ \A p \in Procs : WF_vars(Step(p))
  /\ \A o \in Orders : WF_vars(LockExpires(o))
  /\ \A o \in Orders : \A k \in EventKinds : SF_vars(Redeliver(o, k))

FairSpec == Spec /\ Fairness

-----------------------------------------------------------------------------
\* Every column keeps its type, and the refund counts their bound.
TypeOK ==
  /\ order \in [Orders -> OrderRows]
  /\ money \in [Orders -> BOOLEAN]
  /\ failed \in [Orders -> BOOLEAN]
  /\ sent \in [Orders -> Nat]
  /\ refunds \in [Orders -> [RefundMethods -> Nat]]
  /\ request \in [Orders -> RequestStatuses]
  /\ event \in [Orders -> [WebhookKinds -> EventStatuses]]
  /\ queued \in [Orders -> BOOLEAN]
  /\ lock \in [Orders -> Procs \cup {Free}]
  /\ call \in [Procs -> Calls]
  /\ faults \in 0..MaxFaults

Ledger == INSTANCE PaymentLedger
            WITH mark <- [o \in Orders |-> order[o].payment],
                 rows <- [o \in Orders |-> RefundRows(o)]

\* The payment columns and the refund table behave as the ledger promises:
\* whatever call overtakes another, an order becomes PAID only for money
\* taken, a late payment.failed or sweep never lowers PAID, and a refund is
\* recorded only for an order that is PAID at that very step, even though
\* cancelWithRefund read it two awaits earlier.
ImplementsLedger == Ledger!LedgerSpec

\* PAID, REFUNDED and a Refund row all need money that was taken, and
\* REFUNDED needs a Refund row.
MoneyBehindEveryMark == Ledger!LedgerSafe

\* Two cancel-and-refund calls never run their locked part on one order
\* together (withRefundLock), as long as no call outlives the lock's TTL.
RefundsAreSerial ==
  \A p, q \in Procs : \A o \in Orders :
    HoldsLock(p, o) /\ HoldsLock(q, o) => p = q

\* Refunds Razorpay executed and the rows that record them agree, up to the
\* call that is between the two; only a thrown error or a dead server can
\* leave a refund that was sent without its row. In particular no refund is
\* sent for an order another call has cancelled meanwhile.
Sending(o) ==
  \E p \in Procs : call[p].phase = "save" /\ call[p].order = o
                     /\ call[p].via = "RAZORPAY"

RefundsAreAccounted ==
  \A o \in Orders :
    LET recorded == refunds[o]["RAZORPAY"] + (IF Sending(o) THEN 1 ELSE 0)
    IN  recorded <= sent[o] /\ sent[o] <= recorded + faults

\* An online order reaches the kitchen, the rider or the customer only if it
\* was paid: no staff action decided on a stale row moves an unpaid Razorpay
\* order on.
KitchenCooksPaidOrders ==
  \A o \in Orders :
    /\ order[o].method = "RAZORPAY"
    /\ order[o].status \notin {"PENDING_PAYMENT", "CANCELLED"}
    => money[o]

\* The customer of a paid online order is told: its order-confirmed job is
\* in the queue, or the call that marked it paid is about to add it, or a
\* fault stopped that call.
PaidOrdersAreAnnounced ==
  \A o \in Orders :
    /\ order[o].method = "RAZORPAY" /\ order[o].payment = "PAID"
    => \/ queued[o]
       \/ \E p \in Procs : call[p].phase = "enqueue" /\ call[p].order = o
       \/ faults > 0

\* A paid order stops being PAID only in the refund transaction, which
\* cancels it, records one refund and answers a pending request at once.
PaidEndsOnlyInRefund ==
  [][\A o \in Orders :
       order[o].payment = "PAID" /\ order'[o].payment # "PAID"
       => /\ order'[o].payment = "REFUNDED" /\ order'[o].status = "CANCELLED"
          /\ RefundRows(o)' = RefundRows(o) + 1
          /\ request'[o] # "PENDING"]_vars

\* A captured online payment is eventually confirmed (markPaid writes its
\* payment id on the row), however its webhooks are duplicated, reordered or
\* stopped half-way by a fault, as long as Razorpay redelivers.
CapturedIsConfirmed ==
  \A o \in Orders :
    order[o].method = "RAZORPAY" /\ money[o] ~> order[o].payId

\* No order stays locked against refunds, even when the server dies in one.
RefundLockIsReleased ==
  \A o \in Orders : lock[o] # Free ~> lock[o] = Free
=============================================================================
