------------------------ MODULE OrderPaymentsProofs ------------------------
(***************************************************************************)
(* Theorems about OrderPayments, for every set of orders and slots, every  *)
(* choice of handlers and every bound. What the Redis refund lock gives,   *)
(* and that the whole implements PaymentLedger, assumes that no call       *)
(* outlives the lock's TTL (SlowCalls = FALSE), which nothing in the code  *)
(* enforces: those theorems say so.                                        *)
(***************************************************************************)
EXTENDS OrderPayments, TLAPS

-----------------------------------------------------------------------------
\* Types.

\* A slot at rest, and a call that begins, are call records.
LEMMA CallTypes ==
  /\ NoCall \in Calls
  /\ \A o \in Orders, phase \in Phases : NewCall(o, phase) \in Calls
<1>1. (CHOOSE o \in Orders : TRUE) \in Orders
  BY OrdersAssumption
<1>2. QED
  BY <1>1 DEF NoCall, NewCall, Calls, Phases, Statuses, RefundMethods

\* A call that goes on to its next await stays a call record.
LEMMA GotoTypeOK ==
  ASSUME NEW p \in Procs, NEW phase \in Phases, TypeOK, Goto(p, phase)
  PROVE  call' \in [Procs -> Calls]
BY DEF TypeOK, Goto, Calls

\* So does a slot whose handler returns.
LEMMA ReturnTypeOK ==
  ASSUME NEW p \in Procs, TypeOK, Return(p) PROVE call' \in [Procs -> Calls]
BY CallTypes DEF TypeOK, Return

\* A handler begins only in an idle slot, which then holds its call.
LEMMA BegunCall ==
  ASSUME TypeOK, NEW p \in Procs, NEW c \in Calls, Begin(p, c)
  PROVE  /\ Idle(p) /\ call'[p] = c
         /\ call' \in [Procs -> Calls]
BY DEF TypeOK, Begin

\* Writing a typed row keeps the table typed.
LEMMA WriteTypeOK ==
  ASSUME NEW o \in Orders, NEW row \in OrderRows, TypeOK, Write(o, row)
  PROVE  order' \in [Orders -> OrderRows]
BY DEF TypeOK, Write

\* Every row a handler writes is a row of the table.
LEMMA WrittenRows ==
  ASSUME NEW row \in OrderRows
  PROVE  /\ Confirmed(row) \in OrderRows
         /\ FailedMark(row) \in OrderRows
         /\ Refunded(row) \in OrderRows
         /\ [row EXCEPT !.payment = "FAILED"] \in OrderRows
         /\ [row EXCEPT !.age = IF @ = "new" THEN "due" ELSE "stale"] \in OrderRows
         /\ \A seen \in Statuses : PaidByHand(row, seen) \in OrderRows
         /\ \A to \in Statuses : [row EXCEPT !.status = to] \in OrderRows
BY DEF OrderRows, Confirmed, FailedMark, Refunded, PaidByHand, Statuses,
       PaymentStatuses, Ages

\* The arguments a handler stores in its call record keep its type.
LEMMA CallArguments ==
  ASSUME NEW c \in Calls
  PROVE  /\ \A k \in WebhookKinds, b \in BOOLEAN :
              [c EXCEPT !.kind = k, !.sawPaid = b] \in Calls
         /\ \A seen \in Statuses : [c EXCEPT !.seen = seen] \in Calls
         /\ \A to \in Statuses : [c EXCEPT !.to = to] \in Calls
         /\ \A seen, to \in Statuses : [c EXCEPT !.seen = seen, !.to = to] \in Calls
         /\ \A via \in RefundMethods : [c EXCEPT !.via = via] \in Calls
BY DEF Calls

\* The tables the handlers start from are typed.
LEMMA InitTypeOK == Init => TypeOK
<1> SUFFICES ASSUME Init PROVE TypeOK
  OBVIOUS
<1>1. order \in [Orders -> OrderRows]
  <2>1. \A m \in Methods : NewOrder(m) \in OrderRows
    BY MethodsAssumption DEF NewOrder, OrderRows, Statuses, PaymentStatuses, Ages
  <2>2. QED
    BY <2>1 DEF Init
<1>2. refunds \in [Orders -> [RefundMethods -> Nat]]
  BY DEF Init
<1>3. event \in [Orders -> [WebhookKinds -> EventStatuses]]
  BY DEF Init, EventStatuses
<1>4. call \in [Procs -> Calls]
  BY CallTypes DEF Init
<1>5. QED
  BY <1>1, <1>2, <1>3, <1>4, BoundsAssumption DEF Init, TypeOK, RequestStatuses

\* Payments, failed attempts and the clock keep the types.
LEMMA WorldTypeOK ==
  ASSUME TypeOK, NEW o \in Orders, World(o) PROVE TypeOK'
<1>1. CASE TakeMoney(o)
  BY <1>1 DEF TakeMoney, TypeOK, tables, redis
<1>2. CASE AttemptFails(o)
  BY <1>2 DEF AttemptFails, TypeOK, tables, redis
<1>3. CASE Age(o)
  BY <1>3, WrittenRows, WriteTypeOK DEF Age, TypeOK, outside, redis
<1>4. QED
  BY <1>1, <1>2, <1>3 DEF World

\* So do the stale sweep, lock expiry and the answers to a request.
LEMMA AtomicTypeOK ==
  ASSUME TypeOK, NEW o \in Orders, Atomic(o) PROVE TypeOK'
<1>1. CASE MarkStaleFailed(o)
  BY <1>1, WrittenRows, WriteTypeOK DEF MarkStaleFailed, TypeOK, outside, redis
<1>2. CASE LockExpires(o)
  BY <1>2 DEF LockExpires, TypeOK, outside, tables
<1>3. CASE Withdraw(o) \/ Reject(o)
  BY <1>3 DEF Withdraw, Reject, CloseIfPending, TypeOK, outside, redis, RequestStatuses
<1>4. QED
  BY <1>1, <1>2, <1>3 DEF Atomic

\* What a handler has checked of a row before its first await.
Checked(c, row) ==
  \/ c.phase = "confirm" /\ money[c.order] /\ row.method = "RAZORPAY"
  \/ c.phase = "lookup" /\ c.kind \in WebhookKinds /\ Happened(c.order, c.kind)
  \/ c.phase = "ask" /\ row.method = "RAZORPAY"
  \/ c.phase = "status" /\ StatusChangeAllowed(row, c.to)
  \/ c.phase = "manualPaid" /\ money[c.order] /\ row.method # "RAZORPAY"
  \/ /\ c.phase = "kitchen" /\ c.to \in {"PREPARING", "READY"}
     /\ KitchenStage(row) \in {"NEW", "PREPARING", "READY"}
  \/ c.phase = "check" /\ lock[c.order] = Free
  \/ c.phase = "request"

StartsLock(p, c) == lock' = IF c.phase = "check" THEN [lock EXCEPT ![c.order] = p]
                            ELSE lock

\* Whatever handler begins, its entry checks held on the row it read, and it
\* changes at most the refund lock.
LEMMA StartedCall ==
  ASSUME TypeOK, NEW p \in Procs, NEW o \in Orders, Start(p, o)
  PROVE  \E c \in Calls : /\ Begin(p, c) /\ c.order = o /\ Checked(c, order[o])
                          /\ StartsLock(p, c)
                          /\ UNCHANGED <<outside, tables, queued, faults>>
<1> USE DEF redis
<1>1. \A phase \in Phases : /\ NewCall(o, phase) \in Calls
                           /\ NewCall(o, phase).order = o
                           /\ NewCall(o, phase).phase = phase
  BY CallTypes DEF NewCall, NoCall
<1>2. order[o].status \in Statuses
  BY DEF TypeOK, OrderRows
<1>3. CASE StartVerify(p, o)
  BY <1>1, <1>3 DEF StartVerify, Checked, StartsLock, Phases
<1>4. CASE PickPending(p, o)
  BY <1>1, <1>4 DEF PickPending, Checked, StartsLock, Phases
<1>5. CASE StartRequest(p, o)
  BY <1>1, <1>5 DEF StartRequest, Checked, StartsLock, Phases
<1>6. CASE \E k \in EventKinds : ReceiveWebhook(p, o, k)
  <2>1. PICK k \in EventKinds : ReceiveWebhook(p, o, k)
    BY <1>6
  <2> DEFINE c == [NewCall(o, "lookup") EXCEPT !.kind = k,
                                               !.sawPaid = (order[o].payment = "PAID")]
  <2>2. c \in Calls
    BY CallTypes, CallArguments, KindsAssumption DEF Phases
  <2>3. c.order = o /\ c.phase = "lookup" /\ c.kind = k /\ k \in WebhookKinds
    BY KindsAssumption DEF NewCall, NoCall
  <2>4. Begin(p, c) /\ Happened(o, k)
    BY <2>1 DEF ReceiveWebhook
  <2> HIDE DEF c
  <2>5. QED
    BY <2>1, <2>2, <2>3, <2>4 DEF ReceiveWebhook, Checked, StartsLock
<1>7. CASE \E to \in SettableStatuses : StartUpdateStatus(p, o, to)
  <2>1. PICK to \in SettableStatuses : StartUpdateStatus(p, o, to)
    BY <1>7
  <2> DEFINE c == [NewCall(o, "status") EXCEPT !.to = to]
  <2>2. c \in Calls
    BY CallTypes, CallArguments, SettableAssumption DEF Phases
  <2>3. c.order = o /\ c.phase = "status" /\ c.to = to
    BY DEF NewCall, NoCall
  <2> HIDE DEF c
  <2>4. Begin(p, c) /\ StatusChangeAllowed(order[o], to)
    BY <2>1 DEF StartUpdateStatus, c
  <2>5. QED
    BY <2>1, <2>2, <2>3, <2>4 DEF StartUpdateStatus, Checked, StartsLock
<1>8. CASE StartMarkPaidManually(p, o)
  <2> DEFINE c == [NewCall(o, "manualPaid") EXCEPT !.seen = order[o].status]
  <2>1. c \in Calls
    BY <1>2, CallTypes, CallArguments DEF Phases
  <2>2. c.order = o /\ c.phase = "manualPaid"
    BY DEF NewCall, NoCall
  <2>3. Begin(p, c)
    BY <1>8 DEF StartMarkPaidManually
  <2> HIDE DEF c
  <2>4. QED
    BY <1>8, <2>1, <2>2, <2>3 DEF StartMarkPaidManually, Checked, StartsLock
<1>9. CASE \E to \in {"PREPARING", "READY"} : StartKitchenMove(p, o, to)
  <2>1. PICK to \in {"PREPARING", "READY"} : StartKitchenMove(p, o, to)
    BY <1>9
  <2> DEFINE c == [NewCall(o, "kitchen") EXCEPT !.seen = order[o].status, !.to = to]
  <2>2. c \in Calls
    BY <1>2, CallTypes, CallArguments DEF Phases, Statuses
  <2>3. c.order = o /\ c.phase = "kitchen" /\ c.to = to
    BY DEF NewCall, NoCall
  <2>4. /\ Begin(p, c)
        /\ KitchenStage(order[o]) \in {"NEW", "PREPARING", "READY"}
    BY <2>1 DEF StartKitchenMove, KitchenMoveAllowed
  <2> HIDE DEF c
  <2>5. QED
    BY <2>1, <2>2, <2>3, <2>4 DEF StartKitchenMove, Checked, StartsLock
<1>10. CASE \E via \in RefundMethods : AcquireRefundLock(p, o, via)
  <2>1. PICK via \in RefundMethods : AcquireRefundLock(p, o, via)
    BY <1>10
  <2> DEFINE c == [NewCall(o, "check") EXCEPT !.via = via]
  <2>2. c \in Calls
    BY CallTypes, CallArguments DEF Phases
  <2>3. c.order = o /\ c.phase = "check" /\ Begin(p, c)
    BY <2>1 DEF NewCall, NoCall, AcquireRefundLock
  <2> HIDE DEF c
  <2>4. QED
    BY <2>1, <2>2, <2>3 DEF AcquireRefundLock, Checked, StartsLock
<1>11. QED
  BY <1>3, <1>4, <1>5, <1>6, <1>7, <1>8, <1>9, <1>10 DEF Start

\* Beginning any handler keeps the types.
LEMMA StartTypeOK ==
  ASSUME TypeOK, NEW p \in Procs, NEW o \in Orders, Start(p, o)
  PROVE  TypeOK'
<1>1. PICK c \in Calls : /\ Begin(p, c) /\ c.order = o /\ StartsLock(p, c)
                        /\ UNCHANGED <<outside, tables, queued, faults>>
  BY StartedCall
<1>2. call' \in [Procs -> Calls]
  BY <1>1, BegunCall
<1>3. lock' \in [Orders -> Procs \cup {Free}]
  BY <1>1 DEF StartsLock, TypeOK
<1>4. QED
  BY <1>1, <1>2, <1>3 DEF TypeOK, outside, tables
\* Every step between two awaits of a handler keeps the types.
LEMMA StepTypeOK ==
  ASSUME TypeOK, NEW p \in Procs, Step(p) PROVE TypeOK'
<1> DEFINE o == call[p].order
<1>1. /\ o \in Orders /\ order[o] \in OrderRows
      /\ call[p].to \in Statuses /\ call[p].seen \in Statuses
      /\ call[p].via \in RefundMethods
      /\ call[p].kind \in WebhookKinds \cup {"none"}
  BY DEF TypeOK, Calls
<1>2. \A phase \in Phases : Goto(p, phase) => call' \in [Procs -> Calls]
  BY GotoTypeOK
<1>3. Return(p) => call' \in [Procs -> Calls]
  BY ReturnTypeOK
<1>4. \A row \in OrderRows : Write(o, row) => order' \in [Orders -> OrderRows]
  BY <1>1, WriteTypeOK
<1> HIDE DEF o
<1>5. CASE MarkPaid(p)
  BY <1>1, <1>2, <1>4, <1>5, WrittenRows
     DEF MarkPaid, o, TypeOK, outside, redis, Phases
<1>6. CASE EnqueueOrderConfirmation(p)
  BY <1>1, <1>2, <1>3, <1>6
     DEF EnqueueOrderConfirmation, o, TypeOK, outside, tables, Phases
<1>7. CASE LookupEvent(p)
  BY <1>2, <1>3, <1>7
     DEF LookupEvent, EventAction, TypeOK, outside, tables, redis, Phases
<1>8. CASE CreateEvent(p)
  <2>1. call' \in [Procs -> Calls]
    BY <1>2, <1>3, <1>8 DEF CreateEvent, EventAction, Phases
  <2>2. event' \in [Orders -> [WebhookKinds -> EventStatuses]]
    <3>1. CASE UNCHANGED event
      BY <3>1 DEF TypeOK
    <3>2. CASE event' = [event EXCEPT ![o][call[p].kind] = "PENDING"]
      BY <1>1, <3>2 DEF TypeOK, EventStatuses
    <3>3. QED
      BY <1>8, <3>1, <3>2 DEF CreateEvent, o
  <2>3. QED
    BY <1>8, <2>1, <2>2 DEF CreateEvent, TypeOK, outside, redis
<1>9. CASE MarkFailed(p)
  BY <1>1, <1>2, <1>4, <1>9, WrittenRows
     DEF MarkFailed, o, TypeOK, outside, redis, Phases
<1>10. CASE MarkProcessed(p)
  BY <1>1, <1>3, <1>10 DEF MarkProcessed, TypeOK, outside, redis, EventStatuses
<1>11. CASE AskRazorpay(p)
  BY <1>2, <1>3, <1>11 DEF AskRazorpay, TypeOK, outside, tables, redis, Phases
<1>12. CASE UpdateStatus(p)
  BY <1>1, <1>3, <1>4, <1>12, WrittenRows
     DEF UpdateStatus, o, TypeOK, outside, redis
<1>13. CASE MarkPaidManually(p)
  BY <1>1, <1>3, <1>4, <1>13, WrittenRows
     DEF MarkPaidManually, o, TypeOK, outside, redis
<1>14. CASE MoveStatus(p)
  BY <1>1, <1>3, <1>4, <1>14, WrittenRows
     DEF MoveStatus, o, TypeOK, outside, redis
<1>15. CASE CheckRefund(p)
  BY <1>2, <1>15 DEF CheckRefund, TypeOK, outside, tables, redis, Phases
<1>16. CASE RefundPayment(p)
  BY <1>1, <1>2, <1>16 DEF RefundPayment, o, TypeOK, tables, redis, Phases
<1>17. CASE SaveRefund(p)
  <2>1. order' \in [Orders -> OrderRows] /\ call' \in [Procs -> Calls]
    BY <1>1, <1>2, <1>4, <1>17, WrittenRows DEF SaveRefund, o, Phases, TypeOK
  <2>2. refunds' \in [Orders -> [RefundMethods -> Nat]]
    <3>1. CASE UNCHANGED refunds
      BY <3>1 DEF TypeOK
    <3>2. CASE refunds' = [refunds EXCEPT ![o][call[p].via] = @ + 1]
      BY <1>1, <3>2 DEF TypeOK
    <3>3. QED
      BY <1>17, <3>1, <3>2 DEF SaveRefund, o
  <2>3. request' \in [Orders -> RequestStatuses]
    <3>1. request \in [Orders -> RequestStatuses]
      BY DEF TypeOK
    <3>2. QED
      BY <1>1, <1>17, <3>1 DEF SaveRefund, o, RequestStatuses
  <2>4. QED
    BY <1>17, <2>1, <2>2, <2>3 DEF SaveRefund, TypeOK, outside, redis
<1>18. CASE ReleaseRefundLock(p)
  BY <1>1, <1>3, <1>18 DEF ReleaseRefundLock, Unlocked, TypeOK, outside, tables
<1>19. CASE CreateIfNonePending(p)
  BY <1>1, <1>3, <1>19
     DEF CreateIfNonePending, TypeOK, outside, redis, RequestStatuses
<1>20. QED
  BY <1>5, <1>6, <1>7, <1>8, <1>9, <1>10, <1>11, <1>12, <1>13, <1>14, <1>15,
     <1>16, <1>17, <1>18, <1>19 DEF Step

\* A throw or a death keeps the types.
LEMMA FaultTypeOK ==
  ASSUME TypeOK, NEW p \in Procs, Throw(p) \/ Die(p) PROVE TypeOK'
<1>1. call' \in [Procs -> Calls]
  BY ReturnTypeOK DEF Throw, Die
<1>2. faults' \in 0..MaxFaults
  BY BoundsAssumption DEF Throw, Die, TypeOK
<1>3. CASE Throw(p)
  <2>1. event' \in [Orders -> [WebhookKinds -> EventStatuses]]
    BY <1>3 DEF Throw, InWebhookTry, TypeOK, Calls, EventStatuses
  <2>2. lock' \in [Orders -> Procs \cup {Free}]
    BY <1>3 DEF Throw, Unlocked, TypeOK, Calls
  <2>3. QED
    BY <1>1, <1>2, <1>3, <2>1, <2>2 DEF Throw, TypeOK, outside
<1>4. CASE Die(p)
  BY <1>1, <1>2, <1>4 DEF Die, TypeOK, outside, tables, redis
<1>5. QED
  BY <1>3, <1>4

\* Every column of every row, and every call in flight, keeps its type.
THEOREM TypeCorrect == Spec => []TypeOK
<1>1. TypeOK /\ [Next]_vars => TypeOK'
  <2> SUFFICES ASSUME TypeOK, [Next]_vars PROVE TypeOK'
    OBVIOUS
  <2>1. CASE UNCHANGED vars
    BY <2>1 DEF TypeOK, vars, outside, tables, redis
  <2>2. QED
    BY <2>1, WorldTypeOK, AtomicTypeOK, StartTypeOK, StepTypeOK, FaultTypeOK DEF Next
<1>2. QED
  BY InitTypeOK, <1>1, PTL DEF Spec

-----------------------------------------------------------------------------
\* Steps.

\* No step takes money back, changes how an order is paid, or clears its
\* payment id.
LEMMA Monotone ==
  ASSUME TypeOK, [Next]_vars, NEW o \in Orders
  PROVE  /\ money[o] => money'[o]
         /\ order'[o].method = order[o].method
         /\ order[o].payId => order'[o].payId
<1>1. order[o] \in OrderRows
  BY DEF TypeOK
<1>2. CASE UNCHANGED <<order, money>>
  BY <1>2
<1>3. CASE UNCHANGED order /\ \E x \in Orders : TakeMoney(x)
  BY <1>3 DEF TakeMoney, TypeOK
<1>4. CASE UNCHANGED money
  <2>1. CASE UNCHANGED order
    BY <1>4, <2>1
  <2>2. CASE \E x \in Orders, row \in OrderRows :
               /\ Write(x, row)
               /\ row.method = order[x].method
               /\ order[x].payId => row.payId
    BY <1>1, <1>4, <2>2 DEF Write, TypeOK
  <2>3. CASE \E x \in Orders : World(x) \/ Atomic(x)
    <3>1. PICK x \in Orders : World(x) \/ Atomic(x)
      BY <2>3
    <3>2. order[x] \in OrderRows
      BY DEF TypeOK
    <3>3. QED
      BY <1>4, <2>1, <2>2, <3>1, <3>2, WrittenRows
         DEF World, Atomic, TakeMoney, AttemptFails, Age, MarkStaleFailed,
             LockExpires, Withdraw, Reject, CloseIfPending, tables, OrderRows
  <2>4. CASE \E p \in Procs : Step(p)
    <3>1. PICK p \in Procs : Step(p)
      BY <2>4
    <3> DEFINE x == call[p].order
    <3>2. x \in Orders /\ order[x] \in OrderRows
          /\ call[p].to \in Statuses /\ call[p].seen \in Statuses
      BY DEF TypeOK, Calls
    <3>3. \/ UNCHANGED order
          \/ Write(x, Confirmed(order[x])) \/ Write(x, FailedMark(order[x]))
          \/ Write(x, Refunded(order[x]))
          \/ Write(x, PaidByHand(order[x], call[p].seen))
          \/ Write(x, [order[x] EXCEPT !.status = call[p].to])
      BY <3>1 DEF Step, MarkPaid, EnqueueOrderConfirmation, LookupEvent, CreateEvent,
           MarkFailed, MarkProcessed, AskRazorpay, UpdateStatus, MarkPaidManually,
           MoveStatus, CheckRefund, RefundPayment, SaveRefund, ReleaseRefundLock,
           CreateIfNonePending, tables
    <3> HIDE DEF x
    <3>4. ASSUME NEW row \in OrderRows,
                 row \in {Confirmed(order[x]), FailedMark(order[x]),
                         Refunded(order[x]), PaidByHand(order[x], call[p].seen),
                         [order[x] EXCEPT !.status = call[p].to]}
          PROVE  row.method = order[x].method /\ (order[x].payId => row.payId)
      BY <3>2, <3>4 DEF Confirmed, FailedMark, Refunded, PaidByHand, OrderRows
    <3>5. QED
      BY <2>1, <2>2, <3>2, <3>3, <3>4, WrittenRows
  <2>5. CASE \E p \in Procs : Throw(p) \/ Die(p)
    BY <2>1, <2>5 DEF Throw, Die, tables
  <2>6. CASE \E p \in Procs, x \in Orders : Start(p, x)
    BY <2>1, <2>6 DEF Start, StartVerify, ReceiveWebhook, PickPending,
         StartUpdateStatus, StartMarkPaidManually, StartKitchenMove,
         AcquireRefundLock, StartRequest, tables
  <2>7. QED
    BY <2>1, <2>3, <2>4, <2>5, <2>6 DEF Next, vars, tables
<1>5. QED
  BY <1>3, <1>4 DEF Next, vars, outside, World, Atomic, Start, Step,
       TakeMoney, AttemptFails, Age, MarkStaleFailed, LockExpires, Withdraw, Reject,
       CloseIfPending, Throw, Die, StartVerify, ReceiveWebhook, PickPending,
       StartUpdateStatus, StartMarkPaidManually, StartKitchenMove,
       AcquireRefundLock, StartRequest, MarkPaid, EnqueueOrderConfirmation,
       LookupEvent, CreateEvent, MarkFailed, MarkProcessed, AskRazorpay,
       UpdateStatus, MarkPaidManually, MoveStatus, CheckRefund, RefundPayment,
       SaveRefund, ReleaseRefundLock, CreateIfNonePending, tables

\* A handler touches no call but its own.
LEMMA OtherCalls ==
  ASSUME TypeOK, NEW p \in Procs,
         Step(p) \/ Throw(p) \/ Die(p) \/ \E o \in Orders : Start(p, o),
         NEW q \in Procs, q # p
  PROVE  call'[q] = call[q]
BY DEF TypeOK, Start, Step, Begin, Goto, Return, Throw, Die, StartVerify,
       ReceiveWebhook, PickPending, StartUpdateStatus, StartMarkPaidManually,
       StartKitchenMove, AcquireRefundLock, StartRequest, MarkPaid,
       EnqueueOrderConfirmation, LookupEvent, CreateEvent, MarkFailed,
       MarkProcessed, AskRazorpay, UpdateStatus, MarkPaidManually, MoveStatus,
       CheckRefund, RefundPayment, SaveRefund, ReleaseRefundLock,
       CreateIfNonePending


\* A handler's own call ends, or goes on to the step after its next await.
LEMMA OwnCall ==
  ASSUME TypeOK, NEW p \in Procs
  PROVE  /\ call[p] \in Calls
         /\ Return(p) => call'[p] = NoCall /\ call'[p].phase = "idle"
<1>1. NoCall.phase = "idle"
  BY DEF NoCall
<1>2. QED
  BY <1>1 DEF TypeOK, Return

\* A call that goes on keeps the arguments it was begun with.
LEMMA Going ==
  ASSUME TypeOK, NEW p \in Procs, NEW phase \in Phases, Goto(p, phase)
  PROVE  /\ call'[p].phase = phase
         /\ call'[p].order = call[p].order
         /\ call'[p].kind = call[p].kind
         /\ call'[p].to = call[p].to
         /\ call'[p].via = call[p].via
<1>1. call \in [Procs -> Calls] /\ call[p] \in Calls
  BY DEF TypeOK
<1>2. call'[p] = [call[p] EXCEPT !.phase = phase]
  BY <1>1 DEF Goto
<1>3. QED
  BY <1>1, <1>2 DEF Calls

-----------------------------------------------------------------------------
\* The inductive invariant. MoneyBehindEveryMark and KitchenCooksPaidOrders
\* are not inductive: a row is written by a call that decided to some awaits
\* earlier, on a row that has changed since. What does carry over those
\* awaits is that money, once taken, stays taken, and that an order keeps its
\* payment method.

Funded(o) ==
  /\ order[o].payment \in {"PAID", "REFUNDED"} => money[o]
  /\ RefundRows(o) > 0 => money[o]
  /\ order[o].payment = "REFUNDED" => RefundRows(o) > 0
  /\ order[o].method = "RAZORPAY"
     /\ order[o].status \notin {"PENDING_PAYMENT", "CANCELLED"} => money[o]
  /\ order[o].payId => order[o].method = "RAZORPAY"

NeedsMoney(c) ==
  \/ c.phase \in {"confirm", "enqueue", "manualPaid", "gateway", "save"}
  \/ c.phase \in {"lookup", "create"} /\ c.kind # "payment.failed"
  \/ c.phase \in {"status", "kitchen"} /\ order[c.order].method = "RAZORPAY"

NeedsOnline(c) == c.phase \in {"lookup", "create", "confirm", "ask"}

NeedsOffline(c) ==
  \/ c.phase = "manualPaid"
  \/ c.phase = "status" /\ c.to = "CANCELLED"

Justified(c) ==
  /\ NeedsMoney(c) => money[c.order]
  /\ NeedsOnline(c) => order[c.order].method = "RAZORPAY"
  /\ NeedsOffline(c) => order[c.order].method # "RAZORPAY"
  /\ c.phase = "kitchen" => c.to # "CANCELLED"

FundsInv ==
  /\ \A o \in Orders : Funded(o)
  /\ \A p \in Procs : Justified(call[p])

\* What an untouched call relies on (money taken, the method of payment)
\* cannot be lost to another call.
LEMMA JustifiedStays ==
  ASSUME TypeOK, [Next]_vars, NEW q \in Procs, Justified(call[q]), call'[q] = call[q]
  PROVE  Justified(call[q])'
<1>1. call[q].order \in Orders
  BY DEF TypeOK, Calls
<1>2. QED
  BY <1>1, Monotone DEF Justified, NeedsMoney, NeedsOnline, NeedsOffline

\* A handler that begins has checked what its later write relies on.
LEMMA StartJustified ==
  ASSUME TypeOK, FundsInv, NEW p \in Procs, NEW o \in Orders, Start(p, o)
  PROVE  Justified(call[p])'
<1>1. PICK c \in Calls : /\ Begin(p, c) /\ c.order = o /\ Checked(c, order[o])
                        /\ UNCHANGED <<outside, tables, queued, faults>>
  BY StartedCall
<1>2. call'[p] = c
  BY <1>1, BegunCall
<1>3. Funded(o) /\ UNCHANGED <<order, money>>
  BY <1>1 DEF FundsInv, outside, tables
<1>4. Justified(c)
  <2> USE <1>1, <1>3 DEF Checked, Justified, NeedsMoney, NeedsOnline, NeedsOffline
  <2>1. CASE c.phase = "lookup"
    BY <2>1 DEF Happened, CapturedKinds, WebhookKinds
  <2>2. CASE c.phase = "status"
    BY <2>2 DEF StatusChangeAllowed, Funded
  <2>3. CASE c.phase = "kitchen"
    BY <2>3 DEF KitchenStage, Funded
  <2>4. CASE c.phase \notin {"lookup", "status", "kitchen"}
    BY <2>4
  <2>5. QED
    BY <2>1, <2>2, <2>3, <2>4
<1>5. QED
  BY <1>2, <1>3, <1>4 DEF Justified, NeedsMoney, NeedsOnline, NeedsOffline

\* Each step of a handler leaves its own next write justified.
LEMMA StepJustified ==
  ASSUME TypeOK, FundsInv, [Next]_vars, NEW p \in Procs, Step(p)
  PROVE  Justified(call[p])'
<1> DEFINE c == call[p]
<1>1. c \in Calls /\ c.order \in Orders
  BY OwnCall DEF Calls
<1>2. /\ money[c.order] => money'[c.order]
      /\ order'[c.order].method = order[c.order].method
  BY <1>1, Monotone
<1>3. Justified(c)
  BY DEF FundsInv
<1>4. CASE Return(p)
  <2>1. call'[p].phase = "idle"
    BY <1>4, OwnCall
  <2>2. QED
    BY <2>1 DEF Justified, NeedsMoney, NeedsOnline, NeedsOffline
<1>5. CASE \E phase \in Phases :
             /\ Goto(p, phase)
             /\ \/ phase \in {"confirm", "enqueue", "gateway", "save"}
                \/ phase = "create" /\ c.kind # "payment.failed"
                => money[c.order]
             /\ phase \in {"confirm", "create"} => order[c.order].method = "RAZORPAY"
             /\ phase \notin {"lookup", "ask", "status", "kitchen", "manualPaid"}
  <2>1. PICK phase \in Phases :
             /\ Goto(p, phase)
             /\ \/ phase \in {"confirm", "enqueue", "gateway", "save"}
                \/ phase = "create" /\ c.kind # "payment.failed"
                => money[c.order]
             /\ phase \in {"confirm", "create"} => order[c.order].method = "RAZORPAY"
             /\ phase \notin {"lookup", "ask", "status", "kitchen", "manualPaid"}
    BY <1>5
  <2>2. /\ call'[p].order = c.order /\ call'[p].kind = c.kind
        /\ call'[p].phase = phase
    BY <2>1, Going
  <2> HIDE DEF c
  <2>3. QED
    BY <1>2, <2>1, <2>2 DEF Justified, NeedsMoney, NeedsOnline, NeedsOffline
<1> HIDE DEF c
<1>6. CASE LookupEvent(p)
  <2> USE DEF c, In, Phases, Justified, NeedsMoney, NeedsOnline
  <2>1. CASE Goto(p, "create")
    BY <1>3, <1>5, <1>6, <2>1 DEF LookupEvent
  <2>2. CASE Goto(p, EventAction(c.kind, c.sawPaid))
    BY <1>3, <1>5, <1>6, <2>2 DEF LookupEvent, EventAction
  <2>3. QED
    BY <1>4, <1>6, <2>1, <2>2 DEF LookupEvent
<1>7. CASE CreateEvent(p)
  BY <1>3, <1>4, <1>5, <1>7
     DEF CreateEvent, EventAction, c, In, Phases, Justified, NeedsMoney, NeedsOnline
<1>8. CASE MarkPaid(p)
  BY <1>3, <1>5, <1>8 DEF MarkPaid, c, In, Phases, Justified, NeedsMoney
<1>9. CASE EnqueueOrderConfirmation(p)
  BY <1>4, <1>5, <1>9 DEF EnqueueOrderConfirmation, Phases
<1>10. CASE MarkFailed(p)
  BY <1>5, <1>10 DEF MarkFailed, Phases
<1>11. CASE AskRazorpay(p)
  BY <1>3, <1>4, <1>5, <1>11
     DEF AskRazorpay, c, In, Phases, Justified, NeedsOnline
<1>12. CASE CheckRefund(p)
  BY <1>1, <1>5, <1>12
     DEF CheckRefund, RefundAllowed, c, FundsInv, Funded, Phases
<1>13. CASE RefundPayment(p)
  BY <1>3, <1>5, <1>13 DEF RefundPayment, c, In, Phases, Justified, NeedsMoney
<1>14. CASE SaveRefund(p)
  BY <1>5, <1>14 DEF SaveRefund, Phases
<1>15. CASE \/ MarkProcessed(p) \/ UpdateStatus(p) \/ MarkPaidManually(p)
            \/ MoveStatus(p) \/ ReleaseRefundLock(p) \/ CreateIfNonePending(p)
  BY <1>4, <1>15 DEF MarkProcessed, UpdateStatus, MarkPaidManually, MoveStatus,
     ReleaseRefundLock, CreateIfNonePending
<1>16. QED
  BY <1>6, <1>7, <1>8, <1>9, <1>10, <1>11, <1>12, <1>13, <1>14, <1>15 DEF Step

\* A slot emptied by a fault relies on nothing.
LEMMA FaultJustified ==
  ASSUME TypeOK, NEW p \in Procs, Throw(p) \/ Die(p) PROVE Justified(call[p])'
<1>1. call'[p].phase = "idle"
  BY OwnCall DEF Throw, Die
<1>2. QED
  BY <1>1 DEF Justified, NeedsMoney, NeedsOnline, NeedsOffline

\* A row that has money behind it needs only a Refund row for REFUNDED.
LEMMA FundedStays ==
  ASSUME TypeOK, [Next]_vars, NEW o \in Orders, Funded(o),
         UNCHANGED <<order[o], refunds[o]>>
  PROVE  Funded(o)'
BY Monotone DEF Funded, RefundRows

\* A handler's write leaves money behind every mark it makes.
LEMMA StepFunded ==
  ASSUME TypeOK, FundsInv, [Next]_vars, NEW p \in Procs, Step(p), NEW o \in Orders
  PROVE  Funded(o)'
<1> DEFINE c == call[p]
<1>1. c \in Calls /\ c.order \in Orders /\ order[o] \in OrderRows
  BY DEF TypeOK, Calls
<1>2. Funded(o) /\ Justified(c)
  BY DEF FundsInv
<1>3. CASE UNCHANGED <<order[o], refunds[o]>>
  BY <1>2, <1>3, FundedStays
<1>4. CASE UNCHANGED <<order, refunds>>
  BY <1>3, <1>4
<1>5. CASE UNCHANGED refunds /\ o # c.order /\ \E row : Write(c.order, row)
  BY <1>1, <1>3, <1>5 DEF Write, TypeOK
<1> HIDE DEF c
<1>6. ASSUME NEW row, Write(o, row), UNCHANGED <<refunds, money>>, row.method = order[o].method,
             row.payment \in {"PAID", "REFUNDED"} => money[o],
             row.payment = "REFUNDED" => order[o].payment = "REFUNDED",
             row.payId => row.method = "RAZORPAY",
             row.method = "RAZORPAY" /\ row.status \notin {"PENDING_PAYMENT", "CANCELLED"} => money[o]
      PROVE  Funded(o)'
  BY <1>2, <1>6 DEF Write, Funded, RefundRows, TypeOK
<1>7. CASE o = c.order /\ MarkPaid(p)
  BY <1>1, <1>2, <1>6, <1>7
     DEF MarkPaid, In, c, outside, Confirmed, OrderRows, Justified, NeedsMoney, NeedsOnline
<1>8. CASE o = c.order /\ MarkFailed(p)
  BY <1>1, <1>2, <1>6, <1>8 DEF MarkFailed, c, outside, FailedMark, OrderRows, Funded
<1>9. CASE o = c.order /\ UpdateStatus(p)
  BY <1>1, <1>2, <1>6, <1>9
     DEF UpdateStatus, In, c, outside, OrderRows, Funded, Justified, NeedsMoney
<1>10. CASE o = c.order /\ MarkPaidManually(p)
  BY <1>1, <1>2, <1>6, <1>10
     DEF MarkPaidManually, In, c, outside, PaidByHand, OrderRows, Funded, Justified, NeedsMoney
<1>11. CASE o = c.order /\ MoveStatus(p) /\ order[o].status = c.seen
  BY <1>1, <1>2, <1>6, <1>11
     DEF MoveStatus, In, c, outside, OrderRows, Funded, Justified, NeedsMoney
<1>12. CASE SaveRefund(p)
  <2>1. CASE UNCHANGED <<order, refunds>>
    BY <1>4, <2>1
  <2>2. CASE /\ Write(c.order, Refunded(order[c.order]))
             /\ refunds' = [refunds EXCEPT ![c.order][c.via] = @ + 1]
    <3>1. CASE o # c.order
      BY <1>1, <1>3, <2>2, <3>1 DEF Write, TypeOK
    <3>2. CASE o = c.order
      <4>1. order'[o] = Refunded(order[o])
        BY <2>2, <3>2 DEF Write, TypeOK
      <4>2. RefundRows(o)' > 0
        BY <1>1, <2>2, <3>2 DEF RefundRows, TypeOK, Calls, RefundMethods
      <4>3. money'[o]
        BY <1>2, <1>12, <3>2, Monotone DEF SaveRefund, In, c, Justified, NeedsMoney
      <4>4. QED
        BY <1>1, <1>2, <4>1, <4>2, <4>3 DEF Funded, Refunded, OrderRows
    <3>3. QED
      BY <3>1, <3>2
  <2>3. QED
    BY <1>12, <2>1, <2>2 DEF SaveRefund, c
<1>13. CASE \/ EnqueueOrderConfirmation(p) \/ LookupEvent(p) \/ CreateEvent(p)
            \/ MarkProcessed(p) \/ AskRazorpay(p) \/ CheckRefund(p)
            \/ RefundPayment(p) \/ ReleaseRefundLock(p) \/ CreateIfNonePending(p)
  BY <1>4, <1>13
     DEF EnqueueOrderConfirmation, LookupEvent, CreateEvent, MarkProcessed,
         AskRazorpay, CheckRefund, RefundPayment, ReleaseRefundLock,
         CreateIfNonePending, tables
<1>14. CASE o # c.order /\ (\/ MarkPaid(p) \/ MarkFailed(p) \/ UpdateStatus(p)
                           \/ MarkPaidManually(p) \/ MoveStatus(p))
  BY <1>4, <1>5, <1>14
     DEF MarkPaid, MarkFailed, UpdateStatus, MarkPaidManually, MoveStatus, c
<1>15. CASE MoveStatus(p) /\ order[c.order].status # c.seen
  BY <1>4, <1>15 DEF MoveStatus, c
<1>16. QED
  BY <1>7, <1>8, <1>9, <1>10, <1>11, <1>12, <1>13, <1>14, <1>15 DEF Step

\* Beginning a handler writes no row.
LEMMA StartFunded ==
  ASSUME TypeOK, FundsInv, [Next]_vars, NEW p \in Procs, NEW x \in Orders,
         Start(p, x), NEW o \in Orders
  PROVE  Funded(o)'
<1>1. UNCHANGED <<order, refunds>>
  BY StartedCall DEF tables
<1>2. QED
  BY <1>1, FundedStays DEF FundsInv

\* Payments, the clock and the stale sweep keep every mark funded.
LEMMA OutsideFunded ==
  ASSUME TypeOK, FundsInv, [Next]_vars, NEW x \in Orders, World(x) \/ Atomic(x),
         NEW o \in Orders
  PROVE  Funded(o)'
<1>1. Funded(o) /\ order[o] \in OrderRows
  BY DEF FundsInv, TypeOK
<1>2. CASE UNCHANGED <<order, refunds>>
  BY <1>1, <1>2, FundedStays
<1>3. CASE Age(x)
  BY <1>1, <1>3 DEF Age, Write, outside, Funded, RefundRows, TypeOK, OrderRows
<1>4. CASE MarkStaleFailed(x)
  BY <1>1, <1>4 DEF MarkStaleFailed, Write, outside, Funded, RefundRows, TypeOK, OrderRows
<1>5. QED
  BY <1>2, <1>3, <1>4
     DEF World, Atomic, TakeMoney, AttemptFails, LockExpires, Withdraw, Reject,
         CloseIfPending, tables

\* A call is begun, stepped or stopped by its own handler only.
LEMMA CallsJustified ==
  ASSUME TypeOK, FundsInv, [Next]_vars, NEW q \in Procs PROVE Justified(call[q])'
<1>1. Justified(call[q])
  BY DEF FundsInv
<1>2. CASE UNCHANGED call
  BY <1>1, <1>2, JustifiedStays
<1>3. CASE \E o \in Orders : World(o) \/ Atomic(o)
  BY <1>2, <1>3 DEF World, Atomic, TakeMoney, AttemptFails, Age, MarkStaleFailed,
     LockExpires, Withdraw, Reject, CloseIfPending
<1>4. ASSUME NEW p \in Procs,
             Step(p) \/ Throw(p) \/ Die(p) \/ \E o \in Orders : Start(p, o)
      PROVE  Justified(call[q])'
  <2>1. CASE q = p
    BY <1>4, <2>1, StartJustified, StepJustified, FaultJustified
  <2>2. CASE q # p
    BY <1>1, <1>4, <2>2, OtherCalls, JustifiedStays
  <2>3. QED
    BY <2>1, <2>2
<1>5. QED
  BY <1>2, <1>3, <1>4 DEF Next, vars

\* Every order stays funded in every step.
LEMMA OrdersFunded ==
  ASSUME TypeOK, FundsInv, [Next]_vars, NEW o \in Orders PROVE Funded(o)'
<1>1. CASE UNCHANGED <<order, refunds>>
  BY <1>1, FundedStays DEF FundsInv
<1>2. CASE \E p \in Procs : Throw(p) \/ Die(p)
  BY <1>1, <1>2 DEF Throw, Die, tables
<1>3. CASE UNCHANGED vars
  BY <1>1, <1>3 DEF vars, tables
<1>4. QED
  BY <1>2, <1>3, OutsideFunded, StartFunded, StepFunded DEF Next

\* No order is marked and no call runs at the start.
LEMMA InitFunds == Init => FundsInv
<1> SUFFICES ASSUME Init PROVE FundsInv
  OBVIOUS
<1>1. ASSUME NEW o \in Orders PROVE Funded(o)
  <2>1. PICK m \in Methods : order[o] = NewOrder(m)
    BY DEF Init
  <2>2. RefundRows(o) = 0
    BY DEF Init, RefundRows, RefundMethods
  <2>3. QED
    BY <2>1, <2>2 DEF Funded, NewOrder
<1>2. ASSUME NEW p \in Procs PROVE Justified(call[p])
  <2>1. call[p].phase = "idle"
    BY DEF Init, NoCall
  <2>2. QED
    BY <2>1 DEF Justified, NeedsMoney, NeedsOnline, NeedsOffline
<1>3. QED
  BY <1>1, <1>2 DEF FundsInv

\* The inductive invariant behind the safety theorems.
LEMMA FundsInvariant == Spec => [](TypeOK /\ FundsInv)
<1>1. TypeOK /\ FundsInv /\ [Next]_vars => FundsInv'
  BY OrdersFunded, CallsJustified DEF FundsInv
<1>2. QED
  BY InitFunds, TypeCorrect, <1>1, PTL DEF Spec

\* No order is marked PAID or REFUNDED, and no refund is recorded, without
\* money that was taken, whatever overtakes what; this needs neither the
\* refund lock nor any bound on how long a call runs.
THEOREM MoneyIsBehindEveryMark == Spec => []MoneyBehindEveryMark
<1>1. TypeOK /\ FundsInv => MoneyBehindEveryMark
  BY DEF FundsInv, Funded, MoneyBehindEveryMark, Ledger!LedgerSafe
<1>2. QED
  BY FundsInvariant, <1>1, PTL

\* An unpaid online order never gets past the kitchen board or the status
\* dropdown, even when a staff action was decided on an older row.
THEOREM KitchenNeverCooksUnpaid == Spec => []KitchenCooksPaidOrders
<1>1. FundsInv => KitchenCooksPaidOrders
  BY DEF FundsInv, Funded, KitchenCooksPaidOrders
<1>2. QED
  BY FundsInvariant, <1>1, PTL

-----------------------------------------------------------------------------
\* The refund lock. RefundsAreSerial is not inductive: that the key is held
\* says nothing by itself of who holds it.

InRefund(p) == call[p].phase \in RefundPhases
OwnersHoldLock == \A p \in Procs : InRefund(p) => lock[call[p].order] = p

\* What checkRefund saw stays true until the transaction, because nobody else
\* can cancel an order that is PAID.
Refunding(c) ==
  c.phase \in {"gateway", "save"} =>
    /\ order[c.order].payment = "PAID"
    /\ c.phase = "gateway" => c.via = "RAZORPAY"
    /\ c.via = "RAZORPAY" => order[c.order].payId
                               /\ order[c.order].status # "CANCELLED"

RefundsStayAllowed == \A p \in Procs : Refunding(call[p])

LockInv == OwnersHoldLock /\ RefundsStayAllowed

\* Nobody takes a lock from its owner.
LEMMA LockStays ==
  ASSUME SlowCalls = FALSE, TypeOK, OwnersHoldLock, [Next]_vars,
         NEW q \in Procs, InRefund(q), call'[q] = call[q]
  PROVE  lock'[call[q].order] = q
<1> DEFINE o == call[q].order
<1>1. o \in Orders /\ lock[o] = q /\ q # Free
  BY FreeAssumption DEF TypeOK, Calls, OwnersHoldLock
<1>2. CASE UNCHANGED lock
  BY <1>1, <1>2
<1>3. CASE \E p \in Procs : p # q /\ lock' = Unlocked(p, call[p].order)
  BY <1>1, <1>3 DEF Unlocked, TypeOK
<1>4. CASE \E x \in Orders : lock[x] # q /\ \E v : lock' = [lock EXCEPT ![x] = v]
  BY <1>1, <1>4 DEF TypeOK
<1>5. ASSUME NEW x \in Orders, World(x) \/ Atomic(x) PROVE lock'[o] = q
  <2>1. CASE LockExpires(x)
    BY <1>1, <1>4, <2>1 DEF LockExpires, HoldsLock, InRefund
  <2>2. CASE ~LockExpires(x)
    BY <1>2, <1>5, <2>2 DEF World, Atomic, TakeMoney, AttemptFails, Age,
       MarkStaleFailed, Withdraw, Reject, CloseIfPending, redis
  <2>3. QED
    BY <2>1, <2>2
<1>6. ASSUME NEW p \in Procs, NEW x \in Orders, Start(p, x) PROVE lock'[o] = q
  <2>1. PICK c \in Calls : c.order = x /\ Checked(c, order[x]) /\ StartsLock(p, c)
    BY <1>6, StartedCall
  <2>2. CASE c.phase = "check"
    BY <1>1, <1>4, <2>1, <2>2 DEF Checked, StartsLock
  <2>3. CASE c.phase # "check"
    BY <1>2, <2>1, <2>3 DEF StartsLock
  <2>4. QED
    BY <2>2, <2>3
<1>7. ASSUME NEW p \in Procs, Step(p) \/ Throw(p) \/ Die(p) PROVE lock'[o] = q
  <2>1. CASE p = q
    <3>1. CASE ReleaseRefundLock(p) \/ Throw(p) \/ Die(p)
      BY <2>1, <3>1, OwnCall DEF ReleaseRefundLock, Throw, Die, InRefund, RefundPhases
    <3>2. CASE Step(p) /\ ~ReleaseRefundLock(p)
      BY <1>2, <3>2 DEF Step, MarkPaid, EnqueueOrderConfirmation, LookupEvent,
         CreateEvent, MarkFailed, MarkProcessed, AskRazorpay, UpdateStatus,
         MarkPaidManually, MoveStatus, CheckRefund, RefundPayment, SaveRefund,
         CreateIfNonePending, redis
    <3>3. QED
      BY <1>7, <3>1, <3>2
  <2>2. CASE p # q
    BY <1>2, <1>3, <1>7, <2>2
       DEF Step, MarkPaid, EnqueueOrderConfirmation, LookupEvent, CreateEvent,
         MarkFailed, MarkProcessed, AskRazorpay, UpdateStatus, MarkPaidManually,
         MoveStatus, CheckRefund, RefundPayment, SaveRefund, ReleaseRefundLock,
         CreateIfNonePending, Throw, Die, redis
  <2>3. QED
    BY <2>1, <2>2
<1>8. QED
  BY <1>2, <1>5, <1>6, <1>7 DEF Next, vars, redis

\* A refund in its locked part owns the lock after every step.
LEMMA OwnersKeepLock ==
  ASSUME SlowCalls = FALSE, TypeOK, OwnersHoldLock, [Next]_vars, NEW q \in Procs,
         InRefund(q)'
  PROVE  lock'[call'[q].order] = q
<1>1. CASE call'[q] = call[q]
  BY <1>1, LockStays DEF InRefund
<1>2. CASE \E o \in Orders : Start(q, o)
  <2>1. PICK o \in Orders, c \in Calls :
          Begin(q, c) /\ c.order = o /\ Checked(c, order[o]) /\ StartsLock(q, c)
    BY <1>2, StartedCall
  <2>2. call'[q] = c
    BY <2>1, BegunCall
  <2>3. c.phase = "check"
    BY <2>1, <2>2 DEF InRefund, RefundPhases, Checked
  <2>4. QED
    BY <2>1, <2>2, <2>3 DEF StartsLock, TypeOK
<1>3. CASE Throw(q) \/ Die(q)
  BY <1>3, OwnCall DEF Throw, Die, InRefund, RefundPhases
<1>4. CASE Step(q)
  <2>1. CASE Return(q)
    BY <2>1, OwnCall DEF InRefund, RefundPhases
  <2>2. CASE CheckRefund(q) \/ RefundPayment(q) \/ SaveRefund(q)
    <3>1. PICK phase \in Phases : Goto(q, phase)
      BY <2>2 DEF CheckRefund, RefundPayment, SaveRefund, Phases
    <3>2. call'[q].order = call[q].order
      BY <3>1, Going
    <3>3. InRefund(q) /\ UNCHANGED lock
      BY <2>2 DEF CheckRefund, RefundPayment, SaveRefund, In, InRefund, RefundPhases, redis
    <3>4. QED
      BY <3>2, <3>3 DEF OwnersHoldLock
  <2>3. CASE \E phase \in Phases \ RefundPhases : Goto(q, phase)
    BY <2>3, Going DEF InRefund
  <2>4. CASE LookupEvent(q) \/ CreateEvent(q)
    BY <2>1, <2>3, <2>4
       DEF LookupEvent, CreateEvent, EventAction, Phases, RefundPhases
  <2>5. QED
    BY <1>4, <2>1, <2>2, <2>3, <2>4
       DEF Step, MarkPaid, EnqueueOrderConfirmation, MarkFailed, MarkProcessed,
           AskRazorpay, UpdateStatus, MarkPaidManually, MoveStatus,
           ReleaseRefundLock, CreateIfNonePending, Phases, RefundPhases
<1>5. CASE \E o \in Orders : World(o) \/ Atomic(o)
  BY <1>1, <1>5 DEF World, Atomic, TakeMoney, AttemptFails, Age, MarkStaleFailed,
     LockExpires, Withdraw, Reject, CloseIfPending
<1>6. QED
  BY <1>1, <1>2, <1>3, <1>4, <1>5, OtherCalls DEF Next, vars

\* Between its check and its transaction a refund's order stays refundable:
\* only another refund could end PAID, and the lock keeps it out.
LEMMA RefundStaysAllowed ==
  ASSUME TypeOK, FundsInv, LockInv, [Next]_vars, NEW q \in Procs,
         call'[q] = call[q]
  PROVE  Refunding(call[q])'
<1> SUFFICES ASSUME call[q].phase \in {"gateway", "save"} PROVE Refunding(call[q])'
  BY DEF Refunding
<1> DEFINE o == call[q].order
<1>1. /\ o \in Orders /\ order[o] \in OrderRows
      /\ Refunding(call[q])
      /\ Funded(o)
      /\ lock[o] = q
  BY DEF TypeOK, Calls, LockInv, RefundsStayAllowed, OwnersHoldLock, InRefund,
         RefundPhases, FundsInv
<1>2. CASE order'[o] = order[o]
  BY <1>1, <1>2 DEF Refunding
<1> HIDE DEF o
<1>3. ASSUME order'[o].payment = "PAID",
             order[o].method = "RAZORPAY" => order'[o].status # "CANCELLED"
                                             \/ order'[o].status = order[o].status
      PROVE  Refunding(call[q])'
  BY <1>1, <1>3, Monotone DEF Refunding, Funded, o
<1>4. ASSUME NEW x, x # o, NEW row, Write(x, row) PROVE order'[o] = order[o]
  BY <1>1, <1>4 DEF Write, TypeOK
<1>5. CASE \E x \in Orders : World(x) \/ Atomic(x)
  <2>1. PICK x \in Orders : World(x) \/ Atomic(x)
    BY <1>5
  <2>2. CASE Age(x)
    BY <1>1, <1>3, <1>4, <2>2, <1>2 DEF Age, Write, TypeOK, OrderRows, Refunding, o
  <2>3. CASE MarkStaleFailed(x)
    BY <1>1, <1>2, <1>4, <2>3 DEF MarkStaleFailed, Refunding, o
  <2>4. QED
    BY <1>2, <2>1, <2>2, <2>3
       DEF World, Atomic, TakeMoney, AttemptFails, LockExpires, Withdraw, Reject,
           CloseIfPending, tables
<1>6. CASE \E p \in Procs, x \in Orders : Start(p, x)
  BY <1>2, <1>6, StartedCall DEF tables
<1>7. CASE \E p \in Procs : Throw(p) \/ Die(p)
  BY <1>2, <1>7 DEF Throw, Die, tables
<1>8. CASE UNCHANGED vars
  BY <1>2, <1>8 DEF vars, tables
<1>9. ASSUME NEW p \in Procs, Step(p) PROVE Refunding(call[q])'
  <2> DEFINE c == call[p]
  <2>1. /\ c \in Calls /\ c.order \in Orders /\ Justified(c)
        /\ InRefund(p) => lock[c.order] = p
    BY DEF TypeOK, Calls, FundsInv, LockInv, OwnersHoldLock
  <2> HIDE DEF c
  <2>2. CASE UNCHANGED order
    BY <1>2, <2>2
  <2>3. CASE c.order # o /\ \E row : Write(c.order, row)
    BY <1>2, <1>4, <2>3
  <2>4. ASSUME c.order = o, NEW row, Write(o, row), row.payment = "PAID",
               order[o].method = "RAZORPAY" => row.status # "CANCELLED"
                                               \/ row.status = order[o].status
        PROVE  Refunding(call[q])'
    <3>1. order'[o] = row
      BY <1>1, <2>4 DEF Write, TypeOK
    <3>2. QED
      BY <1>3, <2>4, <3>1
  <2>5. order[o].payment = "PAID"
    BY <1>1 DEF Refunding, o
  <2>6. CASE MarkPaid(p)
    BY <1>1, <2>3, <2>4, <2>6 DEF MarkPaid, c, Confirmed, OrderRows
  <2>7. CASE MarkFailed(p)
    BY <1>1, <2>3, <2>4, <2>5, <2>7 DEF MarkFailed, c, FailedMark, OrderRows
  <2>8. CASE UpdateStatus(p)
    BY <1>1, <2>1, <2>3, <2>4, <2>5, <2>8
       DEF UpdateStatus, c, In, OrderRows, Justified, NeedsOffline
  <2>9. CASE MarkPaidManually(p)
    BY <1>1, <2>3, <2>4, <2>9 DEF MarkPaidManually, c, PaidByHand, OrderRows
  <2>10. CASE MoveStatus(p)
    BY <1>1, <2>1, <2>2, <2>3, <2>4, <2>5, <2>10
       DEF MoveStatus, c, In, OrderRows, Justified
  <2>11. CASE SaveRefund(p)
    <3>1. CASE p = q
      BY <2>11, <3>1, Going DEF SaveRefund, In, Phases
    <3>2. CASE p # q
      <4>1. c.order # o
        BY <1>1, <2>1, <2>11, <3>2 DEF SaveRefund, In, InRefund, RefundPhases, c
      <4>2. QED
        BY <2>2, <2>3, <2>11, <4>1 DEF SaveRefund, c
    <3>3. QED
      BY <3>1, <3>2
  <2>12. QED
    BY <1>9, <2>2, <2>6, <2>7, <2>8, <2>9, <2>10, <2>11
       DEF Step, EnqueueOrderConfirmation, LookupEvent, CreateEvent, MarkProcessed,
           AskRazorpay, CheckRefund, RefundPayment, ReleaseRefundLock,
           CreateIfNonePending, tables
<1>10. QED
  BY <1>5, <1>6, <1>7, <1>8, <1>9 DEF Next

\* A step of the refund itself leaves its order PAID and not cancelled
\* until its own transaction.
LEMMA OwnRefundAllowed ==
  ASSUME TypeOK, FundsInv, LockInv, [Next]_vars, NEW p \in Procs,
         Step(p) \/ Throw(p) \/ Die(p) \/ \E o \in Orders : Start(p, o)
  PROVE  Refunding(call[p])'
<1>1. CASE call'[p].phase \notin {"gateway", "save"}
  BY <1>1 DEF Refunding
<1>2. CASE \E phase \in Phases \ {"gateway", "save"} : Goto(p, phase)
  BY <1>1, <1>2, Going
<1>3. CASE Return(p) \/ Throw(p) \/ Die(p)
  BY <1>1, <1>3, OwnCall DEF Throw, Die
<1>4. CASE \E o \in Orders : Start(p, o)
  <2>1. PICK o \in Orders, c \in Calls : Begin(p, c) /\ Checked(c, order[o])
    BY <1>4, StartedCall
  <2>2. QED
    BY <1>1, <2>1, BegunCall DEF Checked
<1>5. CASE CheckRefund(p)
  <2>1. CASE Goto(p, "release")
    BY <1>2, <2>1 DEF Phases
  <2>2. CASE ~Goto(p, "release")
    <3>1. RefundAllowed(order[call[p].order], call[p].via)
      BY <1>5, <2>2 DEF CheckRefund
    <3>2. PICK phase \in {"gateway", "save"} :
            Goto(p, phase) /\ (phase = "gateway" => call[p].via = "RAZORPAY")
      BY <1>5, <2>2 DEF CheckRefund
    <3>3. /\ call'[p].phase = phase /\ call'[p].order = call[p].order
          /\ call'[p].via = call[p].via
      BY <3>2, Going DEF Phases
    <3>4. UNCHANGED order
      BY <1>5 DEF CheckRefund, tables
    <3>5. QED
      BY <3>1, <3>2, <3>3, <3>4 DEF Refunding, RefundAllowed
  <2>3. QED
    BY <2>1, <2>2
<1>6. CASE RefundPayment(p)
  <2>1. call[p].phase = "gateway" /\ UNCHANGED order /\ Goto(p, "save")
    BY <1>6 DEF RefundPayment, In, tables
  <2>2. /\ call'[p].phase = "save" /\ call'[p].order = call[p].order
        /\ call'[p].via = call[p].via
    BY <2>1, Going DEF Phases
  <2>3. QED
    BY <2>1, <2>2 DEF Refunding, LockInv, RefundsStayAllowed
<1>7. CASE LookupEvent(p) \/ CreateEvent(p)
  BY <1>2, <1>3, <1>7 DEF LookupEvent, CreateEvent, EventAction, Phases
<1>8. CASE Step(p)
  BY <1>2, <1>3, <1>5, <1>6, <1>7, <1>8
     DEF Step, MarkPaid, EnqueueOrderConfirmation, MarkFailed, MarkProcessed,
         AskRazorpay, UpdateStatus, MarkPaidManually, MoveStatus, SaveRefund,
         ReleaseRefundLock, CreateIfNonePending, Phases
<1>9. QED
  BY <1>3, <1>4, <1>8

\* The lock invariant is preserved by every step.
LEMMA LockInvStep ==
  ASSUME SlowCalls = FALSE, TypeOK, FundsInv, LockInv, [Next]_vars PROVE LockInv'
<1>1. ASSUME NEW q \in Procs PROVE Refunding(call[q])'
  <2>1. CASE call'[q] = call[q]
    BY <2>1, RefundStaysAllowed
  <2>2. CASE call'[q] # call[q]
    <3>1. PICK p \in Procs :
            Step(p) \/ Throw(p) \/ Die(p) \/ \E o \in Orders : Start(p, o)
      BY <2>2 DEF Next, vars, World, Atomic, TakeMoney, AttemptFails, Age,
         MarkStaleFailed, LockExpires, Withdraw, Reject, CloseIfPending
    <3>2. p = q
      BY <2>2, <3>1, OtherCalls
    <3>3. QED
      BY <3>1, <3>2, OwnRefundAllowed
  <2>3. QED
    BY <2>1, <2>2
<1>2. OwnersHoldLock'
  BY OwnersKeepLock DEF OwnersHoldLock, LockInv
<1>3. QED
  BY <1>1, <1>2 DEF LockInv, RefundsStayAllowed

\* While no refund outlives its lock, the lock invariant always holds.
LEMMA LockInvariant ==
  ASSUME SlowCalls = FALSE PROVE Spec => [](TypeOK /\ FundsInv /\ LockInv)
<1>1. Init => LockInv
  <2> SUFFICES ASSUME Init, NEW p \in Procs PROVE call[p].phase = "idle"
    BY DEF LockInv, OwnersHoldLock, InRefund, RefundPhases, RefundsStayAllowed, Refunding
  <2>1. QED
    BY DEF Init, NoCall
<1>2. TypeOK /\ FundsInv /\ LockInv /\ [Next]_vars => LockInv'
  BY LockInvStep
<1>3. QED
  BY <1>1, <1>2, FundsInvariant, PTL DEF Spec

\* Two cancel-and-refund calls never run their locked part on one order
\* together.
THEOREM OneRefundAtATime ==
  ASSUME SlowCalls = FALSE PROVE Spec => []RefundsAreSerial
<1>1. LockInv => RefundsAreSerial
  BY DEF LockInv, OwnersHoldLock, InRefund, RefundsAreSerial, HoldsLock
<1>2. QED
  BY <1>1, LockInvariant, PTL

-----------------------------------------------------------------------------
\* Refinement: each step is a step of the ledger or leaves it alone.

mark == [o \in Orders |-> order[o].payment]
rows == [o \in Orders |-> RefundRows(o)]

\* Writing a row sets that order's mark in the ledger.
LEMMA MarkWritten ==
  ASSUME TypeOK, NEW o \in Orders, NEW row, Write(o, row)
  PROVE  mark' = [mark EXCEPT ![o] = row.payment]
BY DEF TypeOK, Write, mark

\* Writing a row with the same payment status leaves the ledger's marks.
LEMMA MarkKept ==
  ASSUME TypeOK, NEW o \in Orders, NEW row, Write(o, row),
         row.payment = order[o].payment
  PROVE  mark' = mark
BY DEF TypeOK, Write, mark

\* The payment status each of the writes leaves on the row.
LEMMA RowMarks ==
  ASSUME NEW row \in OrderRows
  PROVE  /\ Confirmed(row).payment = "PAID"
         /\ Refunded(row).payment = "REFUNDED"
         /\ \A seen : PaidByHand(row, seen).payment = "PAID"
BY DEF Confirmed, Refunded, PaidByHand, OrderRows

\* With the refund table unchanged, the ledger's counts are.
LEMMA RowsKept == UNCHANGED refunds => rows' = rows
BY DEF rows, RefundRows

\* Recording a refund adds one to its order's count and no other.
LEMMA RefundRecorded ==
  ASSUME TypeOK, NEW o \in Orders, NEW via \in RefundMethods,
         refunds' = [refunds EXCEPT ![o][via] = @ + 1], NEW x \in Orders
  PROVE  RefundRows(x)' = IF x = o THEN RefundRows(o) + 1 ELSE RefundRows(x)
BY DEF RefundRows, TypeOK, RefundMethods

\* Every step of a handler is a ledger step or leaves the ledger alone.
LEMMA StepImplementsLedger ==
  ASSUME TypeOK, FundsInv, LockInv, NEW p \in Procs, Step(p)
  PROVE  Ledger!LedgerNext \/ UNCHANGED <<money, mark, rows>>
<1> DEFINE c == call[p]
           o == call[p].order
<1>1. /\ c \in Calls /\ o \in Orders /\ order[o] \in OrderRows
      /\ Justified(c) /\ Refunding(c)
  BY DEF TypeOK, Calls, FundsInv, LockInv, RefundsStayAllowed
<1> HIDE DEF c, o
<1>2. CASE MarkPaid(p)
  <2>1. mark' = [mark EXCEPT ![o] = "PAID"]
    BY <1>1, <1>2, MarkWritten, RowMarks DEF MarkPaid, o
  <2>2. money[o] /\ UNCHANGED <<money, rows>>
    BY <1>1, <1>2, RowsKept DEF MarkPaid, In, c, o, Justified, NeedsMoney, outside
  <2>3. QED
    BY <1>1, <2>1, <2>2 DEF Ledger!LedgerNext, Ledger!Confirm, mark, rows
<1>3. CASE MarkPaidManually(p)
  <2>1. mark' = [mark EXCEPT ![o] = "PAID"]
    BY <1>1, <1>3, MarkWritten, RowMarks DEF MarkPaidManually, o
  <2>2. money[o] /\ UNCHANGED <<money, rows>>
    BY <1>1, <1>3, RowsKept DEF MarkPaidManually, In, c, o, Justified, NeedsMoney, outside
  <2>3. QED
    BY <1>1, <2>1, <2>2 DEF Ledger!LedgerNext, Ledger!Confirm, mark, rows
<1>4. CASE MarkFailed(p)
  <2>1. UNCHANGED <<money, rows>> /\ Write(o, FailedMark(order[o]))
    BY <1>4, RowsKept DEF MarkFailed, o, outside
  <2>2. CASE order[o].payment = "PAID"
    BY <1>1, <2>1, <2>2, MarkKept DEF FailedMark
  <2>3. CASE order[o].payment # "PAID"
    <3>1. mark' = [mark EXCEPT ![o] = "FAILED"]
      BY <1>1, <2>1, <2>3, MarkWritten DEF FailedMark, OrderRows
    <3>2. mark[o] # "PAID"
      BY <1>1, <2>3 DEF mark
    <3>3. QED
      BY <1>1, <2>1, <3>1, <3>2 DEF Ledger!LedgerNext, Ledger!Fail, mark, rows
  <2>4. QED
    BY <2>2, <2>3
<1>5. CASE UpdateStatus(p) \/ MoveStatus(p)
  <2>1. UNCHANGED <<money, rows>>
    BY <1>5, RowsKept DEF UpdateStatus, MoveStatus, outside
  <2>2. CASE UNCHANGED order
    BY <2>1, <2>2 DEF mark
  <2>3. CASE Write(o, [order[o] EXCEPT !.status = c.to])
    BY <1>1, <2>1, <2>3, MarkKept DEF OrderRows
  <2>4. QED
    BY <1>5, <2>2, <2>3 DEF UpdateStatus, MoveStatus, o, c
<1>6. CASE SaveRefund(p)
  <2>1. UNCHANGED money /\ order[o].payment = "PAID"
    BY <1>1, <1>6 DEF SaveRefund, In, c, o, Refunding, outside
  <2>2. CASE UNCHANGED <<order, refunds>>
    BY <2>1, <2>2, RowsKept DEF mark
  <2>3. CASE /\ Write(o, Refunded(order[o]))
             /\ refunds' = [refunds EXCEPT ![o][c.via] = @ + 1]
    <3>1. mark' = [mark EXCEPT ![o] = "REFUNDED"] /\ mark[o] = "PAID"
      BY <1>1, <2>1, <2>3, MarkWritten, RowMarks DEF mark
    <3>2. c.via \in RefundMethods
      BY <1>1 DEF Calls
    <3>3. rows' = [rows EXCEPT ![o] = @ + 1]
      BY <1>1, <2>3, <3>2, RefundRecorded DEF rows
    <3>4. QED
      BY <1>1, <2>1, <3>1, <3>3 DEF Ledger!LedgerNext, Ledger!Refund, mark, rows
  <2>4. QED
    BY <1>6, <2>2, <2>3 DEF SaveRefund, c, o
<1>7. CASE \/ EnqueueOrderConfirmation(p) \/ LookupEvent(p) \/ CreateEvent(p)
           \/ MarkProcessed(p) \/ AskRazorpay(p) \/ CheckRefund(p)
           \/ RefundPayment(p) \/ ReleaseRefundLock(p) \/ CreateIfNonePending(p)
  <2>1. UNCHANGED <<money, order, refunds>>
    BY <1>7 DEF EnqueueOrderConfirmation, LookupEvent, CreateEvent, MarkProcessed,
       AskRazorpay, CheckRefund, RefundPayment, ReleaseRefundLock,
       CreateIfNonePending, tables, outside
  <2>2. QED
    BY <2>1, RowsKept DEF mark
<1>8. QED
  BY <1>2, <1>3, <1>4, <1>5, <1>6, <1>7 DEF Step

\* So are payments, the clock, the stale sweep and the request answers.
LEMMA OutsideImplementsLedger ==
  ASSUME TypeOK, NEW o \in Orders, World(o) \/ Atomic(o)
  PROVE  Ledger!LedgerNext \/ UNCHANGED <<money, mark, rows>>
<1>1. order[o] \in OrderRows
  BY DEF TypeOK
<1>2. CASE TakeMoney(o)
  <2>1. UNCHANGED <<mark, rows>>
    BY <1>2, RowsKept DEF TakeMoney, tables, mark
  <2>2. QED
    BY <1>2, <2>1 DEF TakeMoney, Ledger!LedgerNext, Ledger!Take, mark, rows
<1>3. CASE Age(o)
  BY <1>1, <1>3, MarkKept, RowsKept DEF Age, outside, OrderRows
<1>4. CASE MarkStaleFailed(o)
  <2>1. mark' = [mark EXCEPT ![o] = "FAILED"] /\ mark[o] # "PAID"
    BY <1>1, <1>4, MarkWritten DEF MarkStaleFailed, OrderRows, mark
  <2>2. UNCHANGED <<money, rows>>
    BY <1>4, RowsKept DEF MarkStaleFailed, outside
  <2>3. QED
    BY <2>1, <2>2 DEF Ledger!LedgerNext, Ledger!Fail, mark, rows
<1>5. CASE AttemptFails(o) \/ LockExpires(o) \/ Withdraw(o) \/ Reject(o)
  BY <1>5, RowsKept DEF AttemptFails, LockExpires, Withdraw, Reject, CloseIfPending,
     tables, outside, mark
<1>6. QED
  BY <1>2, <1>3, <1>4, <1>5 DEF World, Atomic

\* The payment columns and the refund table of every order behave as
\* PaymentLedger promises.
THEOREM LedgerIsImplemented ==
  ASSUME SlowCalls = FALSE PROVE Spec => ImplementsLedger
<1>1. Init => Ledger!LedgerInit
  <2> SUFFICES ASSUME Init PROVE Ledger!LedgerInit
    OBVIOUS
  <2>1. ASSUME NEW o \in Orders PROVE order[o].payment = "PENDING" /\ RefundRows(o) = 0
    BY DEF Init, NewOrder, RefundRows, RefundMethods
  <2>2. QED
    BY <2>1 DEF Init, Ledger!LedgerInit
<1>2. TypeOK /\ FundsInv /\ LockInv /\ [Next]_vars
        => [Ledger!LedgerNext]_(Ledger!ledger)
  <2> SUFFICES ASSUME TypeOK, FundsInv, LockInv, [Next]_vars
               PROVE  Ledger!LedgerNext \/ UNCHANGED <<money, mark, rows>>
    BY DEF Ledger!ledger, mark, rows
  <2>1. CASE UNCHANGED <<money, order, refunds>>
    BY <2>1, RowsKept DEF mark
  <2>2. CASE \E p \in Procs : Throw(p) \/ Die(p) \/ \E o \in Orders : Start(p, o)
    BY <2>1, <2>2, StartedCall DEF Throw, Die, tables, outside
  <2>3. CASE UNCHANGED vars
    BY <2>1, <2>3 DEF vars, tables, outside
  <2>4. QED
    BY <2>2, <2>3, StepImplementsLedger, OutsideImplementsLedger DEF Next
<1>3. QED
  BY <1>1, <1>2, LockInvariant, PTL DEF Spec, ImplementsLedger, Ledger!LedgerSpec

-----------------------------------------------------------------------------
\* A paid order stops being PAID in the refund transaction only; this holds
\* whether or not calls keep to the lock's TTL.
THEOREM OnlyRefundsEndPaid == Spec => PaidEndsOnlyInRefund
<1> DEFINE EndsInRefund ==
      \A o \in Orders :
        order[o].payment = "PAID" /\ order'[o].payment # "PAID"
        => /\ order'[o].payment = "REFUNDED" /\ order'[o].status = "CANCELLED"
           /\ RefundRows(o)' = RefundRows(o) + 1
           /\ request'[o] # "PENDING"
<1>1. TypeOK /\ [Next]_vars => [EndsInRefund]_vars
  <2> SUFFICES ASSUME TypeOK, Next, NEW o \in Orders, order[o].payment = "PAID",
                      order'[o].payment # "PAID"
               PROVE  /\ order'[o].payment = "REFUNDED"
                      /\ order'[o].status = "CANCELLED"
                      /\ RefundRows(o)' = RefundRows(o) + 1
                      /\ request'[o] # "PENDING"
    OBVIOUS
  <2>1. order[o] \in OrderRows /\ \A q \in Procs : call[q].order \in Orders
    BY DEF TypeOK, Calls
  <2>2. ASSUME NEW x \in Orders, NEW row, Write(x, row)
        PROVE  x = o /\ order'[o] = row
    BY <2>2 DEF Write, TypeOK
  <2>3. order' # order
    OBVIOUS
  <2>4. PICK p \in Procs : SaveRefund(p) /\ order' # order
    <3>1. CASE \E x \in Orders : World(x) \/ Atomic(x)
      BY <2>1, <2>2, <2>3, <3>1
         DEF World, Atomic, TakeMoney, AttemptFails, Age, MarkStaleFailed,
             LockExpires, Withdraw, Reject, CloseIfPending, tables, OrderRows
    <3>2. CASE \E q \in Procs : Throw(q) \/ Die(q) \/ \E x \in Orders : Start(q, x)
      BY <2>3, <3>2, StartedCall DEF Throw, Die, tables
    <3>3. ASSUME NEW q \in Procs, Step(q) PROVE SaveRefund(q)
      <4> DEFINE x == call[q].order
      <4>1. x \in Orders /\ order[x] \in OrderRows
        BY DEF TypeOK, Calls
      <4> HIDE DEF x
      <4>2. ~MarkPaid(q) /\ ~MarkPaidManually(q)
        BY <2>2, <4>1, RowMarks DEF MarkPaid, MarkPaidManually, x
      <4>3. ~MarkFailed(q)
        BY <2>2, <4>1 DEF MarkFailed, FailedMark, x
      <4>4. ~UpdateStatus(q) /\ ~MoveStatus(q)
        BY <2>2, <2>3, <4>1 DEF UpdateStatus, MoveStatus, OrderRows, x
      <4>5. QED
        BY <2>3, <3>3, <4>2, <4>3, <4>4
           DEF Step, EnqueueOrderConfirmation, LookupEvent, CreateEvent,
               MarkProcessed, AskRazorpay, CheckRefund, RefundPayment,
               ReleaseRefundLock, CreateIfNonePending, tables
    <3>4. QED
      BY <2>3, <3>1, <3>2, <3>3 DEF Next
  <2> DEFINE x == call[p].order
  <2>5. /\ Write(x, Refunded(order[x]))
        /\ refunds' = [refunds EXCEPT ![x][call[p].via] = @ + 1]
        /\ request' = [request EXCEPT ![x] = IF @ = "PENDING" THEN "APPROVED" ELSE @]
    BY <2>4 DEF SaveRefund
  <2>6. x = o /\ order'[o] = Refunded(order[o])
    BY <2>1, <2>2, <2>5
  <2>7. RefundRows(o)' = RefundRows(o) + 1
    <3>1. call[p].via \in RefundMethods
      BY DEF TypeOK, Calls
    <3>2. QED
      BY <2>5, <2>6, <3>1, RefundRecorded
  <2>8. request'[o] # "PENDING"
    BY <2>5, <2>6 DEF TypeOK
  <2>9. QED
    BY <2>1, <2>6, <2>7, <2>8 DEF Refunded, OrderRows
<1>2. QED
  BY <1>1, TypeCorrect, PTL DEF Spec, PaidEndsOnlyInRefund

-----------------------------------------------------------------------------
\* Refunds sent and refunds recorded.

Accounted(o) ==
  LET recorded == refunds[o]["RAZORPAY"] + (IF Sending(o) THEN 1 ELSE 0)
  IN  recorded <= sent[o] /\ sent[o] <= recorded + faults

SendsFor(p, o) ==
  call[p].phase = "save" /\ call[p].order = o /\ call[p].via = "RAZORPAY"

\* An order's refund accounts depend only on its counts and its sender.
LEMMA AccountedStays ==
  ASSUME TypeOK, NEW o \in Orders, Accounted(o),
         UNCHANGED <<refunds[o]["RAZORPAY"], sent[o], faults>>,
         \A q \in Procs : SendsFor(q, o)' <=> SendsFor(q, o)
  PROVE  Accounted(o)'
<1>1. Sending(o)' <=> Sending(o)
  BY DEF Sending, SendsFor
<1>2. QED
  BY <1>1 DEF Accounted

\* A call that is not at its transaction neither before nor after the step.
LEMMA SendsForNobodyNew ==
  ASSUME TypeOK, NEW p \in Procs, NEW o \in Orders,
         Step(p) \/ Throw(p) \/ Die(p) \/ \E x \in Orders : Start(p, x),
         SendsFor(p, o)' <=> SendsFor(p, o)
  PROVE  \A q \in Procs : SendsFor(q, o)' <=> SendsFor(q, o)
BY OtherCalls DEF SendsFor

\* Only the owner of an order's lock can be between gateway and save.
LEMMA OneSender ==
  ASSUME LockInv, NEW p \in Procs, InRefund(p), NEW q \in Procs,
         SendsFor(q, call[p].order)
  PROVE  q = p
BY DEF LockInv, OwnersHoldLock, InRefund, SendsFor, RefundPhases

\* Every step of a handler keeps the accounts: the gateway's refund is
\* matched by the call that carries it to the transaction.
LEMMA StepAccounted ==
  ASSUME TypeOK, FundsInv, LockInv, NEW p \in Procs, Step(p), NEW o \in Orders,
         Accounted(o)
  PROVE  Accounted(o)'
<1> DEFINE c == call[p]
<1>1. /\ c \in Calls /\ c.order \in Orders /\ c.via \in RefundMethods /\ Refunding(c)
      /\ sent \in [Orders -> Nat] /\ refunds \in [Orders -> [RefundMethods -> Nat]]
      /\ faults \in Nat
  BY DEF TypeOK, Calls, LockInv, RefundsStayAllowed
<1>2. CASE /\ UNCHANGED <<refunds[o]["RAZORPAY"], sent[o], faults>>
           /\ SendsFor(p, o)' <=> SendsFor(p, o)
  BY <1>2, AccountedStays, SendsForNobodyNew
<1>3. CASE c.phase # "save" /\ call'[p].phase # "save" /\ UNCHANGED <<refunds, sent, faults>>
  BY <1>2, <1>3 DEF SendsFor
<1> HIDE DEF c
<1>4. CASE RefundPayment(p)
  <2>1. /\ call'[p].phase = "save" /\ call'[p].order = c.order /\ call'[p].via = c.via
        /\ c.phase = "gateway" /\ c.via = "RAZORPAY" /\ UNCHANGED <<refunds, faults>>
        /\ sent' = [sent EXCEPT ![c.order] = @ + 1]
    BY <1>1, <1>4, Going DEF RefundPayment, In, Refunding, tables, Phases, c
  <2>2. CASE o # c.order
    BY <1>1, <1>2, <2>1, <2>2 DEF SendsFor, c
  <2>3. CASE o = c.order
    <3>1. ~Sending(o)
      BY <2>1, <2>3, OneSender DEF Sending, SendsFor, InRefund, RefundPhases, c
    <3>2. Sending(o)'
      BY <2>1, <2>3 DEF Sending
    <3>3. sent'[o] = sent[o] + 1
      BY <1>1, <2>1, <2>3
    <3>4. QED
      BY <1>1, <2>1, <3>1, <3>2, <3>3 DEF Accounted, RefundMethods
  <2>4. QED
    BY <2>2, <2>3
<1>5. CASE SaveRefund(p)
  <2>1. /\ c.phase = "save" /\ call'[p].phase = "release" /\ UNCHANGED <<sent, faults>>
        /\ InRefund(p)
    BY <1>5, Going DEF SaveRefund, In, outside, c, Phases, InRefund, RefundPhases
  <2>2. \/ UNCHANGED refunds /\ order[c.order].status = "CANCELLED"
        \/ refunds' = [refunds EXCEPT ![c.order][c.via] = @ + 1]
    BY <1>5 DEF SaveRefund, c
  <2>3. CASE o # c.order
    BY <1>1, <1>2, <2>1, <2>2, <2>3 DEF SendsFor, c
  <2>4. CASE o = c.order /\ c.via = "MANUAL"
    <3>1. UNCHANGED refunds[o]["RAZORPAY"]
      BY <1>1, <2>2, <2>4 DEF RefundMethods
    <3>2. QED
      BY <1>2, <2>1, <2>4, <3>1 DEF SendsFor, c
  <2>5. CASE o = c.order /\ c.via = "RAZORPAY"
    <3>1. refunds'[o]["RAZORPAY"] = refunds[o]["RAZORPAY"] + 1
      BY <1>1, <2>1, <2>2, <2>5 DEF Refunding, RefundMethods
    <3>2. Sending(o)
      BY <2>1, <2>5 DEF Sending, c
    <3>3. ASSUME NEW q \in Procs PROVE ~SendsFor(q, o)'
      <4>1. CASE q = p
        BY <2>1, <4>1 DEF SendsFor
      <4>2. CASE q # p
        BY <1>5, <2>1, <2>5, <4>2, OneSender, OtherCalls DEF SendsFor, Step, c
      <4>3. QED
        BY <4>1, <4>2
    <3>4. ~Sending(o)'
      BY <3>3 DEF Sending, SendsFor
    <3>5. QED
      BY <1>1, <2>1, <3>1, <3>2, <3>4 DEF Accounted, RefundMethods
  <2>6. QED
    BY <1>1, <2>3, <2>4, <2>5 DEF RefundMethods
<1>6. CASE CheckRefund(p)
  <2>1. PICK phase \in {"release", "gateway", "save"} :
          /\ Goto(p, phase)
          /\ phase = "save" => c.via # "RAZORPAY"
    BY <1>6 DEF CheckRefund, c
  <2>2. /\ call'[p].phase = phase /\ call'[p].order = c.order /\ call'[p].via = c.via
    BY <2>1, Going DEF Phases, c
  <2>3. c.phase = "check" /\ UNCHANGED <<refunds, sent, faults>>
    BY <1>6 DEF CheckRefund, In, outside, tables, c
  <2>4. QED
    BY <1>2, <2>1, <2>2, <2>3 DEF SendsFor, c
<1>7. CASE \/ MarkProcessed(p) \/ UpdateStatus(p) \/ MarkPaidManually(p)
           \/ MoveStatus(p) \/ ReleaseRefundLock(p) \/ CreateIfNonePending(p)
  BY <1>3, <1>7, OwnCall
     DEF MarkProcessed, UpdateStatus, MarkPaidManually, MoveStatus, In, c,
         ReleaseRefundLock, CreateIfNonePending, outside, tables
<1>8. CASE c.phase # "save" /\ UNCHANGED <<refunds, sent, faults>>
           /\ (Return(p) \/ \E phase \in Phases \ {"save"} : Goto(p, phase))
  BY <1>3, <1>8, OwnCall, Going
<1>9. CASE \/ MarkPaid(p) \/ EnqueueOrderConfirmation(p) \/ MarkFailed(p) \/ AskRazorpay(p)
  BY <1>8, <1>9 DEF MarkPaid, EnqueueOrderConfirmation, MarkFailed, AskRazorpay, In, c,
     outside, tables, Phases
<1>10. CASE LookupEvent(p) \/ CreateEvent(p)
  BY <1>8, <1>10 DEF LookupEvent, CreateEvent, EventAction, In, c,
     outside, tables, Phases
<1>11. QED
  BY <1>4, <1>5, <1>6, <1>7, <1>9, <1>10 DEF Step

\* Every step of the system keeps the accounts.
LEMMA AccountedStep ==
  ASSUME TypeOK, FundsInv, LockInv, [Next]_vars, NEW o \in Orders, Accounted(o)
  PROVE  Accounted(o)'
<1>1. CASE UNCHANGED <<refunds, sent, faults, call>>
  BY <1>1, AccountedStays DEF SendsFor
<1>2. CASE \E x \in Orders : World(x) \/ Atomic(x)
  BY <1>1, <1>2 DEF World, Atomic, TakeMoney, AttemptFails, Age, MarkStaleFailed,
     LockExpires, Withdraw, Reject, CloseIfPending, outside, tables
<1>3. CASE UNCHANGED vars
  BY <1>1, <1>3 DEF vars, outside, tables
<1>4. ASSUME NEW p \in Procs, NEW x \in Orders, Start(p, x) PROVE Accounted(o)'
  <2>1. PICK c \in Calls : Begin(p, c) /\ Checked(c, order[x])
                          /\ UNCHANGED <<outside, tables, faults>>
    BY <1>4, StartedCall
  <2>2. call[p].phase = "idle" /\ call'[p].phase # "save"
    BY <2>1, BegunCall DEF Idle, Checked
  <2>3. QED
    BY <1>4, <2>1, <2>2, AccountedStays, SendsForNobodyNew DEF SendsFor, outside, tables
<1>5. ASSUME NEW p \in Procs, Throw(p) \/ Die(p) PROVE Accounted(o)'
  <2>1. /\ UNCHANGED <<refunds, sent>> /\ faults' = faults + 1
        /\ call'[p].phase = "idle"
    BY <1>5, OwnCall DEF Throw, Die, outside, tables
  <2>2. Sending(o)' => Sending(o)
    BY <1>5, <2>1, OtherCalls DEF Sending
  <2>3. /\ sent[o] \in Nat /\ refunds[o]["RAZORPAY"] \in Nat /\ faults \in Nat
    BY BoundsAssumption DEF TypeOK, RefundMethods
  <2>4. sent'[o] = sent[o] /\ refunds'[o]["RAZORPAY"] = refunds[o]["RAZORPAY"]
    BY <2>1
  <2>5. QED
    BY <2>1, <2>2, <2>3, <2>4 DEF Accounted
<1>6. QED
  BY <1>2, <1>3, <1>4, <1>5, StepAccounted DEF Next

\* Refunds sent and rows recorded agree, but for one refund per fault.
THEOREM RefundsStayAccounted ==
  ASSUME SlowCalls = FALSE PROVE Spec => []RefundsAreAccounted
<1> DEFINE AllAccounted == \A o \in Orders : Accounted(o)
<1>1. Init => AllAccounted
  <2> SUFFICES ASSUME Init, NEW o \in Orders PROVE Accounted(o)
    OBVIOUS
  <2>1. \A p \in Procs : call[p].phase = "idle"
    BY DEF Init, NoCall
  <2>2. ~Sending(o)
    BY <2>1 DEF Sending
  <2>3. QED
    BY <2>2 DEF Init, Accounted, RefundMethods
<1>2. TypeOK /\ FundsInv /\ LockInv /\ AllAccounted /\ [Next]_vars => AllAccounted'
  BY AccountedStep
<1>3. AllAccounted => RefundsAreAccounted
  BY DEF Accounted, RefundsAreAccounted
<1>4. QED
  BY <1>1, <1>2, <1>3, LockInvariant, PTL DEF Spec

-----------------------------------------------------------------------------
\* The confirmation of a paid online order.

Announcing(p, o) == call[p].phase = "enqueue" /\ call[p].order = o

Announced(o) ==
  order[o].method = "RAZORPAY" /\ order[o].payment = "PAID"
  => queued[o] \/ (\E p \in Procs : Announcing(p, o)) \/ faults > 0

\* Every step keeps a paid online order announced, or about to be.
LEMMA AnnouncedStep ==
  ASSUME TypeOK, FundsInv, [Next]_vars, NEW o \in Orders, Announced(o)
  PROVE  Announced(o)'
<1> SUFFICES ASSUME order'[o].method = "RAZORPAY", order'[o].payment = "PAID",
                    ~(faults' > 0)
             PROVE  queued'[o] \/ \E p \in Procs : Announcing(p, o)'
  BY DEF Announced
<1>1. order[o] \in OrderRows /\ order[o].method = "RAZORPAY" /\ faults \in Nat
  BY Monotone, BoundsAssumption DEF TypeOK
<1>2. ASSUME NEW p \in Procs PROVE ~Throw(p) /\ ~Die(p)
  BY <1>1 DEF Throw, Die
<1>3. faults' = faults
  <2>1. \A p \in Procs : Step(p) => faults' = faults
    BY DEF Step, MarkPaid, EnqueueOrderConfirmation, LookupEvent, CreateEvent,
       MarkFailed, MarkProcessed, AskRazorpay, UpdateStatus, MarkPaidManually,
       MoveStatus, CheckRefund, RefundPayment, SaveRefund, ReleaseRefundLock,
       CreateIfNonePending
  <2>2. \A x \in Orders : World(x) \/ Atomic(x) => faults' = faults
    BY DEF World, Atomic, TakeMoney, AttemptFails, Age, MarkStaleFailed, LockExpires,
       Withdraw, Reject, CloseIfPending, vars
  <2>3. QED
    BY <1>2, <2>1, <2>2, StartedCall DEF Next, vars
<1>4. ASSUME NEW p \in Procs, EnqueueOrderConfirmation(p), call[p].order = o
      PROVE  queued'[o]
  BY <1>4 DEF EnqueueOrderConfirmation, TypeOK
<1>5. queued[o] => queued'[o]
  <2>1. CASE UNCHANGED queued
    BY <2>1
  <2>2. CASE \E p \in Procs : EnqueueOrderConfirmation(p)
    BY <2>2 DEF EnqueueOrderConfirmation, TypeOK
  <2>3. \A x \in Orders : World(x) \/ Atomic(x) => UNCHANGED queued
    BY DEF World, Atomic, TakeMoney, AttemptFails, Age, MarkStaleFailed, LockExpires,
       Withdraw, Reject, CloseIfPending, redis
  <2>4. \A p \in Procs : Step(p) /\ ~EnqueueOrderConfirmation(p) => UNCHANGED queued
    BY DEF Step, MarkPaid, LookupEvent, CreateEvent, MarkFailed, MarkProcessed,
       AskRazorpay, UpdateStatus, MarkPaidManually, MoveStatus, CheckRefund,
       RefundPayment, SaveRefund, ReleaseRefundLock, CreateIfNonePending, redis
  <2>5. UNCHANGED vars => UNCHANGED queued
    BY DEF vars, redis
  <2>6. QED
    BY <1>2, <2>1, <2>2, <2>3, <2>4, <2>5, StartedCall DEF Next
<1>6. ASSUME NEW q \in Procs, Announcing(q, o)
      PROVE  queued'[o] \/ \E p \in Procs : Announcing(p, o)'
  <2>1. CASE call'[q] = call[q]
    BY <1>6, <2>1 DEF Announcing
  <2>2. CASE Step(q)
    BY <1>4, <1>6, <2>2
       DEF Announcing, In, Step, MarkPaid, LookupEvent, CreateEvent, MarkFailed,
           MarkProcessed, AskRazorpay, UpdateStatus, MarkPaidManually, MoveStatus,
           CheckRefund, RefundPayment, SaveRefund, ReleaseRefundLock,
           CreateIfNonePending
  <2>3. ~\E x \in Orders : Start(q, x)
    BY <1>6, StartedCall, BegunCall DEF Announcing, Idle
  <2>4. CASE UNCHANGED vars \/ \E x \in Orders : World(x) \/ Atomic(x)
    BY <2>1, <2>4 DEF World, Atomic, TakeMoney, AttemptFails, Age, MarkStaleFailed,
       LockExpires, Withdraw, Reject, CloseIfPending, vars
  <2>5. QED
    BY <1>2, <2>1, <2>2, <2>3, <2>4, OtherCalls DEF Next
<1>7. CASE order[o].payment = "PAID"
  BY <1>1, <1>3, <1>5, <1>6, <1>7 DEF Announced
<1>8. CASE order[o].payment # "PAID"
  <2>1. ASSUME NEW x \in Orders, NEW row, Write(x, row)
        PROVE  x = o /\ row.payment = "PAID"
    BY <1>8, <2>1 DEF Write, TypeOK
  <2>2. ASSUME NEW p \in Procs, Step(p) PROVE MarkPaid(p)
    <3> DEFINE x == call[p].order
    <3>1. x \in Orders /\ order[x] \in OrderRows /\ Justified(call[p])
      BY DEF TypeOK, Calls, FundsInv
    <3> HIDE DEF x
    <3>2. ~MarkPaidManually(p)
      <4> SUFFICES ASSUME MarkPaidManually(p) PROVE FALSE
        OBVIOUS
      <4>1. x = o
        BY <2>1, <3>1 DEF MarkPaidManually, x
      <4>2. order[x].method # "RAZORPAY"
        BY <3>1 DEF MarkPaidManually, In, Justified, NeedsOffline, x
      <4>3. QED
        BY <1>1, <4>1, <4>2
    <3>3. ~MarkFailed(p)
      BY <1>8, <2>1, <3>1 DEF MarkFailed, FailedMark, OrderRows, x
    <3>4. ~UpdateStatus(p)
      BY <1>8, <2>1, <3>1 DEF UpdateStatus, OrderRows, x
    <3>5. ~MoveStatus(p)
      BY <1>8, <2>1, <3>1 DEF MoveStatus, OrderRows, x
    <3>6. ~SaveRefund(p)
      BY <1>8, <2>1, <3>1, RowMarks DEF SaveRefund, x
    <3>7. QED
      BY <1>8, <2>2, <3>2, <3>3, <3>4, <3>5, <3>6
         DEF Step, EnqueueOrderConfirmation, LookupEvent, CreateEvent, MarkProcessed,
             AskRazorpay, CheckRefund, RefundPayment, ReleaseRefundLock,
             CreateIfNonePending, tables
  <2>3. ASSUME NEW x \in Orders, World(x) \/ Atomic(x) PROVE FALSE
    <3>1. order[x] \in OrderRows
      BY DEF TypeOK
    <3>2. QED
      BY <1>8, <2>1, <2>3, <3>1
         DEF World, Atomic, TakeMoney, AttemptFails, Age, MarkStaleFailed,
             LockExpires, Withdraw, Reject, CloseIfPending, tables, OrderRows
  <2>4. PICK p \in Procs : MarkPaid(p)
    BY <1>2, <1>8, <2>2, <2>3, StartedCall DEF Next, vars, tables
  <2>5. call[p].order = o /\ call'[p].phase = "enqueue" /\ call'[p].order = o
    BY <2>1, <2>4, Going DEF MarkPaid, Phases, TypeOK, Calls
  <2>6. QED
    BY <2>5 DEF Announcing
<1>9. QED
  BY <1>7, <1>8

\* A paid online order's confirmation is queued, about to be, or a fault
\* stopped the call that owed it.
THEOREM PaidIsAnnounced == Spec => []PaidOrdersAreAnnounced
<1> DEFINE AllAnnounced == \A o \in Orders : Announced(o)
<1>1. Init => AllAnnounced
  <2> SUFFICES ASSUME Init, NEW o \in Orders PROVE order[o].payment # "PAID"
    BY DEF Announced
  <2>1. QED
    BY DEF Init, NewOrder
<1>2. TypeOK /\ FundsInv /\ AllAnnounced /\ [Next]_vars => AllAnnounced'
  BY AnnouncedStep
<1>3. AllAnnounced => PaidOrdersAreAnnounced
  BY DEF Announced, Announcing, PaidOrdersAreAnnounced
<1>4. QED
  BY <1>1, <1>2, <1>3, FundsInvariant, PTL DEF Spec

-----------------------------------------------------------------------------
\* What Razorpay is told. It redelivers an event until its record is
\* PROCESSED, and the job no longer asks once payment.failed was written, so
\* an event that is acknowledged early would never be told again.

\* No captured event is acknowledged before the payment id is on the row:
\* whatever the row read at the start of the handler said, whoever else
\* confirms, refunds or fails the order meanwhile, and wherever a call stops.
AcknowledgedIsConfirmed ==
  \A o \in Orders : \A k \in CapturedKinds :
    event[o][k] = "PROCESSED" => order[o].payId

\* An online order is PAID by markPaid alone, which writes the id with it.
PaidHasId(o) ==
  order[o].method = "RAZORPAY" /\ order[o].payment = "PAID" => order[o].payId

\* A call that will acknowledge without confirming read the order as PAID.
Acknowledging(c) ==
  \/ c.phase = "enqueue"
  \/ c.phase = "processed" /\ c.kind \in CapturedKinds
  \/ c.phase \in {"lookup", "create"} /\ c.sawPaid

AckInv ==
  /\ AcknowledgedIsConfirmed
  /\ \A o \in Orders : PaidHasId(o)
  /\ \A p \in Procs :
       /\ Acknowledging(call[p]) => order[call[p].order].payId
       /\ call[p].phase = "fail" => call[p].kind = "payment.failed"

\* A call that goes on keeps what it read.
LEMMA GoingSaw ==
  ASSUME TypeOK, NEW p \in Procs, NEW phase \in Phases, Goto(p, phase)
  PROVE  call'[p].sawPaid = call[p].sawPaid
BY DEF TypeOK, Goto, Calls

\* A handler that begins has read the row as it is.
LEMMA StartAck ==
  ASSUME TypeOK, AckInv, NEW p \in Procs, NEW o \in Orders, Start(p, o),
         Acknowledging(call[p])'
  PROVE  order'[call'[p].order].payId
<1>1. PICK c \in Calls : /\ Begin(p, c) /\ c.order = o /\ Checked(c, order[o])
                        /\ UNCHANGED <<outside, tables, queued, faults>>
  BY StartedCall
<1>2. call'[p] = c /\ UNCHANGED order
  BY <1>1, BegunCall DEF tables
<1>3. c.phase = "lookup" /\ c.sawPaid
  BY <1>1, <1>2 DEF Acknowledging, Checked
<1>4. PICK k \in EventKinds : ReceiveWebhook(p, o, k)
  <2>1. \A phase : NewCall(o, phase).phase = phase
    BY DEF NewCall, NoCall
  <2>2. ~StartVerify(p, o) /\ ~PickPending(p, o) /\ ~StartRequest(p, o)
    BY <1>2, <1>3, <2>1, BegunCall, CallTypes
       DEF StartVerify, PickPending, StartRequest, Begin, TypeOK
  <2>3. ~StartMarkPaidManually(p, o)
    BY <1>2, <1>3 DEF StartMarkPaidManually, Begin, TypeOK, NewCall, NoCall
  <2>4. \A to : ~StartUpdateStatus(p, o, to) /\ ~StartKitchenMove(p, o, to)
    <3>1. ASSUME NEW d, Begin(p, d), d.phase \in {"status", "kitchen", "check"}
          PROVE  FALSE
      BY <1>3, <1>1, <3>1, BegunCall DEF Begin, TypeOK
    <3>2. \A to : [NewCall(o, "status") EXCEPT !.to = to].phase = "status"
      BY DEF NewCall, NoCall
    <3>3. \A seen, to : [NewCall(o, "kitchen") EXCEPT !.seen = seen, !.to = to].phase
                        = "kitchen"
      BY DEF NewCall, NoCall
    <3>4. QED
      BY <3>1, <3>2, <3>3 DEF StartUpdateStatus, StartKitchenMove
  <2>5. \A via : ~AcquireRefundLock(p, o, via)
    <3>1. ASSUME NEW d, Begin(p, d), d.phase = "check" PROVE FALSE
      BY <1>3, <1>1, <3>1, BegunCall DEF Begin, TypeOK
    <3>2. \A via : [NewCall(o, "check") EXCEPT !.via = via].phase = "check"
      BY DEF NewCall, NoCall
    <3>3. QED
      BY <3>1, <3>2 DEF AcquireRefundLock
  <2>6. QED
    BY <2>2, <2>3, <2>4, <2>5 DEF Start
<1>5. order[o].payment = "PAID" /\ order[o].method = "RAZORPAY"
  BY <1>2, <1>3, <1>4
     DEF ReceiveWebhook, Begin, Happened, TypeOK, NewCall, NoCall
<1>6. QED
  BY <1>1, <1>2, <1>5 DEF AckInv, PaidHasId

\* A handler confirms before it acknowledges.
LEMMA StepAck ==
  ASSUME TypeOK, FundsInv, AckInv, [Next]_vars, NEW p \in Procs, Step(p),
         Acknowledging(call[p])'
  PROVE  order'[call'[p].order].payId
<1> USE DEF In
<1>0. call[p] \in Calls /\ call[p].order \in Orders
      /\ order[call[p].order] \in OrderRows
  BY DEF TypeOK, Calls
<1>1. call'[p].phase # "idle"
  BY DEF Acknowledging
<1>2. CASE MarkPaid(p)
  <2>1. call'[p].order = call[p].order
    BY <1>2, Going DEF MarkPaid, Phases
  <2>2. QED
    BY <1>0, <1>2, <2>1 DEF MarkPaid, Write, TypeOK, Confirmed, OrderRows
<1>3. CASE Acknowledging(call[p]) /\ call'[p].order = call[p].order
  BY <1>0, <1>3, Monotone DEF AckInv
<1>4. CASE EnqueueOrderConfirmation(p)
  <2>1. Goto(p, "processed")
    BY <1>1, <1>4, OwnCall DEF EnqueueOrderConfirmation
  <2>2. Acknowledging(call[p])
    BY <1>4 DEF EnqueueOrderConfirmation, Acknowledging
  <2>3. QED
    BY <1>3, <2>1, <2>2, Going DEF Phases
<1>5. CASE LookupEvent(p) \/ CreateEvent(p)
  <2>1. call[p].phase \in {"lookup", "create"}
    BY <1>5 DEF LookupEvent, CreateEvent
  <2>2. PICK phase \in {"create", EventAction(call[p].kind, call[p].sawPaid)} :
          Goto(p, phase)
    BY <1>1, <1>5, OwnCall DEF LookupEvent, CreateEvent
  <2>3. phase \in {"create", "fail", "processed", "confirm"}
        /\ (phase = "processed" => call[p].sawPaid)
    BY <2>2 DEF EventAction
  <2>4. /\ call'[p].phase = phase /\ call'[p].order = call[p].order
        /\ call'[p].sawPaid = call[p].sawPaid
    BY <2>2, <2>3, Going, GoingSaw DEF Phases
  <2>5. Acknowledging(call[p])
    BY <2>1, <2>3, <2>4 DEF Acknowledging
  <2>6. QED
    BY <1>3, <2>4, <2>5
<1>6. CASE MarkFailed(p)
  <2>1. /\ call'[p].phase = "processed" /\ call'[p].kind = call[p].kind
        /\ call[p].phase = "fail"
    BY <1>6, Going DEF MarkFailed, Phases
  <2>2. call'[p].kind \in CapturedKinds
    BY <2>1 DEF Acknowledging
  <2>3. QED
    BY <2>1, <2>2 DEF AckInv, CapturedKinds
<1>7. CASE \E phase \in {"confirm", "release", "gateway", "save"} : Goto(p, phase)
  BY <1>7, Going DEF Acknowledging, Phases
<1>8. CASE Return(p)
  BY <1>1, <1>8, OwnCall
<1>9. QED
  BY <1>2, <1>4, <1>5, <1>6, <1>7, <1>8
     DEF Step, AskRazorpay, MarkProcessed, UpdateStatus, MarkPaidManually,
         MoveStatus, CheckRefund, RefundPayment, SaveRefund, ReleaseRefundLock,
         CreateIfNonePending

\* Only payment.failed is marked as a failure.
LEMMA FailStep ==
  ASSUME TypeOK, AckInv, NEW p \in Procs,
         Step(p) \/ Throw(p) \/ Die(p) \/ \E o \in Orders : Start(p, o),
         call'[p].phase = "fail"
  PROVE  call'[p].kind = "payment.failed"
<1>1. ~\E o \in Orders : Start(p, o)
  BY StartedCall, BegunCall DEF Checked
<1>2. CASE LookupEvent(p) \/ CreateEvent(p)
  <2>1. PICK phase \in {"create", EventAction(call[p].kind, call[p].sawPaid)} :
          Goto(p, phase)
    BY <1>2, OwnCall DEF LookupEvent, CreateEvent
  <2>2. phase \in {"create", "fail", "processed", "confirm"}
        /\ (phase = "fail" => call[p].kind = "payment.failed")
    BY <2>1 DEF EventAction
  <2>3. QED
    BY <2>1, <2>2, Going DEF Phases
<1>3. CASE \E phase \in {"confirm", "enqueue", "processed", "release", "gateway",
                         "save"} : Goto(p, phase)
  BY <1>3, Going DEF Phases
<1>4. CASE Return(p)
  BY <1>4, OwnCall
<1>5. QED
  BY <1>1, <1>2, <1>3, <1>4
     DEF Step, MarkPaid, EnqueueOrderConfirmation, MarkFailed, MarkProcessed,
         AskRazorpay, UpdateStatus, MarkPaidManually, MoveStatus, CheckRefund,
         RefundPayment, SaveRefund, ReleaseRefundLock, CreateIfNonePending,
         Throw, Die

\* Whoever writes PAID on an online order writes its payment id.
LEMMA PaidHasIdStep ==
  ASSUME TypeOK, FundsInv, [Next]_vars, NEW o \in Orders, PaidHasId(o)
  PROVE  PaidHasId(o)'
<1>1. order[o] \in OrderRows
  BY DEF TypeOK
<1>2. ASSUME NEW x \in Orders, NEW row \in OrderRows, Write(x, row),
             row.method = "RAZORPAY" /\ row.payment = "PAID" =>
               row.payId \/ /\ order[x].method = "RAZORPAY"
                            /\ order[x].payment = "PAID"
                            /\ row.payId = order[x].payId
      PROVE  PaidHasId(o)'
  BY <1>2 DEF Write, TypeOK, PaidHasId
<1>3. CASE UNCHANGED order
  BY <1>3 DEF PaidHasId
<1>4. ASSUME NEW x \in Orders, World(x) \/ Atomic(x) PROVE PaidHasId(o)'
  <2>1. order[x] \in OrderRows
    BY DEF TypeOK
  <2>2. CASE Age(x)
    <3> DEFINE age == IF order[x].age = "new" THEN "due" ELSE "stale"
               row == [order[x] EXCEPT !.age = age]
    <3>1. Write(x, row)
      BY <2>1, <2>2 DEF Age
    <3>2. /\ row \in OrderRows /\ row.method = order[x].method
          /\ row.payment = order[x].payment /\ row.payId = order[x].payId
      BY <2>1 DEF OrderRows, Ages
    <3> HIDE DEF row
    <3>3. QED
      BY <1>2, <3>1, <3>2
  <2>3. CASE MarkStaleFailed(x)
    BY <1>2, <2>1, <2>3, WrittenRows DEF MarkStaleFailed, OrderRows
  <2>4. QED
    BY <1>3, <1>4, <2>2, <2>3
       DEF World, Atomic, TakeMoney, AttemptFails, LockExpires, Withdraw,
           Reject, CloseIfPending, tables
<1>5. ASSUME NEW p \in Procs, Step(p) PROVE PaidHasId(o)'
  <2> DEFINE x == call[p].order
  <2>1. /\ x \in Orders /\ order[x] \in OrderRows /\ Justified(call[p])
        /\ call[p].to \in Statuses /\ call[p].seen \in Statuses
    BY DEF TypeOK, Calls, FundsInv
  <2>2. CASE MarkPaid(p)
    BY <1>2, <2>1, <2>2, WrittenRows DEF MarkPaid, Confirmed, OrderRows
  <2>3. CASE MarkFailed(p)
    BY <1>2, <2>1, <2>3, WrittenRows DEF MarkFailed, FailedMark, OrderRows
  <2>4. CASE UpdateStatus(p)
    BY <1>2, <2>1, <2>4, WrittenRows DEF UpdateStatus, OrderRows
  <2>5. CASE MoveStatus(p)
    BY <1>2, <1>3, <2>1, <2>5, WrittenRows DEF MoveStatus, OrderRows
  <2>6. CASE MarkPaidManually(p)
    <3> DEFINE row == PaidByHand(order[x], call[p].seen)
    <3>1. Write(x, row) /\ order[x].method # "RAZORPAY"
      BY <2>1, <2>6 DEF MarkPaidManually, In, Justified, NeedsOffline
    <3>2. row \in OrderRows /\ row.method = order[x].method
      BY <2>1, WrittenRows DEF PaidByHand, OrderRows
    <3> HIDE DEF row, x
    <3>3. QED
      BY <1>2, <2>1, <3>1, <3>2
  <2>7. CASE SaveRefund(p)
    BY <1>2, <1>3, <2>1, <2>7, WrittenRows DEF SaveRefund, Refunded, OrderRows
  <2>8. QED
    BY <1>3, <1>5, <2>2, <2>3, <2>4, <2>5, <2>6, <2>7
       DEF Step, EnqueueOrderConfirmation, LookupEvent, CreateEvent, MarkProcessed,
           AskRazorpay, CheckRefund, RefundPayment, ReleaseRefundLock,
           CreateIfNonePending, tables
<1>6. ASSUME NEW p \in Procs, Throw(p) \/ Die(p) \/ \E x \in Orders : Start(p, x)
      PROVE  PaidHasId(o)'
  BY <1>3, <1>6, StartedCall DEF Throw, Die, tables
<1>7. QED
  BY <1>3, <1>4, <1>5, <1>6 DEF Next, vars, tables

\* An event becomes PROCESSED by the call that confirmed it.
LEMMA AcknowledgedStep ==
  ASSUME TypeOK, AckInv, [Next]_vars, NEW o \in Orders, NEW k \in CapturedKinds,
         event'[o][k] = "PROCESSED"
  PROVE  order'[o].payId
<1>1. order[o].payId => order'[o].payId
  BY Monotone
<1>2. CASE event[o][k] = "PROCESSED"
  BY <1>1, <1>2 DEF AckInv, AcknowledgedIsConfirmed
<1>3. CASE event[o][k] # "PROCESSED"
  <2>1. CASE UNCHANGED event
    BY <1>3, <2>1
  <2>2. ASSUME NEW p \in Procs, NEW st, st # "PROCESSED",
               event' = [event EXCEPT ![call[p].order][call[p].kind] = st]
        PROVE  FALSE
    BY <1>3, <2>2 DEF TypeOK
  <2>3. ASSUME NEW p \in Procs, MarkProcessed(p) PROVE order'[o].payId
    <3>1. call[p].order = o /\ call[p].kind = k /\ call[p].phase = "processed"
      BY <1>3, <2>3 DEF MarkProcessed, In, TypeOK
    <3>2. QED
      BY <1>1, <3>1 DEF AckInv, Acknowledging
  <2>4. ASSUME NEW p \in Procs, Throw(p) \/ CreateEvent(p) PROVE order'[o].payId
    BY <2>1, <2>2, <2>4 DEF Throw, CreateEvent
  <2>5. ASSUME NEW p \in Procs, Step(p), ~MarkProcessed(p), ~CreateEvent(p)
        PROVE  UNCHANGED event
    BY <2>5 DEF Step, MarkPaid, EnqueueOrderConfirmation, LookupEvent, MarkFailed,
       AskRazorpay, UpdateStatus, MarkPaidManually, MoveStatus, CheckRefund,
       RefundPayment, SaveRefund, ReleaseRefundLock, CreateIfNonePending, tables
  <2>6. ASSUME NEW x \in Orders, World(x) \/ Atomic(x) PROVE UNCHANGED event
    BY <2>6 DEF World, Atomic, TakeMoney, AttemptFails, Age, MarkStaleFailed,
       LockExpires, Withdraw, Reject, CloseIfPending, tables
  <2>7. ASSUME NEW p \in Procs, Die(p) \/ \E x \in Orders : Start(p, x)
        PROVE  UNCHANGED event
    BY <2>7, StartedCall DEF Die, tables
  <2>8. QED
    BY <2>1, <2>3, <2>4, <2>5, <2>6, <2>7 DEF Next, vars, tables
<1>4. QED
  BY <1>2, <1>3

\* Every step keeps it.
LEMMA AckInvStep ==
  TypeOK /\ FundsInv /\ AckInv /\ [Next]_vars => AckInv'
<1> SUFFICES ASSUME TypeOK, FundsInv, AckInv, [Next]_vars PROVE AckInv'
  OBVIOUS
<1>1. AcknowledgedIsConfirmed'
  BY AcknowledgedStep DEF AcknowledgedIsConfirmed
<1>2. \A o \in Orders : PaidHasId(o)'
  BY PaidHasIdStep DEF AckInv
<1>3. ASSUME NEW q \in Procs
      PROVE  /\ Acknowledging(call[q])' => order'[call'[q].order].payId
             /\ call'[q].phase = "fail" => call'[q].kind = "payment.failed"
  <2>1. CASE call'[q] = call[q]
    <3>1. call[q].order \in Orders
      BY DEF TypeOK, Calls
    <3>2. QED
      BY <2>1, <3>1, Monotone DEF AckInv, Acknowledging
  <2>2. CASE Step(q)
    BY <2>2, StepAck, FailStep
  <2>3. CASE Throw(q) \/ Die(q)
    BY <2>3, OwnCall DEF Throw, Die, Acknowledging
  <2>4. CASE \E o \in Orders : Start(q, o)
    BY <2>4, StartAck, FailStep
  <2>5. CASE UNCHANGED vars \/ \E o \in Orders : World(o) \/ Atomic(o)
    BY <2>1, <2>5 DEF World, Atomic, TakeMoney, AttemptFails, Age, MarkStaleFailed,
       LockExpires, Withdraw, Reject, CloseIfPending, vars
  <2>6. QED
    BY <2>1, <2>2, <2>3, <2>4, <2>5, OtherCalls DEF Next
<1>4. QED
  BY <1>1, <1>2, <1>3 DEF AckInv

\* At the start no event is recorded and no order is paid.
LEMMA InitAck == Init => AckInv
<1> SUFFICES ASSUME Init PROVE AckInv
  OBVIOUS
<1>1. \A p \in Procs : call[p].phase = "idle"
  BY DEF Init, NoCall
<1>2. \A o \in Orders : order[o].payment # "PAID"
  BY DEF Init, NewOrder
<1>3. \A o \in Orders : \A k \in CapturedKinds : event[o][k] # "PROCESSED"
  BY DEF Init, WebhookKinds
<1>4. QED
  BY <1>1, <1>2, <1>3 DEF AckInv, AcknowledgedIsConfirmed, PaidHasId, Acknowledging

\* What is left of CapturedIsConfirmed is that Razorpay redelivers.
THEOREM CapturesAreNotForgotten == Spec => []AcknowledgedIsConfirmed
<1>1. AckInv => AcknowledgedIsConfirmed
  BY DEF AckInv
<1>2. QED
  BY InitAck, AckInvStep, <1>1, FundsInvariant, PTL DEF Spec
=============================================================================
