--------------------- MODULE SubscriptionPaymentProofs ---------------------
(***************************************************************************)
(* Theorems about SubscriptionPayment, for every set of slots, choice of   *)
(* webhook events, and number of requests and faults.                      *)
(***************************************************************************)
EXTENDS SubscriptionPayment, FiniteSetTheorems, TLAPS

-----------------------------------------------------------------------------
\* Types. A webhook's call carries an event the business is set up for.

GoodCall(c) ==
  /\ c \in Calls
  /\ c.via = "webhook" => c.kind \in EventKinds
  /\ c.phase = "processed" => c.via = "webhook"
  /\ c.phase # "idle" => c.via # "none"

SlotsOK == call \in [Slots -> Calls] /\ \A s \in Slots : GoodCall(call[s])

TypeInv == TypeOK /\ SlotsOK

\* A slot at rest is well formed.
LEMMA RestIsGood == GoodCall(NoCall)
BY DEF GoodCall, NoCall, Calls, Phases, Vias, AllEventKinds, RefundChoices

\* Only one slot changes, to a well-formed call.
LEMMA SlotChange ==
  ASSUME SlotsOK, NEW s \in Slots, NEW c, GoodCall(c),
         call' = [call EXCEPT ![s] = c]
  PROVE  SlotsOK'
BY DEF SlotsOK, GoodCall

\* A call that ends leaves its slot at rest.
LEMMA ReturnChange ==
  ASSUME SlotsOK, NEW s \in Slots, Return(s)
  PROVE  SlotsOK'
BY RestIsGood, SlotChange DEF Return

\* A call that moves on keeps all but its phase.
LEMMA GotoChange ==
  ASSUME SlotsOK, NEW s \in Slots, NEW phase \in Phases, Goto(s, phase),
         phase = "processed" => call[s].via = "webhook",
         call[s].phase # "idle"
  PROVE  SlotsOK'
<1> DEFINE c == [call[s] EXCEPT !.phase = phase]
<1>1. call' = [call EXCEPT ![s] = c]
  BY DEF Goto, SlotsOK
<1>2. GoodCall(call[s])
  BY DEF SlotsOK
<1>3. c \in Calls /\ c.phase = phase /\ c.via = call[s].via /\ c.kind = call[s].kind
  BY <1>2 DEF GoodCall, Calls
<1> HIDE DEF c
<1>4. GoodCall(c)
  BY <1>2, <1>3 DEF GoodCall
<1>5. QED
  BY <1>1, <1>4, SlotChange

\* So does one that is done with the payment.
LEMMA ConfirmedChange ==
  ASSUME SlotsOK, NEW s \in Slots, Confirmed(s), call[s].phase # "idle"
  PROVE  SlotsOK'
<1>1. CASE call[s].via = "webhook"
  BY <1>1, GotoChange DEF Confirmed, Phases
<1>2. CASE call[s].via = "job"
  BY <1>2, GotoChange DEF Confirmed, Phases
<1>3. CASE call[s].via \notin {"webhook", "job"}
  BY <1>3, ReturnChange DEF Confirmed
<1>4. QED
  BY <1>1, <1>2, <1>3

\* A call that begins with no more than where it comes from,
LEMMA BeginPlain ==
  ASSUME SlotsOK, NEW s \in Slots, NEW phase \in Phases \ {"processed", "idle"},
         NEW via \in Vias \ {"none", "webhook"},
         Begin(s, [NoCall EXCEPT !.phase = phase, !.via = via])
  PROVE  SlotsOK'
<1> DEFINE c == [NoCall EXCEPT !.phase = phase, !.via = via]
<1>0. NoCall \in Calls /\ EventKinds \subseteq AllEventKinds
  BY RestIsGood, KindsAssumption DEF GoodCall
<1>1. c \in Calls
  BY <1>0, Zenon DEF Calls
<1>2. c.phase = phase /\ c.via = via
  BY <1>0 DEF Calls
<1> HIDE DEF c
<1>3. GoodCall(c)
  BY <1>1, <1>2 DEF GoodCall
<1>4. Begin(s, c)
  BY DEF c
<1>5. QED
  BY <1>3, <1>4, SlotChange DEF Begin

\* one that a webhook event begins,
LEMMA BeginEvent ==
  ASSUME SlotsOK, NEW s \in Slots, NEW phase \in Phases \ {"processed", "idle"},
         NEW via \in Vias \ {"none"}, NEW kind \in EventKinds,
         Begin(s, [NoCall EXCEPT !.phase = phase, !.via = via, !.kind = kind])
  PROVE  SlotsOK'
<1> DEFINE c == [NoCall EXCEPT !.phase = phase, !.via = via, !.kind = kind]
<1>0. NoCall \in Calls /\ EventKinds \subseteq AllEventKinds
  BY RestIsGood, KindsAssumption DEF GoodCall
<1>1. c \in Calls
  BY <1>0, Zenon DEF Calls
<1>2. c.phase = phase /\ c.via = via /\ c.kind = kind
  BY <1>0 DEF Calls
<1> HIDE DEF c
<1>3. GoodCall(c)
  BY <1>1, <1>2 DEF GoodCall
<1>4. Begin(s, c)
  BY DEF c
<1>5. QED
  BY <1>3, <1>4, SlotChange DEF Begin

\* a cancellation
LEMMA BeginCancel ==
  ASSUME SlotsOK, NEW s \in Slots, NEW phase \in Phases \ {"processed", "idle"},
         NEW via \in Vias \ {"none", "webhook"}, NEW refund \in RefundChoices,
         Begin(s, [NoCall EXCEPT !.phase = phase, !.via = via, !.refund = refund])
  PROVE  SlotsOK'
<1> DEFINE c == [NoCall EXCEPT !.phase = phase, !.via = via, !.refund = refund]
<1>0. NoCall \in Calls /\ EventKinds \subseteq AllEventKinds
  BY RestIsGood, KindsAssumption DEF GoodCall
<1>1. c \in Calls
  BY <1>0, Zenon DEF Calls
<1>2. c.phase = phase /\ c.via = via
  BY <1>0 DEF Calls
<1> HIDE DEF c
<1>3. GoodCall(c)
  BY <1>1, <1>2 DEF GoodCall
<1>4. Begin(s, c)
  BY DEF c
<1>5. QED
  BY <1>3, <1>4, SlotChange DEF Begin

\* and a run of the job.
LEMMA BeginCheck ==
  ASSUME SlotsOK, NEW s \in Slots, NEW phase \in Phases \ {"processed", "idle"},
         NEW via \in Vias \ {"none", "webhook"}, NEW a \in BOOLEAN,
         Begin(s, [NoCall EXCEPT !.phase = phase, !.via = via, !.aged = a])
  PROVE  SlotsOK'
<1> DEFINE c == [NoCall EXCEPT !.phase = phase, !.via = via, !.aged = a]
<1>0. NoCall \in Calls /\ EventKinds \subseteq AllEventKinds
  BY RestIsGood, KindsAssumption DEF GoodCall
<1>1. c \in Calls
  BY <1>0, Zenon DEF Calls
<1>2. c.phase = phase /\ c.via = via
  BY <1>0 DEF Calls
<1> HIDE DEF c
<1>3. GoodCall(c)
  BY <1>1, <1>2 DEF GoodCall
<1>4. Begin(s, c)
  BY DEF c
<1>5. QED
  BY <1>3, <1>4, SlotChange DEF Begin

\* At the start nothing is sold.
LEMMA InitTypeInv == Init => TypeInv
<1> SUFFICES ASSUME Init PROVE TypeInv
  OBVIOUS
<1>1. SlotsOK
  BY RestIsGood DEF Init, SlotsOK, GoodCall
<1>2. sub \in [status : Statuses, method : Methods] /\ invoice \in InvoiceStatuses
  BY DEF Init, Statuses, Methods, InvoiceStatuses
<1>3. day \in 0..2 /\ refunds \in [RefundChoices -> Nat]
  BY DEF Init
<1>4. QED
  BY <1>1, <1>2, <1>3 DEF Init, TypeInv, TypeOK, SlotsOK

\* The first step of every call.
LEMMA StartTypeInv ==
  ASSUME TypeInv, NEW p \in Procs, Start(p)
  PROVE  TypeInv'
<1> USE DEF plan, clock, history, bounds, Request
<1>0. p \in Slots /\ SlotsOK /\ TypeOK
  BY DEF Slots, TypeInv
<1>1. CASE Subscribe(p)
  <2> DEFINE phase == "order"  via == "subscribe"
  <2>0. /\ phase \in Phases \ {"processed", "idle"}
        /\ via \in Vias \ {"none", "webhook"}
        /\ Begin(p, [NoCall EXCEPT !.phase = phase, !.via = via])
    BY <1>1 DEF Subscribe, Phases, Vias
  <2> HIDE DEF phase, via
  <2>1. SlotsOK'
    BY <1>0, <2>0, BeginPlain
  <2>2. QED
    BY <1>0, <1>1, <2>1 DEF Subscribe, TypeInv, TypeOK, SlotsOK, Statuses, Methods
<1>2. CASE StartVerify(p)
  <2> DEFINE phase == "flip"  via == "verify"
  <2>0. /\ phase \in Phases \ {"processed", "idle"}
        /\ via \in Vias \ {"none", "webhook"}
        /\ Begin(p, [NoCall EXCEPT !.phase = phase, !.via = via])
    BY <1>2 DEF StartVerify, Phases, Vias
  <2> HIDE DEF phase, via
  <2>1. SlotsOK'
    BY <1>0, <2>0, BeginPlain
  <2>2. QED
    BY <1>0, <1>2, <2>1 DEF StartVerify, TypeInv, TypeOK, SlotsOK
<1>3. CASE StartMarkPaidManually(p)
  <2> DEFINE phase == "activate"  via == "markPaid"
  <2>0. /\ phase \in Phases \ {"processed", "idle"}
        /\ via \in Vias \ {"none", "webhook"}
        /\ Begin(p, [NoCall EXCEPT !.phase = phase, !.via = via])
    BY <1>3 DEF StartMarkPaidManually, Phases, Vias
  <2> HIDE DEF phase, via
  <2>1. SlotsOK'
    BY <1>0, <2>0, BeginPlain
  <2>2. QED
    BY <1>0, <1>3, <2>1 DEF StartMarkPaidManually, TypeInv, TypeOK, SlotsOK
<1>4. ASSUME NEW kind \in EventKinds, ReceiveWebhook(p, kind) PROVE TypeInv'
  <2>1. SlotsOK'
    <3> DEFINE phase == "flip"  via == "webhook"
    <3>1. /\ phase \in Phases \ {"processed", "idle"} /\ via \in Vias \ {"none"}
          /\ Begin(p, [NoCall EXCEPT !.phase = phase, !.via = via, !.kind = kind])
      BY <1>4 DEF ReceiveWebhook, Phases, Vias
    <3> HIDE DEF phase, via
    <3>2. QED
      BY <1>0, <3>1, BeginEvent
  <2>2. QED
    BY <1>0, <1>4, <2>1 DEF ReceiveWebhook, TypeInv, TypeOK, SlotsOK
<1>5. CASE StartHourly(p)
  <2> DEFINE phase == "materialize"  via == "hourly"
  <2>0. /\ phase \in Phases \ {"processed", "idle"}
        /\ via \in Vias \ {"none", "webhook"}
        /\ Begin(p, [NoCall EXCEPT !.phase = phase, !.via = via])
    BY <1>5 DEF StartHourly, Phases, Vias
  <2> HIDE DEF phase, via
  <2>1. SlotsOK'
    BY <1>0, <2>0, BeginPlain
  <2>2. QED
    BY <1>0, <1>5, <2>1 DEF StartHourly, TypeInv, TypeOK, SlotsOK
<1>6. ASSUME NEW refund \in RefundChoices, StartCancel(p, refund) PROVE TypeInv'
  <2>1. SlotsOK'
    <3> DEFINE phase == "check"  via == "cancel"
    <3>1. /\ phase \in Phases \ {"processed", "idle"}
          /\ via \in Vias \ {"none", "webhook"}
          /\ Begin(p, [NoCall EXCEPT !.phase = phase, !.via = via,
                                     !.refund = refund])
      BY <1>6 DEF StartCancel, Phases, Vias
    <3> HIDE DEF phase, via
    <3>2. QED
      BY <1>0, <3>1, BeginCancel
  <2>2. QED
    BY <1>0, <1>6, <2>1 DEF StartCancel, TypeInv, TypeOK, SlotsOK
<1>7. QED
  BY <1>1, <1>2, <1>3, <1>4, <1>5, <1>6 DEF Start

\* Every later step of a call.
LEMMA ContinueTypeInv ==
  ASSUME TypeInv, NEW s \in Slots, Continue(s)
  PROVE  TypeInv'
<1> USE DEF plan, clock, history, bounds, In
<1>0. GoodCall(call[s]) /\ call[s] \in Calls /\ SlotsOK /\ TypeOK
  BY DEF SlotsOK, GoodCall, TypeInv
<1>1. CASE CreateOrder(s)
  <2>1. SlotsOK'
    BY <1>0, <1>1, GotoChange DEF CreateOrder, Phases
  <2>2. QED
    BY <1>0, <1>1, <2>1 DEF CreateOrder, TypeInv, TypeOK, SlotsOK
<1>2. CASE CreateInvoice(s)
  <2>1. SlotsOK'
    BY <1>0, <1>2, ReturnChange DEF CreateInvoice
  <2>2. QED
    BY <1>0, <1>2, <2>1 DEF CreateInvoice, TypeInv, TypeOK, SlotsOK, InvoiceStatuses
<1>3. CASE AskRazorpay(s)
  <2>1. Goto(s, "flip") \/ Goto(s, "stale")
    BY <1>3 DEF AskRazorpay
  <2>2. SlotsOK'
    BY <1>0, <1>3, <2>1, GotoChange DEF AskRazorpay, Phases
  <2>3. QED
    BY <1>0, <1>3, <2>2 DEF AskRazorpay, TypeInv, TypeOK, SlotsOK
<1>4. CASE MarkInvoicePaid(s)
  <2>1. SlotsOK'
    BY <1>0, <1>4, GotoChange, ConfirmedChange DEF MarkInvoicePaid, Phases
  <2>2. QED
    BY <1>0, <1>4, <2>1 DEF MarkInvoicePaid, TypeInv, TypeOK, SlotsOK, InvoiceStatuses
<1>5. CASE ReadSubscription(s)
  <2>1. SlotsOK'
    BY <1>0, <1>5, GotoChange, ConfirmedChange DEF ReadSubscription, Phases
  <2>2. QED
    BY <1>0, <1>5, <2>1 DEF ReadSubscription, TypeInv, TypeOK, SlotsOK
<1>6. CASE ActivateSubscription(s)
  <2>1. SlotsOK'
    BY <1>0, <1>6, GotoChange, ConfirmedChange DEF ActivateSubscription, Phases
  <2>2. activations' \in Nat /\ sub' \in [status : Statuses, method : Methods]
    BY <1>0, <1>6 DEF ActivateSubscription, TypeOK, Statuses
  <2>3. QED
    BY <1>0, <1>6, <2>1, <2>2 DEF ActivateSubscription, TypeInv, TypeOK, SlotsOK
<1>7. CASE MaterializeOne(s)
  <2>1. SlotsOK'
    BY <1>0, <1>7, ConfirmedChange DEF MaterializeOne
  <2>2. /\ sub' \in [status : Statuses, method : Methods]
        /\ overwritten' \in Nat /\ claimed' \in BOOLEAN /\ orders' \in Nat
    <3>1. CASE day = 2
      BY <1>0, <1>7, <3>1 DEF MaterializeOne, TypeOK, Statuses
    <3>2. CASE day # 2
      BY <1>0, <1>7, <3>2 DEF MaterializeOne, TypeOK
    <3>3. QED
      BY <3>1, <3>2
  <2>3. QED
    BY <1>0, <1>7, <2>1, <2>2 DEF MaterializeOne, TypeInv, TypeOK, SlotsOK
<1>8. CASE MarkProcessed(s)
  <2>1. SlotsOK'
    BY <1>0, <1>8, ReturnChange DEF MarkProcessed
  <2>2. call[s].kind \in EventKinds
    BY <1>0, <1>8 DEF MarkProcessed, GoodCall
  <2>3. QED
    BY <1>0, <1>8, <2>1, <2>2 DEF MarkProcessed, TypeInv, TypeOK, SlotsOK
<1>9. CASE MarkStaleInvoicesFailed(s)
  <2>1. SlotsOK'
    BY <1>0, <1>9, ReturnChange DEF MarkStaleInvoicesFailed
  <2>2. QED
    BY <1>0, <1>9, <2>1
    DEF MarkStaleInvoicesFailed, TypeInv, TypeOK, SlotsOK, InvoiceStatuses
<1>10. CASE CheckCancel(s)
  <2>1. Goto(s, "unlock") \/ Goto(s, "refund") \/ Goto(s, "save")
    BY <1>10 DEF CheckCancel
  <2>2. SlotsOK'
    BY <1>0, <1>10, <2>1, GotoChange DEF CheckCancel, Phases
  <2>3. QED
    BY <1>0, <1>10, <2>2 DEF CheckCancel, TypeInv, TypeOK, SlotsOK
<1>11. CASE RefundPayment(s)
  <2>1. SlotsOK'
    BY <1>0, <1>11, GotoChange DEF RefundPayment, Phases
  <2>2. QED
    BY <1>0, <1>11, <2>1 DEF RefundPayment, TypeInv, TypeOK, SlotsOK
<1>12. CASE CancelWithRefund(s)
  <2>1. SlotsOK'
    BY <1>0, <1>12, GotoChange DEF CancelWithRefund, Phases
  <2>2. /\ sub' \in [status : Statuses, method : Methods]
        /\ refunds' \in [RefundChoices -> Nat]
    BY <1>0, <1>12 DEF CancelWithRefund, TypeOK, Statuses, Calls
  <2>3. QED
    BY <1>0, <1>12, <2>1, <2>2 DEF CancelWithRefund, TypeInv, TypeOK, SlotsOK
<1>13. CASE ReleaseRefundLock(s)
  <2>1. SlotsOK'
    BY <1>0, <1>13, ReturnChange DEF ReleaseRefundLock
  <2>2. QED
    BY <1>0, <1>13, <2>1 DEF ReleaseRefundLock, TypeInv, TypeOK, SlotsOK
<1>14. QED
  BY <1>1, <1>2, <1>3, <1>4, <1>5, <1>6, <1>7, <1>8, <1>9, <1>10, <1>11,
     <1>12, <1>13 DEF Continue

\* Every step keeps the types.
LEMMA TypeInvStep == TypeInv /\ [Next]_vars => TypeInv'
<1> USE DEF plan, clock, history, bounds
<1> SUFFICES ASSUME TypeInv, [Next]_vars PROVE TypeInv'
  OBVIOUS
<1>0. SlotsOK /\ TypeOK
  BY DEF TypeInv
<1>1. ASSUME NEW p \in Procs, Start(p) PROVE TypeInv'
  BY <1>1, StartTypeInv
<1>2. CASE StartCheck
  <2>1. Check \in Slots
    BY DEF Slots
  <2>2. SlotsOK'
    <3> DEFINE phase == IF aged THEN "stale" ELSE "ask"  via == "job"
    <3>1. /\ phase \in Phases \ {"processed", "idle"}
          /\ via \in Vias \ {"none", "webhook"} /\ aged \in BOOLEAN
      BY <1>0 DEF TypeOK, Phases, Vias
    <3>2. Begin(Check, [NoCall EXCEPT !.phase = phase, !.via = via,
                                      !.aged = aged])
      BY <1>2 DEF StartCheck
    <3> HIDE DEF phase, via
    <3>3. QED
      BY <1>0, <2>1, <3>1, <3>2, BeginCheck
  <2>3. QED
    BY <1>0, <1>2, <2>2 DEF StartCheck, TypeInv, TypeOK, SlotsOK
<1>3. ASSUME NEW s \in Slots, Continue(s) PROVE TypeInv'
  BY <1>3, ContinueTypeInv
<1>4. ASSUME NEW s \in Slots, Throw(s) PROVE TypeInv'
  <2>1. SlotsOK'
    BY <1>0, <1>4, GotoChange, ReturnChange DEF Throw, Phases, Idle
  <2>2. QED
    BY <1>0, <1>4, <2>1 DEF Throw, TypeInv, TypeOK, SlotsOK
<1>5. ASSUME NEW s \in Slots, Die(s) PROVE TypeInv'
  <2>1. SlotsOK'
    BY <1>0, <1>5, ReturnChange DEF Die
  <2>2. QED
    BY <1>0, <1>5, <2>1 DEF Die, TypeInv, TypeOK, SlotsOK
<1>6. CASE CreateManual
  BY <1>0, <1>6 DEF CreateManual, TypeInv, TypeOK, SlotsOK, Statuses, Methods
<1>7. CASE LockExpires
  BY <1>0, <1>7 DEF LockExpires, TypeInv, TypeOK, SlotsOK
<1>8. CASE Pay \/ InvoiceAges
  BY <1>0, <1>8 DEF Pay, InvoiceAges, TypeInv, TypeOK, SlotsOK
<1>9. CASE UNCHANGED vars
  BY <1>0, <1>9 DEF vars, TypeInv, TypeOK, SlotsOK
<1>10. CASE DayPasses
  <2>1. day' \in 0..2
    BY <1>0, <1>10 DEF DayPasses, TypeOK
  <2>2. QED
    BY <1>0, <1>10, <2>1 DEF DayPasses, TypeInv, TypeOK, SlotsOK
<1>11. QED
  BY <1>1, <1>2, <1>3, <1>4, <1>5, <1>6, <1>7, <1>8, <1>9, <1>10 DEF Next

\* Every variable keeps its type, and only requests ever hold the lock.
THEOREM TypeCorrect == Spec => []TypeOK
<1>1. TypeInv => TypeOK
  BY DEF TypeInv
<1>2. QED
  BY InitTypeInv, TypeInvStep, <1>1, PTL DEF Spec

-----------------------------------------------------------------------------
\* Money and activation. Each call that may activate the plan has its payment
\* behind it, and what is behind it does not go away: a captured order stays
\* captured, a PAID invoice PAID, an activated plan activated.

Selling(s) == call[s].phase \in {"order", "invoice"}

SlotInv(s) ==
  /\ Selling(s) => invoice = "none" /\ sub.status # "none"
  /\ call[s].phase \in {"flip", "read"} => razorpay = "captured"
  /\ In(s, "read") => invoice = "PAID"
  /\ call[s].phase \in {"ask", "flip", "read"} => call[s].via # "markPaid"
  /\ In(s, "activate") =>
       /\ sub.status # "none"
       /\ IF call[s].via = "markPaid" THEN sub.method = "CASH"
                                      ELSE invoice = "PAID"
  /\ In(s, "materialize") => activations = 1

RowInv ==
  /\ sub.status \in {"none", "PENDING_PAYMENT"} => activations = 0
  /\ sub.status = "ACTIVE" => activations = 1
  /\ sub.status = "none" => invoice = "none"
  /\ activations <= 1
  /\ orders = IF claimed THEN 1 ELSE 0
  /\ claimed => activations = 1
  /\ activations > 0 /\ sub.method = "RAZORPAY" => invoice = "PAID"
  /\ invoice = "PAID" => razorpay = "captured"
  /\ razorpay = "captured" => invoice # "none"

OneSale == \A r, s \in Slots : Selling(r) /\ Selling(s) => r = s

PayInv == RowInv /\ OneSale /\ \A s \in Slots : SlotInv(s)

\* At the start nothing is sold and nothing runs.
LEMMA InitPayInv == Init => PayInv
BY DEF Init, PayInv, RowInv, OneSale, SlotInv, Selling, In, NoCall

\* What no step undoes.
Onward ==
  /\ razorpay = "captured" => razorpay' = "captured"
  /\ invoice = "PAID" => invoice' = "PAID"
  /\ sub.status # "none" => sub'.status # "none" /\ sub'.method = sub.method
  /\ activations = 1 => activations' = 1

\* A step of one call keeps the invariant when the row and that call keep it.
LEMMA PayStep ==
  ASSUME PayInv, NEW s \in Slots, Onward,
         \A r \in Slots \ {s} : call'[r] = call[r],
         invoice = "none" => invoice' = "none" \/ Selling(s),
         Selling(s)' => Selling(s) \/ sub.status = "none",
         RowInv', SlotInv(s)'
  PROVE  PayInv'
<1>1. ASSUME NEW r \in Slots \ {s} PROVE SlotInv(r)'
  <2>1. Selling(r) => ~Selling(s)
    BY DEF PayInv, OneSale
  <2>2. QED
    BY <2>1 DEF PayInv, SlotInv, Selling, In, Onward
<1>2. OneSale'
  BY DEF PayInv, OneSale, SlotInv, Selling
<1>3. QED
  BY <1>1, <1>2 DEF PayInv

\* A call that is over, or past what the invariant asks of it.
LEMMA PayRests ==
  ASSUME TypeInv, NEW s \in Slots,
         \/ Return(s) \/ Confirmed(s)
         \/ \E phase \in {"stale", "processed", "check", "refund",
                          "save", "unlock"} : Goto(s, phase)
  PROVE  /\ \A r \in Slots \ {s} : call'[r] = call[r]
         /\ SlotInv(s)' /\ ~Selling(s)'
<1>1. call \in [Slots -> Calls]
  BY DEF TypeInv, TypeOK
<1>2. /\ \A r \in Slots \ {s} : call'[r] = call[r]
      /\ call'[s].phase \in {"idle", "stale", "processed", "check",
                             "refund", "save", "unlock"}
  <2>1. CASE Return(s)
    BY <1>1, <2>1 DEF Return, NoCall
  <2>2. CASE \E phase \in {"stale", "processed", "check", "refund",
                           "save", "unlock"} : Goto(s, phase)
    BY <1>1, <2>2 DEF Goto, Calls
  <2>3. Confirmed(s) => Return(s) \/ Goto(s, "processed") \/ Goto(s, "stale")
    BY DEF Confirmed
  <2>4. QED
    BY <2>1, <2>2, <2>3
<1>3. QED
  BY <1>2 DEF SlotInv, Selling, In

\* What moving on does to the slots.
LEMMA PayGoes ==
  ASSUME TypeInv, NEW s \in Slots, NEW phase, Goto(s, phase)
  PROVE  /\ \A r \in Slots \ {s} : call'[r] = call[r]
         /\ call'[s].phase = phase /\ call'[s].via = call[s].via
BY DEF TypeInv, TypeOK, Goto, Calls

\* What beginning does to them.
LEMMA PayBegins ==
  ASSUME TypeInv, NEW s \in Slots, NEW c, Begin(s, c)
  PROVE  /\ \A r \in Slots \ {s} : call'[r] = call[r]
         /\ call'[s] = c /\ Idle(s)
BY DEF TypeInv, TypeOK, Begin

\* The first step of every call.
LEMMA StartPayInv ==
  ASSUME TypeInv, PayInv, NEW p \in Procs, Start(p)
  PROVE  PayInv'
<1> USE DEF plan, clock, history, bounds, Request, In, Selling
<1>0. p \in Slots /\ NoCall \in Calls /\ sub \in [status : Statuses, method : Methods]
  BY RestIsGood DEF Slots, GoodCall, TypeInv, TypeOK
<1>1. CASE Subscribe(p)
  <2> DEFINE c == [NoCall EXCEPT !.phase = "order", !.via = "subscribe"]
  <2>1. c.phase = "order"
    BY <1>0 DEF Calls
  <2>2. Begin(p, c)
    BY <1>1 DEF Subscribe
  <2> HIDE DEF c
  <2>3. call'[p].phase = "order" /\ \A r \in Slots \ {p} : call'[r] = call[r]
    BY <1>0, <2>1, <2>2, PayBegins
  <2>4. /\ sub.status = "none" /\ sub'.status = "PENDING_PAYMENT"
        /\ UNCHANGED <<invoice, razorpay, activations, orders, claimed>>
    BY <1>1 DEF Subscribe
  <2>5. RowInv /\ invoice = "none"
    BY <2>4 DEF PayInv, RowInv
  <2>6. RowInv' /\ Onward
    BY <2>4, <2>5 DEF RowInv, Onward
  <2>7. SlotInv(p)'
    BY <2>3, <2>4, <2>5 DEF SlotInv
  <2>8. QED
    BY <1>0, <2>3, <2>4, <2>6, <2>7, PayStep
<1>2. CASE StartVerify(p)
  <2> DEFINE c == [NoCall EXCEPT !.phase = "flip", !.via = "verify"]
  <2>1. c.phase = "flip" /\ c.via # "markPaid"
    BY <1>0 DEF Calls
  <2>2. Begin(p, c) /\ razorpay = "captured" /\ UNCHANGED <<plan, claimed, history>>
    BY <1>2 DEF StartVerify
  <2> HIDE DEF c
  <2>3. /\ call'[p].phase = "flip" /\ call'[p].via # "markPaid"
        /\ \A r \in Slots \ {p} : call'[r] = call[r]
    BY <1>0, <2>1, <2>2, PayBegins
  <2>4. QED
    BY <1>0, <2>2, <2>3, PayStep DEF PayInv, RowInv, SlotInv, Onward
<1>3. CASE StartMarkPaidManually(p)
  <2> DEFINE c == [NoCall EXCEPT !.phase = "activate", !.via = "markPaid"]
  <2>1. c.phase = "activate" /\ c.via = "markPaid"
    BY <1>0 DEF Calls
  <2>2. /\ Begin(p, c) /\ UNCHANGED <<plan, claimed, history>>
        /\ sub.status = "PENDING_PAYMENT" /\ sub.method = "CASH"
    BY <1>3 DEF StartMarkPaidManually
  <2> HIDE DEF c
  <2>3. /\ call'[p].phase = "activate" /\ call'[p].via = "markPaid"
        /\ \A r \in Slots \ {p} : call'[r] = call[r]
    BY <1>0, <2>1, <2>2, PayBegins
  <2>4. QED
    BY <1>0, <2>2, <2>3, PayStep DEF PayInv, RowInv, SlotInv, Onward
<1>4. ASSUME NEW kind \in EventKinds, ReceiveWebhook(p, kind) PROVE PayInv'
  <2> DEFINE c == [NoCall EXCEPT !.phase = "flip", !.via = "webhook", !.kind = kind]
  <2>1. c.phase = "flip" /\ c.via # "markPaid"
    BY <1>0 DEF Calls
  <2>2. Begin(p, c) /\ razorpay = "captured" /\ UNCHANGED <<plan, claimed, history>>
    BY <1>4 DEF ReceiveWebhook
  <2> HIDE DEF c
  <2>3. /\ call'[p].phase = "flip" /\ call'[p].via # "markPaid"
        /\ \A r \in Slots \ {p} : call'[r] = call[r]
    BY <1>0, <2>1, <2>2, PayBegins
  <2>4. QED
    BY <1>0, <2>2, <2>3, PayStep DEF PayInv, RowInv, SlotInv, Onward
<1>5. CASE StartHourly(p)
  <2> DEFINE c == [NoCall EXCEPT !.phase = "materialize", !.via = "hourly"]
  <2>1. c.phase = "materialize"
    BY <1>0 DEF Calls
  <2>2. Begin(p, c) /\ sub.status = "ACTIVE" /\ UNCHANGED <<plan, claimed, history>>
    BY <1>5 DEF StartHourly
  <2> HIDE DEF c
  <2>3. call'[p].phase = "materialize" /\ \A r \in Slots \ {p} : call'[r] = call[r]
    BY <1>0, <2>1, <2>2, PayBegins
  <2>4. QED
    BY <1>0, <2>2, <2>3, PayStep DEF PayInv, RowInv, SlotInv, Onward
<1>6. ASSUME NEW refund \in RefundChoices, StartCancel(p, refund) PROVE PayInv'
  <2> DEFINE c == [NoCall EXCEPT !.phase = "check", !.via = "cancel",
                                 !.refund = refund]
  <2>1. c.phase = "check"
    BY <1>0 DEF Calls
  <2>2. Begin(p, c) /\ UNCHANGED <<plan, claimed, history>>
    BY <1>6 DEF StartCancel
  <2> HIDE DEF c
  <2>3. call'[p].phase = "check" /\ \A r \in Slots \ {p} : call'[r] = call[r]
    BY <1>0, <2>1, <2>2, PayBegins
  <2>4. QED
    BY <1>0, <2>2, <2>3, PayStep DEF PayInv, RowInv, SlotInv, Onward
<1>7. QED
  BY <1>1, <1>2, <1>3, <1>4, <1>5, <1>6 DEF Start

\* A step that changes nothing the invariant is about but its own slot.
LEMMA PayIdles ==
  ASSUME TypeInv, PayInv, NEW s \in Slots,
         UNCHANGED <<sub, invoice, razorpay, claimed, activations, orders>>,
         \/ Return(s) \/ Confirmed(s)
         \/ \E phase \in {"stale", "processed", "check", "refund",
                          "save", "unlock"} : Goto(s, phase)
  PROVE  PayInv'
BY PayRests, PayStep DEF PayInv, RowInv, Onward

\* Every later step of a call.
LEMMA ContinuePayInv ==
  ASSUME TypeInv, PayInv, NEW s \in Slots, Continue(s)
  PROVE  PayInv'
<1> USE DEF plan, clock, history, bounds, In
<1>0. /\ SlotInv(s) /\ RowInv /\ sub \in [status : Statuses, method : Methods]
      /\ invoice \in InvoiceStatuses /\ orders \in Nat /\ activations \in Nat
  BY DEF PayInv, TypeInv, TypeOK
<1>1. CASE CreateOrder(s)
  <2>1. /\ call[s].phase = "order" /\ razorpay' = "created" /\ Goto(s, "invoice")
        /\ UNCHANGED <<sub, invoice, claimed, activations, orders>>
    BY <1>1 DEF CreateOrder
  <2>2. call'[s].phase = "invoice" /\ \A r \in Slots \ {s} : call'[r] = call[r]
    BY <2>1, PayGoes
  <2>3. QED
    BY <1>0, <2>1, <2>2, PayStep DEF RowInv, SlotInv, Selling, Onward
<1>2. CASE CreateInvoice(s)
  <2>1. /\ call[s].phase = "invoice" /\ invoice' = "PENDING" /\ Return(s)
        /\ UNCHANGED <<sub, razorpay, claimed, activations, orders>>
    BY <1>2 DEF CreateInvoice
  <2>2. QED
    BY <1>0, <2>1, PayRests, PayStep DEF RowInv, SlotInv, Selling, Onward
<1>3. CASE AskRazorpay(s)
  <2>1. UNCHANGED <<sub, invoice, razorpay, claimed, activations, orders>>
    BY <1>3 DEF AskRazorpay
  <2>2. CASE Goto(s, "stale")
    BY <2>1, <2>2, PayIdles
  <2>3. CASE ~Goto(s, "stale")
    <3>1. Goto(s, "flip") /\ razorpay = "captured"
      BY <1>3, <2>3 DEF AskRazorpay
    <3>2. /\ call'[s].phase = "flip" /\ call'[s].via = call[s].via
          /\ call[s].via # "markPaid" /\ \A r \in Slots \ {s} : call'[r] = call[r]
      BY <1>0, <1>3, <3>1, PayGoes DEF AskRazorpay, SlotInv
    <3>3. QED
      BY <1>0, <2>1, <3>1, <3>2, PayStep DEF RowInv, SlotInv, Selling, Onward
  <2>4. QED
    BY <2>2, <2>3
<1>4. CASE MarkInvoicePaid(s)
  <2>1. /\ call[s].phase = "flip" /\ invoice' = "PAID"
        /\ UNCHANGED <<sub, razorpay, claimed, activations, orders>>
        /\ razorpay = "captured" /\ invoice # "none"
        /\ call[s].via # "markPaid"
    BY <1>0, <1>4 DEF MarkInvoicePaid, SlotInv, RowInv
  <2>2. RowInv' /\ Onward
    BY <1>0, <2>1 DEF RowInv, Onward
  <2>3. CASE Goto(s, "read")
    <3>1. /\ call'[s].phase = "read" /\ call'[s].via = call[s].via
          /\ \A r \in Slots \ {s} : call'[r] = call[r]
      BY <2>3, PayGoes
    <3>2. QED
      BY <2>1, <2>2, <3>1, PayStep DEF SlotInv, Selling
  <2>4. CASE Confirmed(s)
    BY <2>1, <2>2, <2>4, PayRests, PayStep
  <2>5. QED
    BY <1>4, <2>3, <2>4 DEF MarkInvoicePaid
<1>5. CASE ReadSubscription(s)
  <2>1. /\ call[s].phase = "read" /\ invoice = "PAID"
        /\ UNCHANGED <<sub, invoice, razorpay, claimed, activations, orders>>
    BY <1>0, <1>5 DEF ReadSubscription, SlotInv
  <2>2. CASE Confirmed(s)
    BY <2>1, <2>2, PayIdles
  <2>3. CASE ~Confirmed(s)
    <3>1. Goto(s, "activate") /\ sub.status = "PENDING_PAYMENT"
      BY <1>5, <2>3 DEF ReadSubscription
    <3>2. /\ call'[s].phase = "activate" /\ call'[s].via = call[s].via
          /\ \A r \in Slots \ {s} : call'[r] = call[r]
      BY <3>1, PayGoes
    <3>3. call[s].via # "markPaid"
      BY <1>0, <2>1 DEF SlotInv
    <3>4. QED
      BY <1>0, <2>1, <3>1, <3>2, <3>3, PayStep DEF RowInv, SlotInv, Selling, Onward
  <2>4. QED
    BY <2>2, <2>3
<1>6. CASE ActivateSubscription(s)
  <2>1. /\ call[s].phase = "activate"
        /\ UNCHANGED <<invoice, razorpay, claimed, orders>>
    BY <1>6 DEF ActivateSubscription
  <2>2. CASE sub.status # "PENDING_PAYMENT"
    <3>1. Confirmed(s) /\ UNCHANGED <<sub, activations>>
      BY <1>6, <2>2 DEF ActivateSubscription
    <3>2. QED
      BY <2>1, <3>1, PayIdles
  <2>3. CASE sub.status = "PENDING_PAYMENT"
    <3>1. /\ sub'.status = "ACTIVE" /\ sub'.method = sub.method
          /\ activations = 0 /\ activations' = 1
          /\ Goto(s, "materialize") \/ Confirmed(s)
      BY <1>0, <1>6, <2>3 DEF ActivateSubscription, RowInv
    <3>2. sub.method = "RAZORPAY" => invoice = "PAID"
      BY <1>0, <2>1 DEF SlotInv
    <3>3. RowInv' /\ Onward
      BY <1>0, <2>1, <2>3, <3>1, <3>2 DEF RowInv, Onward
    <3>4. CASE Goto(s, "materialize")
      <4>1. call'[s].phase = "materialize" /\ \A r \in Slots \ {s} : call'[r] = call[r]
        BY <3>4, PayGoes
      <4>2. QED
        BY <2>1, <3>1, <3>3, <4>1, PayStep DEF SlotInv, Selling
    <3>5. CASE Confirmed(s)
      BY <2>1, <3>3, <3>5, PayRests, PayStep
    <3>6. QED
      BY <3>1, <3>4, <3>5
  <2>4. QED
    BY <2>2, <2>3
<1>7. CASE MaterializeOne(s)
  <2>1. /\ activations = 1 /\ Confirmed(s)
        /\ UNCHANGED <<invoice, razorpay, activations>>
    BY <1>0, <1>7 DEF MaterializeOne, SlotInv
  <2>2. sub.status # "none"
    BY <1>0, <2>1 DEF RowInv
  <2>3. /\ sub'.method = sub.method /\ sub'.status \in {sub.status, "EXPIRED"}
        /\ \/ UNCHANGED <<claimed, orders>>
           \/ claimed' = TRUE /\ orders' = IF claimed THEN orders ELSE orders + 1
    BY <1>0, <1>7 DEF MaterializeOne
  <2>4. RowInv' /\ Onward
    BY <1>0, <2>1, <2>2, <2>3 DEF RowInv, Onward
  <2>5. QED
    BY <2>1, <2>4, PayRests, PayStep
<1>8. CASE MarkProcessed(s)
  BY <1>8, PayIdles DEF MarkProcessed
<1>9. CASE MarkStaleInvoicesFailed(s)
  <2>1. /\ Return(s) /\ UNCHANGED <<sub, razorpay, claimed, activations, orders>>
        /\ invoice' = invoice \/ (invoice = "PENDING" /\ invoice' = "FAILED")
    BY <1>9 DEF MarkStaleInvoicesFailed
  <2>2. QED
    BY <1>0, <2>1, PayRests, PayStep DEF RowInv, Onward
<1>10. CASE CheckCancel(s)
  <2>1. Goto(s, "unlock") \/ Goto(s, "refund") \/ Goto(s, "save")
    BY <1>10 DEF CheckCancel
  <2>2. QED
    BY <1>10, <2>1, PayIdles DEF CheckCancel
<1>11. CASE RefundPayment(s)
  BY <1>11, PayIdles DEF RefundPayment
<1>12. CASE CancelWithRefund(s)
  <2>1. /\ Goto(s, "unlock") /\ sub'.method = sub.method
        /\ sub'.status \in {sub.status, "CANCELLED"}
        /\ UNCHANGED <<invoice, razorpay, claimed, activations, orders>>
    BY <1>0, <1>12 DEF CancelWithRefund
  <2>2. RowInv' /\ Onward
    BY <1>0, <2>1 DEF RowInv, Onward
  <2>3. QED
    BY <2>1, <2>2, PayRests, PayStep
<1>13. CASE ReleaseRefundLock(s)
  BY <1>13, PayIdles DEF ReleaseRefundLock
<1>14. QED
  BY <1>1, <1>2, <1>3, <1>4, <1>5, <1>6, <1>7, <1>8, <1>9, <1>10, <1>11,
     <1>12, <1>13 DEF Continue

\* Every step keeps the invariant.
LEMMA PayInvStep == TypeInv /\ PayInv /\ [Next]_vars => PayInv'
<1> USE DEF plan, clock, history, bounds, In, Selling
<1> SUFFICES ASSUME TypeInv, PayInv, [Next]_vars PROVE PayInv'
  OBVIOUS
<1>0. /\ NoCall \in Calls /\ RowInv
      /\ sub \in [status : Statuses, method : Methods]
  BY RestIsGood DEF GoodCall, PayInv, TypeInv, TypeOK
<1>1. ASSUME NEW p \in Procs, Start(p) PROVE PayInv'
  BY <1>1, StartPayInv
<1>2. CASE StartCheck
  <2> DEFINE phase == IF aged THEN "stale" ELSE "ask"
             c == [NoCall EXCEPT !.phase = phase, !.via = "job", !.aged = aged]
  <2>1. c.phase \in {"stale", "ask"} /\ c.via = "job" /\ Check \in Slots
    BY <1>0 DEF Calls, Slots
  <2>2. Begin(Check, c) /\ UNCHANGED <<plan, claimed, history>>
    BY <1>2 DEF StartCheck
  <2> HIDE DEF phase, c
  <2>3. /\ call'[Check].phase \in {"stale", "ask"} /\ call'[Check].via = "job"
        /\ \A r \in Slots \ {Check} : call'[r] = call[r]
    BY <2>1, <2>2, PayBegins
  <2>4. QED
    BY <1>0, <2>1, <2>2, <2>3, PayStep DEF RowInv, SlotInv, Onward
<1>3. ASSUME NEW s \in Slots, Continue(s) PROVE PayInv'
  BY <1>3, ContinuePayInv
<1>4. ASSUME NEW s \in Slots, Throw(s) PROVE PayInv'
  BY <1>4, PayIdles DEF Throw
<1>5. ASSUME NEW s \in Slots, Die(s) PROVE PayInv'
  BY <1>5, PayIdles DEF Die
<1>6. CASE CreateManual
  BY <1>0, <1>6 DEF CreateManual, PayInv, RowInv, OneSale, SlotInv
<1>7. CASE LockExpires
  BY <1>7 DEF LockExpires, PayInv, RowInv, OneSale, SlotInv
<1>8. CASE Pay
  BY <1>8 DEF Pay, PayInv, RowInv, OneSale, SlotInv
<1>9. CASE InvoiceAges \/ DayPasses
  BY <1>9 DEF InvoiceAges, DayPasses, PayInv, RowInv, OneSale, SlotInv
<1>10. CASE UNCHANGED vars
  BY <1>10 DEF vars, PayInv, RowInv, OneSale, SlotInv
<1>11. QED
  BY <1>1, <1>2, <1>3, <1>4, <1>5, <1>6, <1>7, <1>8, <1>9, <1>10 DEF Next

\* Whoever confirms the payment, and however many at once: one activation, and
\* one order for the first day, made after it.
THEOREM ActivationHappensOnce == Spec => []ActivatedOnce
<1>1. TypeInv /\ PayInv => ActivatedOnce
  BY DEF TypeInv, TypeOK, PayInv, RowInv, ActivatedOnce
<1>2. QED
  BY InitTypeInv, TypeInvStep, InitPayInv, PayInvStep, <1>1, PTL DEF Spec

\* An online plan is only ever activated on a captured payment.
THEOREM ActivePlansArePaid == Spec => []ActiveIsPaid
<1>1. PayInv => ActiveIsPaid
  BY DEF PayInv, RowInv, ActiveIsPaid
<1>2. QED
  BY InitTypeInv, TypeInvStep, InitPayInv, PayInvStep, <1>1, PTL DEF Spec

-----------------------------------------------------------------------------
\* While nothing fails, a PAID invoice on a plan that still awaits its payment
\* has a call on its way to activate it.

Activating(s) == call[s].phase \in {"read", "activate"}

ServedInv ==
  faults = 0 /\ invoice = "PAID" /\ sub.status = "PENDING_PAYMENT"
    => \E s \in Slots : Activating(s)

\* A step of one call leaves the others where they are.
LEMMA OneCallMoves ==
  ASSUME TypeInv, NEW s \in Slots,
         \/ Return(s) \/ Confirmed(s) \/ \E phase \in Phases : Goto(s, phase)
         \/ \E c \in Calls : Begin(s, c)
  PROVE  \A r \in Slots \ {s} : call'[r] = call[r]
<1>1. Confirmed(s) => Return(s) \/ \E phase \in Phases : Goto(s, phase)
  BY DEF Confirmed, Phases
<1>2. QED
  BY <1>1 DEF TypeInv, TypeOK, Return, Goto, Begin

\* The call on its way stays when another call moves.
LEMMA ServedStays ==
  ASSUME ServedInv, NEW s \in Slots, ~Activating(s),
         \A r \in Slots \ {s} : call'[r] = call[r],
         faults' = 0 => faults = 0,
         invoice' = "PAID" => invoice = "PAID",
         sub'.status = "PENDING_PAYMENT" => sub.status = "PENDING_PAYMENT"
  PROVE  ServedInv'
BY DEF ServedInv, Activating

\* A new call is not yet activating, and only a new plan awaits payment anew.
LEMMA StartServedInv ==
  ASSUME TypeInv, PayInv, ServedInv, NEW p \in Procs, Start(p)
  PROVE  ServedInv'
<1> USE DEF plan, clock, history, bounds, Request
<1>0. p \in Slots /\ RowInv /\ call \in [Slots -> Calls]
  BY DEF Slots, PayInv, TypeInv, TypeOK
<1>1. \E c : Begin(p, c)
  BY DEF Start, Subscribe, StartVerify, StartMarkPaidManually, ReceiveWebhook,
         StartHourly, StartCancel
<1>2. Idle(p) /\ \A r \in Slots \ {p} : call'[r] = call[r]
  BY <1>0, <1>1 DEF Begin
<1>3. invoice' = invoice /\ faults' = faults
  BY DEF Start, Subscribe, StartVerify, StartMarkPaidManually, ReceiveWebhook,
         StartHourly, StartCancel
<1>4. sub' = sub \/ sub.status = "none"
  BY DEF Start, Subscribe, StartVerify, StartMarkPaidManually, ReceiveWebhook,
         StartHourly, StartCancel
<1>5. CASE sub.status = "none"
  BY <1>0, <1>3, <1>5 DEF RowInv, ServedInv
<1>6. CASE sub' = sub
  BY <1>0, <1>2, <1>3, <1>6, ServedStays DEF Idle, Activating
<1>7. QED
  BY <1>4, <1>5, <1>6

\* Who flips the invoice reads the plan, who finds it waiting activates it.
LEMMA ContinueServedInv ==
  ASSUME TypeInv, PayInv, ServedInv, NEW s \in Slots, Continue(s)
  PROVE  ServedInv'
<1> USE DEF plan, clock, history, bounds, In
<1>0. /\ faults \in Nat /\ sub \in [status : Statuses, method : Methods]
      /\ call \in [Slots -> Calls]
  BY DEF TypeInv, TypeOK
<1>1. \A r \in Slots \ {s} : call'[r] = call[r]
  <2>1. \/ Return(s) \/ Confirmed(s) \/ \E phase \in Phases : Goto(s, phase)
    BY DEF Continue, CreateOrder, CreateInvoice, AskRazorpay, MarkInvoicePaid,
       ReadSubscription, ActivateSubscription, MaterializeOne, MarkProcessed,
       MarkStaleInvoicesFailed, CheckCancel, RefundPayment, CancelWithRefund,
       ReleaseRefundLock, Phases
  <2>2. QED
    BY <2>1, OneCallMoves
<1>2. CASE MarkInvoicePaid(s)
  <2>1. ~Activating(s) /\ faults' = faults /\ sub' = sub
    BY <1>2 DEF MarkInvoicePaid, Activating
  <2>2. CASE invoice = "PAID"
    BY <1>1, <2>1, <2>2, ServedStays
  <2>3. CASE invoice # "PAID"
    <3>1. Goto(s, "read")
      BY <1>2, <2>3 DEF MarkInvoicePaid
    <3>2. Activating(s)'
      BY <3>1, PayGoes DEF Activating
    <3>3. QED
      BY <3>2 DEF ServedInv
  <2>4. QED
    BY <2>2, <2>3
<1>3. CASE ReadSubscription(s)
  <2>1. sub' = sub
    BY <1>3 DEF ReadSubscription
  <2>2. CASE sub.status = "PENDING_PAYMENT"
    <3>1. Goto(s, "activate")
      BY <1>3, <2>2 DEF ReadSubscription
    <3>2. Activating(s)'
      BY <3>1, PayGoes DEF Activating
    <3>3. QED
      BY <3>2 DEF ServedInv
  <2>3. QED
    BY <2>1, <2>2 DEF ServedInv
<1>4. CASE ActivateSubscription(s)
  <2>1. sub'.status # "PENDING_PAYMENT"
    BY <1>0, <1>4 DEF ActivateSubscription
  <2>2. QED
    BY <2>1 DEF ServedInv
<1>5. ASSUME CreateOrder(s) \/ CreateInvoice(s) \/ AskRazorpay(s)
             \/ MarkProcessed(s) \/ MarkStaleInvoicesFailed(s)
             \/ CheckCancel(s) \/ RefundPayment(s) \/ ReleaseRefundLock(s)
      PROVE  ServedInv'
  <2>1. ~Activating(s) /\ sub' = sub /\ (invoice' = "PAID" => invoice = "PAID")
    BY <1>5 DEF Activating, CreateOrder, CreateInvoice, AskRazorpay,
       MarkProcessed, MarkStaleInvoicesFailed, CheckCancel, RefundPayment,
       ReleaseRefundLock
  <2>2. faults' = faults \/ faults' = faults + 1
    BY <1>5 DEF CreateOrder, CreateInvoice, AskRazorpay, MarkProcessed,
       MarkStaleInvoicesFailed, CheckCancel, RefundPayment, ReleaseRefundLock
  <2>3. QED
    BY <1>0, <1>1, <2>1, <2>2, ServedStays
<1>6. CASE MaterializeOne(s) \/ CancelWithRefund(s)
  <2>1. /\ ~Activating(s) /\ invoice' = invoice /\ faults' = faults
        /\ sub'.status \in {sub.status, "EXPIRED", "CANCELLED"}
    BY <1>0, <1>6 DEF Activating, MaterializeOne, CancelWithRefund
  <2>2. QED
    BY <1>1, <2>1, ServedStays
<1>7. QED
  BY <1>2, <1>3, <1>4, <1>5, <1>6 DEF Continue

\* Every step keeps it.
LEMMA ServedInvStep == TypeInv /\ PayInv /\ ServedInv /\ [Next]_vars => ServedInv'
<1> USE DEF plan, clock, history, bounds
<1> SUFFICES ASSUME TypeInv, PayInv, ServedInv, [Next]_vars PROVE ServedInv'
  OBVIOUS
<1>0. faults \in Nat /\ RowInv /\ call \in [Slots -> Calls]
  BY DEF TypeInv, TypeOK, PayInv
<1>1. ASSUME NEW p \in Procs, Start(p) PROVE ServedInv'
  BY <1>1, StartServedInv
<1>2. CASE StartCheck
  <2>1. \E c : Begin(Check, c)
    BY <1>2 DEF StartCheck
  <2>2. /\ Check \in Slots /\ Idle(Check)
        /\ \A r \in Slots \ {Check} : call'[r] = call[r]
    BY <1>0, <2>1 DEF Begin, Slots
  <2>3. sub' = sub /\ invoice' = invoice /\ faults' = faults
    BY <1>2 DEF StartCheck
  <2>4. QED
    BY <2>2, <2>3, ServedStays DEF Idle, Activating
<1>3. ASSUME NEW s \in Slots, Continue(s) PROVE ServedInv'
  BY <1>3, ContinueServedInv
<1>4. ASSUME NEW s \in Slots, Throw(s) \/ Die(s) PROVE ServedInv'
  <2>1. faults' # 0
    BY <1>0, <1>4 DEF Throw, Die
  <2>2. QED
    BY <2>1 DEF ServedInv
<1>5. CASE CreateManual
  BY <1>0, <1>5 DEF CreateManual, RowInv, ServedInv
<1>6. CASE LockExpires
  <2>1. faults' = 0 => faults = 0
    BY <1>0, <1>6 DEF LockExpires
  <2>2. QED
    BY <1>6, <2>1 DEF LockExpires, ServedInv, Activating
<1>7. CASE Pay \/ InvoiceAges \/ DayPasses
  BY <1>7 DEF Pay, InvoiceAges, DayPasses, ServedInv, Activating
<1>8. CASE UNCHANGED vars
  BY <1>8 DEF vars, ServedInv, Activating
<1>9. QED
  BY <1>1, <1>2, <1>3, <1>4, <1>5, <1>6, <1>7, <1>8 DEF Next

\* Without a fault a paid plan is never left waiting by every call that
\* confirmed it.
THEOREM PaidPlansAreServed == Spec => []PaidIsServed
<1>1. Init => ServedInv
  BY DEF Init, ServedInv
<1>2. ServedInv => PaidIsServed
  BY DEF ServedInv, Activating, PaidIsServed, Quiet, Idle
<1>3. QED
  BY InitTypeInv, TypeInvStep, InitPayInv, PayInvStep, ServedInvStep, <1>1,
     <1>2, PTL DEF Spec

-----------------------------------------------------------------------------
\* One refund, one row. A plan is owed a row for its cancellation, and none
\* is written for a plan that is cancelled.

Cancelled == IF sub.status = "CANCELLED" THEN 1 ELSE 0

RowsInv == Rows <= overwritten + Cancelled

\* What Razorpay may still be asked for: by the calls that are about to ask,
\* and by those that lost the lock before they looked at the plan.
Owing(s) == In(s, "refund") \/ (In(s, "check") /\ lock # s)
Owed == {s \in Procs : Owing(s)}

\* One refund is accounted for by the cancellation or by the lock's holder,
\* any other by an expiry that overwrote the cancellation or by a fault.
Entitled ==
  sub.status = "CANCELLED" \/ \E s \in Procs : lock = s /\ (In(s, "refund") \/ In(s, "save"))
Entitlement == IF Entitled THEN 1 ELSE 0

SentInv ==
  /\ \A s \in Slots : call[s].phase \in RefundPhases => s \in Procs
  /\ sentBack + Cardinality(Owed) <= overwritten + faults + Entitlement

\* While nothing fails a cancellation holds the lock from its first step to its
\* last, so it is alone, and what it sent back is what it is about to record.
Recording(s) == In(s, "save") /\ call[s].refund = "RAZORPAY"
Unrecorded == IF \E s \in Procs : Recording(s) THEN 1 ELSE 0

LockedInv ==
  faults = 0 =>
    /\ \A s \in Procs :
         /\ call[s].phase \in RefundPhases => lock = s
         /\ In(s, "refund") \/ In(s, "save") => sub.status # "CANCELLED"
         /\ In(s, "refund") => call[s].refund = "RAZORPAY"
    /\ sentBack = refunds["RAZORPAY"] + Unrecorded

SerialInv == RowsInv /\ SentInv /\ LockedInv

\* Arithmetic the provers find only when it is stated of constants.
LEMMA WhatIsLeft ==
  \A a, b, c, d \in Nat : a <= b /\ b + d = a + c => d <= c /\ (c = d => a = b)
OBVIOUS

LEMMA BudgetGrows ==
  \A x, a, b, c, u, v, w \in Nat :
    x <= a + b + c /\ a + c <= u + w /\ b <= v => x <= u + v + w
OBVIOUS

LEMMA OwedIsFinite == IsFiniteSet(Owed) /\ Cardinality(Owed) \in Nat
<1>1. Owed \in SUBSET Procs
  BY DEF Owed
<1>2. QED
  BY <1>1, ProcsAssumption, FS_Subset, FS_CardinalityType

\* A step of one call, or of the lock it holds, changes what is owed by that
\* call's share.
LEMMA OwedChange ==
  ASSUME NEW p \in Procs,
         \A s \in Procs \ {p} : Owing(s)' <=> Owing(s)
  PROVE  /\ Cardinality(Owed) \in Nat /\ Cardinality(Owed') \in Nat
         /\ Cardinality(Owed') + (IF Owing(p) THEN 1 ELSE 0)
              = Cardinality(Owed) + (IF Owing(p)' THEN 1 ELSE 0)
<1> DEFINE new == Owed'
<1>0. IsFiniteSet(Owed) /\ Cardinality(Owed) \in Nat
  BY OwedIsFinite
<1>1. new = IF Owing(p)' THEN Owed \cup {p} ELSE Owed \ {p}
  BY DEF Owed
<1>2. p \in Owed <=> Owing(p)
  BY DEF Owed
<1> HIDE DEF new
<1>3. CASE Owing(p)'
  <2>1. new = Owed \cup {p}
    BY <1>1, <1>3
  <2>2. Cardinality(new) = IF Owing(p) THEN Cardinality(Owed)
                                       ELSE Cardinality(Owed) + 1
    BY <1>0, <1>2, <2>1, FS_AddElement
  <2>3. QED
    BY <1>0, <1>3, <2>2 DEF new
<1>4. CASE ~Owing(p)'
  <2>1. new = Owed \ {p}
    BY <1>1, <1>4
  <2>2. IsFiniteSet(new)
    BY <1>0, <2>1, FS_RemoveElement
  <2>3. Cardinality(new) = IF Owing(p) THEN Cardinality(Owed) - 1
                                       ELSE Cardinality(Owed)
    BY <1>0, <1>2, <2>1, FS_RemoveElement
  <2>4. Cardinality(new) \in Nat
    BY <2>2, FS_CardinalityType
  <2>5. QED
    BY <1>0, <1>4, <2>3, <2>4 DEF new
<1>5. QED
  BY <1>3, <1>4

\* What is no cancellation touches none of this, except that an expiry may
\* overwrite one.
NoCancellation ==
  /\ \A s \in Slots : call[s].phase \in RefundPhases \/ call[s]'.phase \in RefundPhases
                        => call'[s] = call[s]
  /\ lock' = lock /\ refunds' = refunds /\ sentBack' = sentBack
  /\ overwritten <= overwritten'
  /\ overwritten' + Cancelled' = overwritten + Cancelled
  /\ faults' \in {faults, faults + 1}

LEMMA SerialStays ==
  ASSUME TypeInv, TypeInv', SerialInv, NoCancellation
  PROVE  SerialInv'
<1> USE DEF In, RefundPhases
<1>0. /\ call \in [Slots -> Calls] /\ sentBack \in Nat /\ faults \in Nat
      /\ overwritten \in Nat /\ overwritten' \in Nat /\ refunds \in [RefundChoices -> Nat]
      /\ Procs \subseteq Slots
  BY DEF TypeInv, TypeOK, Slots
<1>1. RowsInv'
  <2>1. Rows' = Rows
    BY DEF NoCancellation, Rows
  <2>2. QED
    BY <2>1 DEF NoCancellation, SerialInv, RowsInv
<1>2. \A s \in Procs : /\ In(s, "check")' <=> In(s, "check")
                       /\ In(s, "refund")' <=> In(s, "refund")
                       /\ In(s, "save")' <=> In(s, "save")
                       /\ Owing(s)' <=> Owing(s)
                       /\ call[s].phase \in RefundPhases => call'[s] = call[s]
                       /\ call'[s].phase \in RefundPhases => call'[s] = call[s]
  BY <1>0 DEF NoCancellation, Owing
<1>3. Owed' = Owed
  BY <1>2 DEF Owed
<1>4. sub'.status = "CANCELLED" => sub.status = "CANCELLED"
  <2>1. overwritten <= overwritten' /\ overwritten' + Cancelled' = overwritten + Cancelled
    BY DEF NoCancellation
  <2>2. Cancelled \in Nat /\ Cancelled' \in Nat
    BY DEF Cancelled
  <2>3. overwritten \in Nat /\ overwritten' \in Nat
    BY <1>0
  <2>4. Cancelled' <= Cancelled
    BY <2>1, <2>2, <2>3, WhatIsLeft
  <2>5. QED
    BY <2>4 DEF Cancelled
<1>5. overwritten + Entitlement <= overwritten' + Entitlement'
  <2>1. CASE Cancelled' = Cancelled
    <3>1. Entitled' <=> Entitled
      BY <1>2, <2>1 DEF Entitled, NoCancellation, Cancelled
    <3>2. /\ Cancelled \in Nat /\ overwritten <= overwritten'
          /\ overwritten' + Cancelled' = overwritten + Cancelled
      BY DEF NoCancellation, Cancelled
    <3>3. overwritten' = overwritten
      BY <1>0, <2>1, <3>2, WhatIsLeft
    <3>4. QED
      BY <1>0, <3>1, <3>3 DEF Entitlement
  <2>2. CASE Cancelled' # Cancelled
    <3>1. overwritten' = overwritten + 1
      BY <1>0, <2>2 DEF NoCancellation, Cancelled
    <3>2. QED
      BY <1>0, <3>1 DEF Entitlement
  <2>3. QED
    BY <2>1, <2>2
<1>6. SentInv'
  <2>1. Cardinality(Owed) \in Nat
    BY OwedIsFinite
  <2>2. /\ (sentBack + Cardinality(Owed))' = sentBack + Cardinality(Owed)
        /\ sentBack + Cardinality(Owed) <= overwritten + faults + Entitlement
        /\ faults <= faults' /\ faults' \in Nat
        /\ Entitlement \in Nat /\ Entitlement' \in Nat
    BY <1>0, <1>3 DEF NoCancellation, SerialInv, SentInv, Entitlement
  <2>3. (sentBack + Cardinality(Owed))' <= (overwritten + faults + Entitlement)'
    <3> DEFINE a == sentBack + Cardinality(Owed)
               b == (sentBack + Cardinality(Owed))'
    <3>1. a \in Nat /\ b = a /\ a <= overwritten + faults + Entitlement
      BY <1>0, <2>1, <2>2
    <3> HIDE DEF a, b
    <3>2. overwritten \in Nat /\ overwritten' \in Nat /\ faults \in Nat
      BY <1>0
    <3>3. b <= overwritten' + faults' + Entitlement'
      BY <1>5, <2>2, <3>1, <3>2, BudgetGrows
    <3>4. QED
      BY <3>3 DEF b
  <2>4. QED
    BY <1>0, <2>3 DEF NoCancellation, SerialInv, SentInv
<1>7. LockedInv'
  <2>1. SUFFICES ASSUME faults' = 0 PROVE LockedInv'
    BY DEF LockedInv
  <2>2. faults = 0
    BY <1>0, <2>1 DEF NoCancellation
  <2>3. \A s \in Procs : Recording(s)' <=> Recording(s)
    BY <1>2 DEF Recording
  <2>4. Unrecorded' = Unrecorded
    BY <2>3 DEF Unrecorded
  <2>5. QED
    BY <1>2, <1>4, <2>2, <2>4 DEF NoCancellation, SerialInv, LockedInv
<1>8. QED
  BY <1>1, <1>6, <1>7 DEF SerialInv

\* A step of one cancellation keeps the account if what it adds is covered.
Share(s) == IF Owing(s) THEN 1 ELSE 0

LEMMA AccountMoves ==
  \A b, n, u, o, f, e, b2, n2, u2, o2, f2, e2 \in Nat :
    /\ b + n <= o + f + e
    /\ n2 + u = n + u2
    /\ b2 + u2 + (o + f + e) <= b + u + (o2 + f2 + e2)
    => b2 + n2 <= o2 + f2 + e2
OBVIOUS

LEMMA SentMoves ==
  ASSUME TypeInv, TypeInv', SentInv, NEW p \in Procs,
         \A s \in Slots \ {p} : call'[s] = call[s],
         \A s \in Procs \ {p} : Owing(s)' <=> Owing(s),
         sentBack' + Share(p)' + (overwritten + faults + Entitlement)
           <= sentBack + Share(p) + (overwritten' + faults' + Entitlement')
  PROVE  SentInv'
<1>1. \A s \in Slots : call'[s].phase \in RefundPhases => s \in Procs
  BY DEF SentInv
<1>2. /\ sentBack \in Nat /\ sentBack' \in Nat /\ overwritten \in Nat
      /\ overwritten' \in Nat /\ faults \in Nat /\ faults' \in Nat
  BY DEF TypeInv, TypeOK
<1>3. /\ Cardinality(Owed) \in Nat /\ Cardinality(Owed') \in Nat
      /\ Cardinality(Owed') + Share(p) = Cardinality(Owed) + Share(p)'
  BY OwedChange DEF Share
<1>4. /\ Share(p) \in Nat /\ Share(p)' \in Nat
      /\ Entitlement \in Nat /\ Entitlement' \in Nat
  BY DEF Share, Entitlement
<1>5. sentBack + Cardinality(Owed) <= overwritten + faults + Entitlement
  BY DEF SentInv
<1>6. sentBack' + Cardinality(Owed') <= overwritten' + faults' + Entitlement'
  BY <1>2, <1>3, <1>4, <1>5, AccountMoves
<1>7. QED
  BY <1>1, <1>6 DEF SentInv

\* While nothing fails the lock's holder is the only cancellation.
LEMMA AloneInLock ==
  ASSUME LockedInv, faults = 0, NEW p \in Procs, call[p].phase \in RefundPhases
  PROVE  lock = p /\ \A s \in Procs \ {p} : call[s].phase \notin RefundPhases
BY DEF LockedInv

LEMMA StartCancelSerialInv ==
  ASSUME TypeInv, TypeInv', SerialInv, NEW p \in Procs,
         NEW refund \in RefundChoices, StartCancel(p, refund)
  PROVE  SerialInv'
<1> USE DEF plan, clock, history, bounds
<1>0. /\ call \in [Slots -> Calls] /\ p \in Slots /\ Procs \subseteq Slots
      /\ None \notin Slots
      /\ sentBack \in Nat /\ overwritten \in Nat /\ faults \in Nat
  BY NoneAssumption DEF TypeInv, TypeOK, Slots
<1>1. /\ lock = None /\ lock' = p /\ Idle(p)
      /\ UNCHANGED <<sub, refunds, sentBack, overwritten, faults>>
  BY DEF StartCancel, Begin
<1>2. /\ call'[p].phase = "check"
      /\ \A s \in Slots \ {p} : call'[s] = call[s]
  BY <1>0 DEF StartCancel, Begin, NoCall, Calls
<1>3. ~Owing(p) /\ ~Owing(p)' /\ \A s \in Procs \ {p} : Owing(s)' <=> Owing(s)
  BY <1>0, <1>1, <1>2 DEF Owing, In, Idle
<1>4. Entitled' <=> Entitled
  BY <1>0, <1>1, <1>2 DEF Entitled, In
<1>5. SentInv'
  <2>1. Share(p) = 0 /\ Share(p)' = 0 /\ Entitlement' = Entitlement /\ Entitlement \in Nat
    BY <1>3, <1>4 DEF Share, Entitlement
  <2>2. QED
    BY <1>0, <1>1, <1>2, <1>3, <2>1, SentMoves DEF SerialInv
<1>6. RowsInv'
  BY <1>1 DEF SerialInv, RowsInv, Rows, Cancelled
<1>7. LockedInv'
  <2>1. SUFFICES ASSUME faults = 0 PROVE LockedInv'
    BY <1>1 DEF LockedInv
  <2>2. \A s \in Procs : call[s].phase \notin RefundPhases
    BY <1>0, <1>1, <2>1 DEF SerialInv, LockedInv
  <2>3. \A s \in Procs \ {p} : call'[s].phase \notin RefundPhases
    BY <1>0, <1>2, <2>2
  <2>4. Unrecorded = 0 /\ Unrecorded' = 0
    BY <1>2, <2>2, <2>3 DEF Unrecorded, Recording, In, RefundPhases
  <2>5. sentBack = refunds["RAZORPAY"] + 0
    BY <2>1, <2>4 DEF SerialInv, LockedInv
  <2>6. QED
    BY <1>1, <1>2, <2>3, <2>4, <2>5 DEF LockedInv, In, RefundPhases
<1>8. QED
  BY <1>5, <1>6, <1>7 DEF SerialInv

LEMMA CheckCancelSerialInv ==
  ASSUME TypeInv, TypeInv', SerialInv, NEW p \in Slots, CheckCancel(p)
  PROVE  SerialInv'
<1> USE DEF plan, clock, history, bounds
<1>0. /\ call \in [Slots -> Calls] /\ Procs \subseteq Slots
      /\ sentBack \in Nat /\ overwritten \in Nat /\ faults \in Nat
  BY DEF TypeInv, TypeOK, Slots
<1>1. /\ In(p, "check")
      /\ UNCHANGED <<sub, refunds, sentBack, overwritten, faults, lock>>
  BY DEF CheckCancel
<1>2. p \in Procs
  BY <1>1 DEF SerialInv, SentInv, In, RefundPhases
<1>3. /\ call'[p].phase \in {"unlock", "refund", "save"}
      /\ call'[p].phase # "unlock" => sub.status # "CANCELLED"
      /\ call'[p].phase = "refund" <=> call'[p].phase # "unlock" /\ call[p].refund = "RAZORPAY"
      /\ call'[p].refund = call[p].refund
      /\ \A s \in Slots \ {p} : call'[s] = call[s]
  <2> DEFINE phase == IF ~Refundable(call[p].refund) THEN "unlock"
                   ELSE IF call[p].refund = "RAZORPAY" THEN "refund" ELSE "save"
  <2>1. call' = [call EXCEPT ![p].phase = phase]
    BY DEF CheckCancel, Goto
  <2>2. /\ phase \in {"unlock", "refund", "save"}
        /\ phase # "unlock" => Refundable(call[p].refund)
        /\ phase = "refund" <=> phase # "unlock" /\ call[p].refund = "RAZORPAY"
    <3>1. CASE ~Refundable(call[p].refund)
      BY <3>1
    <3>2. CASE Refundable(call[p].refund) /\ call[p].refund = "RAZORPAY"
      BY <3>2
    <3>3. CASE Refundable(call[p].refund) /\ call[p].refund # "RAZORPAY"
      BY <3>3
    <3>4. QED
      BY <3>1, <3>2, <3>3
  <2> HIDE DEF phase
  <2>3. /\ call'[p].phase = phase /\ call'[p].refund = call[p].refund
        /\ \A s \in Slots \ {p} : call'[s] = call[s]
    BY <1>0, <2>1 DEF Calls
  <2>4. QED
    BY <2>2, <2>3 DEF Refundable
<1>4. /\ Owing(p) <=> lock # p
      /\ Owing(p)' <=> call'[p].phase = "refund"
      /\ \A s \in Procs \ {p} : Owing(s)' <=> Owing(s)
  BY <1>0, <1>1, <1>3 DEF Owing, In
<1>5. SentInv'
  <2>1. Share(p)' + Entitlement <= Share(p) + Entitlement'
    <3>1. CASE lock = p
      <4>1. Entitled <=> sub.status = "CANCELLED"
        BY <1>1, <3>1 DEF Entitled, In
      <4>2. call'[p].phase # "unlock" => Entitled'
        BY <1>1, <1>2, <1>3, <3>1 DEF Entitled, In
      <4>3. Entitled => Entitled'
        BY <1>1, <4>1 DEF Entitled
      <4>4. QED
        BY <1>3, <1>4, <3>1, <4>1, <4>2, <4>3 DEF Share, Entitlement
    <3>2. CASE lock # p
      <4>1. Entitled' <=> Entitled
        BY <1>0, <1>1, <1>3, <3>2 DEF Entitled, In
      <4>2. QED
        BY <1>4, <3>2, <4>1 DEF Share, Entitlement
    <3>3. QED
      BY <3>1, <3>2
  <2>2. /\ Share(p) \in Nat /\ Share(p)' \in Nat
        /\ Entitlement \in Nat /\ Entitlement' \in Nat
    BY DEF Share, Entitlement
  <2>3. sentBack' + Share(p)' + (overwritten + faults + Entitlement)
          <= sentBack + Share(p) + (overwritten' + faults' + Entitlement')
    BY <1>0, <1>1, <2>1, <2>2
  <2>4. QED
    BY <1>2, <1>3, <1>4, <2>3, SentMoves DEF SerialInv
<1>6. RowsInv'
  BY <1>1 DEF SerialInv, RowsInv, Rows, Cancelled
<1>7. LockedInv'
  <2>1. SUFFICES ASSUME faults = 0 PROVE LockedInv'
    BY <1>1 DEF LockedInv
  <2>2. lock = p /\ \A s \in Procs \ {p} : call[s].phase \notin RefundPhases
    BY <1>1, <1>2, <2>1, AloneInLock DEF SerialInv, In, RefundPhases
  <2>3. \A s \in Procs \ {p} : call'[s].phase \notin RefundPhases
    BY <1>0, <1>3, <2>2
  <2>4. Unrecorded = 0 /\ Unrecorded' = 0
    BY <1>1, <1>3, <2>2, <2>3 DEF Unrecorded, Recording, In, RefundPhases
  <2>5. sentBack = refunds["RAZORPAY"] + 0
    BY <2>1, <2>4 DEF SerialInv, LockedInv
  <2>6. QED
    BY <1>1, <1>3, <2>2, <2>3, <2>4, <2>5 DEF LockedInv, In, RefundPhases
<1>8. QED
  BY <1>5, <1>6, <1>7 DEF SerialInv

LEMMA RefundPaymentSerialInv ==
  ASSUME TypeInv, TypeInv', SerialInv, NEW p \in Slots, RefundPayment(p)
  PROVE  SerialInv'
<1> USE DEF plan, clock, history, bounds
<1>0. /\ call \in [Slots -> Calls] /\ Procs \subseteq Slots
      /\ refunds["RAZORPAY"] \in Nat
      /\ sentBack \in Nat /\ overwritten \in Nat /\ faults \in Nat
  BY DEF TypeInv, TypeOK, Slots, RefundChoices
<1>1. /\ In(p, "refund")
      /\ UNCHANGED <<sub, refunds, overwritten, faults, lock>>
  BY DEF RefundPayment
<1>2. p \in Procs
  BY <1>1 DEF SerialInv, SentInv, In, RefundPhases
<1>3. /\ \/ call'[p].phase = "save" /\ sentBack' = sentBack + 1
         \/ call'[p].phase = "unlock" /\ sentBack' = sentBack
      /\ call'[p].refund = call[p].refund
      /\ \A s \in Slots \ {p} : call'[s] = call[s]
  BY <1>0 DEF RefundPayment, Goto, Calls
<1>4. /\ Owing(p) /\ ~Owing(p)'
      /\ \A s \in Procs \ {p} : Owing(s)' <=> Owing(s)
  BY <1>0, <1>1, <1>3 DEF Owing, In
<1>5. SentInv'
  <2>1. /\ Share(p) = 1 /\ Share(p)' = 0
        /\ Entitlement \in Nat /\ Entitlement' \in Nat /\ Entitlement <= 1
    BY <1>4 DEF Share, Entitlement
  <2>2. call'[p].phase = "save" => Entitlement <= Entitlement'
    <3>1. SUFFICES ASSUME call'[p].phase = "save", Entitled PROVE Entitled'
      BY <2>1 DEF Entitlement
    <3>2. QED
      BY <1>0, <1>1, <1>2, <1>3, <3>1 DEF Entitled, In
  <2>3. sentBack' + Share(p)' + (overwritten + faults + Entitlement)
          <= sentBack + Share(p) + (overwritten' + faults' + Entitlement')
    BY <1>0, <1>1, <1>3, <2>1, <2>2
  <2>4. QED
    BY <1>2, <1>3, <1>4, <2>3, SentMoves DEF SerialInv
<1>6. RowsInv'
  BY <1>1 DEF SerialInv, RowsInv, Rows, Cancelled
<1>7. LockedInv'
  <2>1. SUFFICES ASSUME faults = 0 PROVE LockedInv'
    BY <1>1 DEF LockedInv
  <2>2. lock = p /\ \A s \in Procs \ {p} : call[s].phase \notin RefundPhases
    BY <1>1, <1>2, <2>1, AloneInLock DEF SerialInv, In, RefundPhases
  <2>3. \A s \in Procs \ {p} : call'[s].phase \notin RefundPhases
    BY <1>0, <1>3, <2>2
  <2>4. call[p].refund = "RAZORPAY" /\ sub.status # "CANCELLED"
    BY <1>1, <1>2, <2>1 DEF SerialInv, LockedInv
  <2>5. Unrecorded = 0
    BY <1>1, <2>2 DEF Unrecorded, Recording, In, RefundPhases
  <2>6. Unrecorded' = IF call'[p].phase = "save" THEN 1 ELSE 0
    BY <1>2, <1>3, <2>3, <2>4 DEF Unrecorded, Recording, In, RefundPhases
  <2>7. sentBack = refunds["RAZORPAY"] + 0
    BY <2>1, <2>5 DEF SerialInv, LockedInv
  <2>8. sentBack' = refunds'["RAZORPAY"] + Unrecorded'
    BY <1>0, <1>1, <1>3, <2>6, <2>7
  <2>9. QED
    BY <1>1, <1>3, <2>2, <2>3, <2>4, <2>8 DEF LockedInv, In, RefundPhases
<1>8. QED
  BY <1>5, <1>6, <1>7 DEF SerialInv

LEMMA CancelWithRefundSerialInv ==
  ASSUME TypeInv, TypeInv', SerialInv, NEW p \in Slots, CancelWithRefund(p)
  PROVE  SerialInv'
<1> USE DEF plan, clock, history, bounds
<1>0. /\ call \in [Slots -> Calls] /\ Procs \subseteq Slots
      /\ refunds \in [RefundChoices -> Nat] /\ call[p].refund \in RefundChoices
      /\ sub \in [status : Statuses, method : Methods]
      /\ sentBack \in Nat /\ overwritten \in Nat /\ faults \in Nat
  BY DEF TypeInv, TypeOK, Slots, Calls
<1>1. /\ In(p, "save")
      /\ UNCHANGED <<overwritten, sentBack, faults, lock>>
      /\ IF sub.status # "CANCELLED"
           THEN /\ sub' = [sub EXCEPT !.status = "CANCELLED"]
                /\ refunds' = [refunds EXCEPT ![call[p].refund] = @ + 1]
           ELSE UNCHANGED <<sub, refunds>>
  BY DEF CancelWithRefund
<1>2. p \in Procs
  BY <1>1 DEF SerialInv, SentInv, In, RefundPhases
<1>3. /\ call'[p].phase = "unlock"
      /\ \A s \in Slots \ {p} : call'[s] = call[s]
  BY <1>0 DEF CancelWithRefund, Goto, Calls
<1>4. /\ ~Owing(p) /\ ~Owing(p)'
      /\ \A s \in Procs \ {p} : Owing(s)' <=> Owing(s)
  BY <1>0, <1>1, <1>3 DEF Owing, In
<1>5. sub'.status = "CANCELLED"
  BY <1>0, <1>1
<1>6. SentInv'
  <2>1. /\ Share(p) = 0 /\ Share(p)' = 0
        /\ Entitlement \in Nat /\ Entitlement' = 1 /\ Entitlement <= 1
    BY <1>4, <1>5 DEF Share, Entitlement, Entitled
  <2>2. sentBack' + Share(p)' + (overwritten + faults + Entitlement)
          <= sentBack + Share(p) + (overwritten' + faults' + Entitlement')
    BY <1>0, <1>1, <2>1
  <2>3. QED
    BY <1>2, <1>3, <1>4, <2>2, SentMoves DEF SerialInv
<1>7. RowsInv'
  <2>1. CASE sub.status = "CANCELLED"
    BY <1>1, <2>1 DEF SerialInv, RowsInv, Rows, Cancelled
  <2>2. CASE sub.status # "CANCELLED"
    <3>1. Rows \in Nat /\ Rows' = Rows + 1
      BY <1>0, <1>1, <2>2 DEF Rows, RefundChoices
    <3>2. Cancelled = 0 /\ Cancelled' = 1
      BY <1>5, <2>2 DEF Cancelled
    <3>3. Rows <= overwritten + 0
      BY <3>2 DEF SerialInv, RowsInv
    <3>4. QED
      BY <1>0, <1>1, <3>1, <3>2, <3>3 DEF RowsInv
  <2>3. QED
    BY <2>1, <2>2
<1>8. LockedInv'
  <2>1. SUFFICES ASSUME faults = 0 PROVE LockedInv'
    BY <1>1 DEF LockedInv
  <2>2. lock = p /\ \A s \in Procs \ {p} : call[s].phase \notin RefundPhases
    BY <1>1, <1>2, <2>1, AloneInLock DEF SerialInv, In, RefundPhases
  <2>3. \A s \in Procs \ {p} : call'[s].phase \notin RefundPhases
    BY <1>0, <1>3, <2>2
  <2>4. sub.status # "CANCELLED"
    BY <1>1, <1>2, <2>1 DEF SerialInv, LockedInv
  <2>5. Unrecorded = IF call[p].refund = "RAZORPAY" THEN 1 ELSE 0
    BY <1>1, <1>2, <2>2 DEF Unrecorded, Recording, In, RefundPhases
  <2>6. Unrecorded' = 0
    BY <1>3, <2>3 DEF Unrecorded, Recording, In, RefundPhases
  <2>7. sentBack = refunds["RAZORPAY"] + Unrecorded
    BY <2>1 DEF SerialInv, LockedInv
  <2>8. refunds'["RAZORPAY"] = refunds["RAZORPAY"] + Unrecorded
    BY <1>0, <1>1, <2>4, <2>5 DEF RefundChoices
  <2>9. sentBack' = refunds'["RAZORPAY"] + Unrecorded'
    BY <1>0, <1>1, <2>6, <2>7, <2>8 DEF RefundChoices
  <2>10. QED
    BY <1>1, <1>3, <2>2, <2>3, <2>9 DEF LockedInv, In, RefundPhases
<1>9. QED
  BY <1>6, <1>7, <1>8 DEF SerialInv

LEMMA ReleaseSerialInv ==
  ASSUME TypeInv, TypeInv', SerialInv, NEW p \in Slots, ReleaseRefundLock(p)
  PROVE  SerialInv'
<1> USE DEF plan, clock, history, bounds
<1>0. /\ call \in [Slots -> Calls] /\ Procs \subseteq Slots /\ None \notin Slots
      /\ sentBack \in Nat /\ overwritten \in Nat /\ faults \in Nat
  BY NoneAssumption DEF TypeInv, TypeOK, Slots
<1>1. /\ In(p, "unlock")
      /\ lock' = IF lock = p THEN None ELSE lock
      /\ UNCHANGED <<sub, refunds, sentBack, overwritten, faults>>
  BY DEF ReleaseRefundLock
<1>2. p \in Procs
  BY <1>1 DEF SerialInv, SentInv, In, RefundPhases
<1>3. /\ call'[p].phase = "idle"
      /\ \A s \in Slots \ {p} : call'[s] = call[s]
  BY <1>0 DEF ReleaseRefundLock, Return, NoCall, Calls
<1>4. /\ ~Owing(p) /\ ~Owing(p)'
      /\ \A s \in Procs \ {p} : Owing(s)' <=> Owing(s)
  BY <1>0, <1>1, <1>3 DEF Owing, In
<1>5. SentInv'
  <2>1. Entitled' <=> Entitled
    BY <1>0, <1>1, <1>3 DEF Entitled, In
  <2>2. /\ Share(p) = 0 /\ Share(p)' = 0
        /\ Entitlement \in Nat /\ Entitlement' = Entitlement
    BY <1>4, <2>1 DEF Share, Entitlement
  <2>3. sentBack' + Share(p)' + (overwritten + faults + Entitlement)
          <= sentBack + Share(p) + (overwritten' + faults' + Entitlement')
    BY <1>0, <1>1, <2>2
  <2>4. QED
    BY <1>2, <1>3, <1>4, <2>3, SentMoves DEF SerialInv
<1>6. RowsInv'
  BY <1>1 DEF SerialInv, RowsInv, Rows, Cancelled
<1>7. LockedInv'
  <2>1. SUFFICES ASSUME faults = 0 PROVE LockedInv'
    BY <1>1 DEF LockedInv
  <2>2. lock = p /\ \A s \in Procs \ {p} : call[s].phase \notin RefundPhases
    BY <1>1, <1>2, <2>1, AloneInLock DEF SerialInv, In, RefundPhases
  <2>3. \A s \in Procs : call'[s].phase \notin RefundPhases
    BY <1>0, <1>3, <2>2 DEF RefundPhases
  <2>4. Unrecorded = 0 /\ Unrecorded' = 0
    BY <1>1, <2>2, <2>3 DEF Unrecorded, Recording, In, RefundPhases
  <2>5. sentBack = refunds["RAZORPAY"] + 0
    BY <2>1, <2>4 DEF SerialInv, LockedInv
  <2>6. QED
    BY <1>1, <2>3, <2>4, <2>5 DEF LockedInv, In, RefundPhases
<1>8. QED
  BY <1>5, <1>6, <1>7 DEF SerialInv

\* Losing the lock early, like a step that fails, is a fault, and each fault
\* accounts for one refund more.
LEMMA ThrowOrDieSerialInv ==
  ASSUME TypeInv, TypeInv', SerialInv, NEW p \in Slots, Throw(p) \/ Die(p)
  PROVE  SerialInv'
<1> USE DEF plan, clock, history, bounds
<1>0. /\ call \in [Slots -> Calls] /\ Procs \subseteq Slots
      /\ sentBack \in Nat /\ overwritten \in Nat /\ faults \in Nat
  BY DEF TypeInv, TypeOK, Slots
<1>1. /\ faults' = faults + 1
      /\ UNCHANGED <<sub, refunds, sentBack, overwritten, lock>>
  BY DEF Throw, Die
<1>2. /\ call'[p].phase = "idle" \/ (call'[p].phase = "unlock" /\ call[p].phase \in RefundPhases)
      /\ \A s \in Slots \ {p} : call'[s] = call[s]
  BY <1>0 DEF Throw, Die, Goto, Return, NoCall, Calls
<1>3. CASE call[p].phase \notin RefundPhases
  <2>1. Cancelled' = Cancelled
    BY <1>1 DEF Cancelled
  <2>2. \A s \in Slots : call[s].phase \in RefundPhases \/ call[s]'.phase \in RefundPhases
                           => call'[s] = call[s]
    BY <1>2, <1>3 DEF RefundPhases
  <2>3. NoCancellation
    BY <1>0, <1>1, <2>1, <2>2 DEF NoCancellation
  <2>4. QED
    BY <2>3, SerialStays
<1>4. CASE call[p].phase \in RefundPhases
  <2>1. p \in Procs
    BY <1>4 DEF SerialInv, SentInv
  <2>2. ~Owing(p)' /\ \A s \in Procs \ {p} : Owing(s)' <=> Owing(s)
    BY <1>0, <1>1, <1>2 DEF Owing, In
  <2>3. /\ Share(p) \in Nat /\ Share(p)' = 0
        /\ Entitlement \in Nat /\ Entitlement' \in Nat /\ Entitlement <= 1
    BY <2>2 DEF Share, Entitlement
  <2>4. sentBack' + Share(p)' + (overwritten + faults + Entitlement)
          <= sentBack + Share(p) + (overwritten' + faults' + Entitlement')
    BY <1>0, <1>1, <2>3
  <2>5. SentInv'
    BY <1>2, <2>1, <2>2, <2>4, SentMoves DEF SerialInv
  <2>6. RowsInv'
    BY <1>1 DEF SerialInv, RowsInv, Rows, Cancelled
  <2>7. LockedInv'
    BY <1>0, <1>1 DEF LockedInv
  <2>8. QED
    BY <2>5, <2>6, <2>7 DEF SerialInv
<1>5. QED
  BY <1>3, <1>4

LEMMA LockExpiresSerialInv ==
  ASSUME TypeInv, TypeInv', SerialInv, LockExpires
  PROVE  SerialInv'
<1> USE DEF plan, clock, history, bounds
<1>0. /\ call \in [Slots -> Calls] /\ Procs \subseteq Slots /\ None \notin Slots
      /\ lock \in Procs \cup {None}
      /\ sentBack \in Nat /\ overwritten \in Nat /\ faults \in Nat
  BY NoneAssumption DEF TypeInv, TypeOK, Slots
<1>1. /\ lock \in Procs /\ lock' = None /\ call' = call
      /\ faults' = IF call[lock].phase \in RefundPhases THEN faults + 1 ELSE faults
      /\ UNCHANGED <<sub, refunds, sentBack, overwritten>>
  BY <1>0 DEF LockExpires
<1>2. PICK p \in Procs : p = lock
  BY <1>1
<1>3. /\ \A s \in Procs \ {p} : Owing(s)' <=> Owing(s)
      /\ Owing(p) <=> In(p, "refund")
      /\ Owing(p)' <=> In(p, "refund") \/ In(p, "check")
  BY <1>0, <1>1, <1>2 DEF Owing, In
<1>4. /\ Entitled <=> sub.status = "CANCELLED" \/ In(p, "refund") \/ In(p, "save")
      /\ Entitled' <=> sub.status = "CANCELLED"
  BY <1>0, <1>1, <1>2 DEF Entitled, In
<1>5. SentInv'
  <2>1. /\ Share(p) \in Nat /\ Share(p)' \in Nat
        /\ Entitlement \in Nat /\ Entitlement' \in Nat
    BY DEF Share, Entitlement
  <2>2. Share(p)' + (faults + Entitlement) <= Share(p) + (faults' + Entitlement')
    <3>1. CASE In(p, "check")
      BY <1>0, <1>1, <1>2, <1>3, <1>4, <3>1 DEF Share, Entitlement, In, RefundPhases
    <3>2. CASE In(p, "refund") \/ In(p, "save")
      BY <1>0, <1>1, <1>2, <1>3, <1>4, <3>2 DEF Share, Entitlement, In, RefundPhases
    <3>3. CASE call[p].phase \notin {"check", "refund", "save"}
      BY <1>0, <1>1, <1>3, <1>4, <3>3 DEF Share, Entitlement, In
    <3>4. QED
      BY <3>1, <3>2, <3>3 DEF In
  <2>3. faults' \in Nat
    BY <1>0, <1>1
  <2>4. sentBack' + Share(p)' + (overwritten + faults + Entitlement)
          <= sentBack + Share(p) + (overwritten' + faults' + Entitlement')
    BY <1>0, <1>1, <2>1, <2>2, <2>3
  <2>5. QED
    BY <1>1, <1>3, <2>4, SentMoves DEF SerialInv
<1>6. RowsInv'
  BY <1>1 DEF SerialInv, RowsInv, Rows, Cancelled
<1>7. LockedInv'
  <2>1. SUFFICES ASSUME faults' = 0 PROVE LockedInv'
    BY DEF LockedInv
  <2>2. faults = 0 /\ call[p].phase \notin RefundPhases
    BY <1>0, <1>1, <1>2, <2>1
  <2>3. \A s \in Procs : call[s].phase \notin RefundPhases
    BY <1>2, <2>2 DEF SerialInv, LockedInv
  <2>4. Unrecorded = 0 /\ Unrecorded' = 0
    BY <1>1, <2>3 DEF Unrecorded, Recording, In, RefundPhases
  <2>5. sentBack = refunds["RAZORPAY"] + 0
    BY <2>2, <2>4 DEF SerialInv, LockedInv
  <2>6. QED
    BY <1>1, <2>3, <2>4, <2>5 DEF LockedInv, In, RefundPhases
<1>8. QED
  BY <1>5, <1>6, <1>7 DEF SerialInv

\* A call that is no cancellation, at its first step or a later one.
LEMMA OtherCall ==
  ASSUME TypeInv, NEW s \in Slots, call[s].phase \notin RefundPhases,
         NEW c, c.phase \notin RefundPhases, call' = [call EXCEPT ![s] = c]
  PROVE  \A r \in Slots : call[r].phase \in RefundPhases \/ call'[r].phase \in RefundPhases
                            => call'[r] = call[r]
BY DEF TypeInv, TypeOK

LEMMA OtherBegin ==
  ASSUME TypeInv, NEW s \in Slots, NEW c, c.phase \notin RefundPhases, Begin(s, c),
         UNCHANGED <<lock, refunds, sentBack, overwritten, faults>>,
         Cancelled' = Cancelled
  PROVE  NoCancellation
<1>1. call[s].phase \notin RefundPhases
  BY DEF Begin, Idle, RefundPhases
<1>2. overwritten \in Nat
  BY DEF TypeInv, TypeOK
<1>3. QED
  BY <1>1, <1>2, OtherCall DEF Begin, NoCancellation

LEMMA OtherPhase ==
  ASSUME TypeInv, NEW s \in Slots, call[s].phase \notin RefundPhases,
         NEW phase \in Phases \ RefundPhases, Goto(s, phase) \/ Return(s) \/ Confirmed(s)
  PROVE  \A r \in Slots : call[r].phase \in RefundPhases \/ call'[r].phase \in RefundPhases
                            => call'[r] = call[r]
<1>0. call \in [Slots -> Calls] /\ call[s] \in Calls
  BY DEF TypeInv, TypeOK
<1>1. NoCall.phase \notin RefundPhases
  BY DEF NoCall, RefundPhases
<1>2. \A ph \in {phase, "processed", "stale"} :
        /\ [call EXCEPT ![s].phase = ph] = [call EXCEPT ![s] = [call[s] EXCEPT !.phase = ph]]
        /\ [call[s] EXCEPT !.phase = ph].phase \notin RefundPhases
  BY <1>0 DEF Calls, RefundPhases
<1>3. CASE Return(s)
  BY <1>1, <1>3, OtherCall DEF Return
<1>4. ASSUME NEW ph \in {phase, "processed", "stale"}, Goto(s, ph)
      PROVE  \A r \in Slots : call[r].phase \in RefundPhases \/ call'[r].phase \in RefundPhases
                                => call'[r] = call[r]
  <2>1. call' = [call EXCEPT ![s] = [call[s] EXCEPT !.phase = ph]]
    BY <1>2, <1>4 DEF Goto
  <2>2. QED
    BY <1>2, <2>1, OtherCall
<1>5. Confirmed(s) => Goto(s, "processed") \/ Goto(s, "stale") \/ Return(s)
  BY DEF Confirmed
<1>6. QED
  BY <1>3, <1>4, <1>5

LEMMA StartSerialInv ==
  ASSUME TypeInv, TypeInv', SerialInv, NEW p \in Procs, Start(p)
  PROVE  SerialInv'
<1> USE DEF plan, clock, history, bounds
<1>0. p \in Slots /\ sub \in [status : Statuses, method : Methods]
  BY DEF Slots, TypeInv, TypeOK
<1>1. ASSUME NEW refund \in RefundChoices, StartCancel(p, refund) PROVE SerialInv'
  BY <1>1, StartCancelSerialInv
<1>2. CASE Subscribe(p)
  <2>1. [NoCall EXCEPT !.phase = "order", !.via = "subscribe"].phase \notin RefundPhases
    BY DEF NoCall, RefundPhases
  <2>2. Cancelled' = Cancelled
    BY <1>0, <1>2 DEF Subscribe, Cancelled
  <2>3. NoCancellation
    BY <1>0, <1>2, <2>1, <2>2, OtherBegin DEF Subscribe
  <2>4. QED
    BY <2>3, SerialStays
<1>3. CASE StartVerify(p)
  <2>1. [NoCall EXCEPT !.phase = "flip", !.via = "verify"].phase \notin RefundPhases
    BY DEF NoCall, RefundPhases
  <2>2. NoCancellation
    BY <1>0, <1>3, <2>1, OtherBegin DEF StartVerify, Cancelled
  <2>3. QED
    BY <2>2, SerialStays
<1>4. CASE StartMarkPaidManually(p)
  <2>1. [NoCall EXCEPT !.phase = "activate", !.via = "markPaid"].phase \notin RefundPhases
    BY DEF NoCall, RefundPhases
  <2>2. NoCancellation
    BY <1>0, <1>4, <2>1, OtherBegin DEF StartMarkPaidManually, Cancelled
  <2>3. QED
    BY <2>2, SerialStays
<1>5. ASSUME NEW kind \in EventKinds, ReceiveWebhook(p, kind) PROVE SerialInv'
  <2>1. [NoCall EXCEPT !.phase = "flip", !.via = "webhook", !.kind = kind].phase
          \notin RefundPhases
    BY DEF NoCall, RefundPhases
  <2>2. NoCancellation
    BY <1>0, <1>5, <2>1, OtherBegin DEF ReceiveWebhook, Cancelled
  <2>3. QED
    BY <2>2, SerialStays
<1>6. CASE StartHourly(p)
  <2>1. [NoCall EXCEPT !.phase = "materialize", !.via = "hourly"].phase \notin RefundPhases
    BY DEF NoCall, RefundPhases
  <2>2. NoCancellation
    BY <1>0, <1>6, <2>1, OtherBegin DEF StartHourly, Cancelled
  <2>3. QED
    BY <2>2, SerialStays
<1>7. QED
  BY <1>1, <1>2, <1>3, <1>4, <1>5, <1>6 DEF Start

LEMMA ContinueSerialInv ==
  ASSUME TypeInv, TypeInv', SerialInv, NEW s \in Slots, Continue(s)
  PROVE  SerialInv'
<1> USE DEF plan, clock, history, bounds
<1>0. /\ call \in [Slots -> Calls] /\ sub \in [status : Statuses, method : Methods]
      /\ overwritten \in Nat /\ faults \in Nat
  BY DEF TypeInv, TypeOK
<1>1. CASE CheckCancel(s)
  BY <1>1, CheckCancelSerialInv
<1>2. CASE RefundPayment(s)
  BY <1>2, RefundPaymentSerialInv
<1>3. CASE CancelWithRefund(s)
  BY <1>3, CancelWithRefundSerialInv
<1>4. CASE ReleaseRefundLock(s)
  BY <1>4, ReleaseSerialInv
<1>5. CASE MaterializeOne(s)
  <2>1. call[s].phase \notin RefundPhases
    BY <1>5 DEF MaterializeOne, In, RefundPhases
  <2>2. \A r \in Slots : call[r].phase \in RefundPhases \/ call'[r].phase \in RefundPhases
                           => call'[r] = call[r]
    BY <1>5, <2>1, OtherPhase DEF MaterializeOne, Phases, RefundPhases
  <2>3. /\ overwritten <= overwritten'
        /\ overwritten' + Cancelled' = overwritten + Cancelled
    BY <1>0, <1>5 DEF MaterializeOne, Cancelled
  <2>4. UNCHANGED <<lock, refunds, sentBack, faults>>
    BY <1>5 DEF MaterializeOne
  <2>5. NoCancellation
    BY <2>2, <2>3, <2>4 DEF NoCancellation
  <2>6. QED
    BY <2>5, SerialStays
<1>6. ASSUME \/ CreateOrder(s) \/ CreateInvoice(s) \/ AskRazorpay(s)
             \/ MarkInvoicePaid(s) \/ ReadSubscription(s)
             \/ ActivateSubscription(s)
             \/ MarkProcessed(s) \/ MarkStaleInvoicesFailed(s)
      PROVE  SerialInv'
  <2>1. call[s].phase \notin RefundPhases
    BY <1>6 DEF CreateOrder, CreateInvoice, AskRazorpay, MarkInvoicePaid,
       ReadSubscription, ActivateSubscription, MarkProcessed,
       MarkStaleInvoicesFailed, In, RefundPhases
  <2>2. \/ \E phase \in Phases \ RefundPhases : Goto(s, phase)
        \/ Return(s) \/ Confirmed(s)
    <3>1. {"invoice", "flip", "stale", "read", "activate", "materialize"}
            \subseteq Phases \ RefundPhases
      BY DEF Phases, RefundPhases
    <3>2. CASE CreateOrder(s) \/ CreateInvoice(s) \/ MarkProcessed(s)
               \/ MarkStaleInvoicesFailed(s)
      BY <3>1, <3>2 DEF CreateOrder, CreateInvoice, MarkProcessed, MarkStaleInvoicesFailed
    <3>3. CASE AskRazorpay(s)
      BY <3>1, <3>3 DEF AskRazorpay
    <3>4. CASE MarkInvoicePaid(s)
      BY <3>1, <3>4 DEF MarkInvoicePaid
    <3>5. CASE ReadSubscription(s)
      BY <3>1, <3>5 DEF ReadSubscription
    <3>6. CASE ActivateSubscription(s)
      BY <3>1, <3>6 DEF ActivateSubscription
    <3>7. QED
      BY <1>6, <3>2, <3>3, <3>4, <3>5, <3>6
  <2>3. \A r \in Slots : call[r].phase \in RefundPhases \/ call'[r].phase \in RefundPhases
                           => call'[r] = call[r]
    BY <2>1, <2>2, OtherPhase DEF Phases, RefundPhases
  <2>4. /\ UNCHANGED <<lock, refunds, sentBack, overwritten>>
        /\ faults' \in {faults, faults + 1}
    BY <1>6 DEF CreateOrder, CreateInvoice, AskRazorpay, MarkInvoicePaid,
       ReadSubscription, ActivateSubscription, MarkProcessed,
       MarkStaleInvoicesFailed
  <2>5. Cancelled' = Cancelled
    <3>1. sub' = sub \/ (sub.status = "PENDING_PAYMENT" /\ sub' = [sub EXCEPT !.status = "ACTIVE"])
      BY <1>6 DEF CreateOrder, CreateInvoice, AskRazorpay, MarkInvoicePaid,
         ReadSubscription, ActivateSubscription, MarkProcessed,
         MarkStaleInvoicesFailed
    <3>2. QED
      BY <1>0, <3>1 DEF Cancelled
  <2>6. NoCancellation
    BY <1>0, <2>3, <2>4, <2>5 DEF NoCancellation
  <2>7. QED
    BY <2>6, SerialStays
<1>7. QED
  BY <1>1, <1>2, <1>3, <1>4, <1>5, <1>6 DEF Continue

LEMMA InitSerialInv == Init => SerialInv
<1> SUFFICES ASSUME Init PROVE SerialInv
  OBVIOUS
<1>1. \A s \in Slots : call[s].phase = "idle"
  BY DEF Init, NoCall
<1>2. Procs \subseteq Slots
  BY DEF Slots
<1>3. Owed = {} /\ Unrecorded = 0
  BY <1>1, <1>2 DEF Owed, Owing, In, Unrecorded, Recording
<1>4. Cardinality(Owed) = 0
  BY <1>3, FS_EmptySet
<1>5. RowsInv
  BY DEF Init, RowsInv, Rows, Cancelled, RefundChoices
<1>6. SentInv
  BY <1>1, <1>4 DEF Init, SentInv, Entitlement, RefundPhases
<1>7. LockedInv
  BY <1>1, <1>2, <1>3 DEF Init, LockedInv, In, RefundPhases, RefundChoices
<1>8. QED
  BY <1>5, <1>6, <1>7 DEF SerialInv

LEMMA SerialInvStep ==
  TypeInv /\ TypeInv' /\ SerialInv /\ [Next]_vars => SerialInv'
<1> USE DEF plan, clock, history, bounds
<1> SUFFICES ASSUME TypeInv, TypeInv', SerialInv, [Next]_vars PROVE SerialInv'
  OBVIOUS
<1>0. overwritten \in Nat /\ sub \in [status : Statuses, method : Methods]
  BY DEF TypeInv, TypeOK
<1>1. ASSUME NEW p \in Procs, Start(p) PROVE SerialInv'
  BY <1>1, StartSerialInv
<1>2. CASE StartCheck
  <2> DEFINE phase == IF aged THEN "stale" ELSE "ask"
             c == [NoCall EXCEPT !.phase = phase, !.via = "job", !.aged = aged]
  <2>1. c.phase \notin RefundPhases
    BY DEF NoCall, RefundPhases
  <2>2. Begin(Check, c)
    BY <1>2 DEF StartCheck
  <2> HIDE DEF c
  <2>3. Check \in Slots
    BY DEF Slots
  <2>4. UNCHANGED <<sub, lock, refunds, sentBack, overwritten, faults>>
    BY <1>2 DEF StartCheck
  <2>5. Cancelled' = Cancelled
    BY <2>4 DEF Cancelled
  <2>6. NoCancellation
    BY <2>1, <2>2, <2>3, <2>4, <2>5, OtherBegin
  <2>7. QED
    BY <2>6, SerialStays
<1>3. ASSUME NEW s \in Slots, Continue(s) PROVE SerialInv'
  BY <1>3, ContinueSerialInv
<1>4. ASSUME NEW s \in Slots, Throw(s) \/ Die(s) PROVE SerialInv'
  BY <1>4, ThrowOrDieSerialInv
<1>5. CASE LockExpires
  BY <1>5, LockExpiresSerialInv
<1>6. CASE CreateManual \/ Pay \/ InvoiceAges \/ DayPasses \/ UNCHANGED vars
  <2>1. UNCHANGED <<lock, refunds, sentBack, overwritten, faults, call>>
    BY <1>6 DEF CreateManual, Pay, InvoiceAges, DayPasses, vars
  <2>2. Cancelled' = Cancelled
    BY <1>0, <1>6 DEF CreateManual, Pay, InvoiceAges, DayPasses, vars, Cancelled
  <2>3. NoCancellation
    BY <1>0, <2>1, <2>2 DEF NoCancellation
  <2>4. QED
    BY <2>3, SerialStays
<1>7. QED
  BY <1>1, <1>2, <1>3, <1>4, <1>5, <1>6 DEF Next

\* However many cancellations are asked for at once, Razorpay sends money back
\* once and one row is written, plus one for every fault and every cancellation
\* that an expiry overwrote; at rest, without a fault, what was sent is recorded.
THEOREM RefundsAreMadeOnce == Spec => []RefundsAreSerial
<1>1. TypeInv /\ SerialInv => RefundsAreSerial
  <2> SUFFICES ASSUME TypeInv, SerialInv PROVE RefundsAreSerial
    OBVIOUS
  <2>1. /\ sentBack \in Nat /\ overwritten \in Nat /\ faults \in Nat
        /\ refunds \in [RefundChoices -> Nat] /\ Procs \subseteq Slots
    BY DEF TypeInv, TypeOK, Slots
  <2>2. Cardinality(Owed) \in Nat /\ Entitlement \in Nat /\ Entitlement <= 1
    BY OwedIsFinite DEF Entitlement
  <2>3. sentBack + Cardinality(Owed) <= overwritten + faults + Entitlement
    BY DEF SerialInv, SentInv
  <2>4. sentBack <= 1 + faults + overwritten
    BY <2>1, <2>2, <2>3
  <2>5. Cancelled \in Nat /\ Cancelled <= 1 /\ Rows \in Nat
    BY <2>1 DEF Cancelled, Rows, RefundChoices
  <2>6. Rows <= overwritten + Cancelled
    BY DEF SerialInv, RowsInv
  <2>7. Rows <= 1 + overwritten
    BY <2>1, <2>5, <2>6
  <2>8. ASSUME Quiet, faults = 0 PROVE sentBack = refunds["RAZORPAY"]
    <3>1. Unrecorded = 0
      BY <2>1, <2>8 DEF Quiet, Idle, Unrecorded, Recording, In
    <3>2. sentBack = refunds["RAZORPAY"] + 0
      BY <2>8, <3>1 DEF SerialInv, LockedInv
    <3>3. QED
      BY <2>1, <3>2 DEF RefundChoices
  <2>9. QED
    BY <2>4, <2>7, <2>8 DEF RefundsAreSerial
<1>2. QED
  BY InitTypeInv, TypeInvStep, InitSerialInv, SerialInvStep, <1>1, PTL DEF Spec

-----------------------------------------------------------------------------
\* Where a captured payment can still be found. Of an event Razorpay stops
\* telling once its record is PROCESSED; the job asks about PENDING invoices
\* only, and marks one FAILED when it is over its 24 h.

\* No event is acknowledged for an invoice that is not PAID, and a captured
\* payment whose invoice is not PAID is on the job's list for its 24 h: no
\* order of webhooks, browser, job, errors and stops puts it where neither
\* would look.
CapturedIsInReach ==
  /\ processed # {} => invoice = "PAID"
  /\ razorpay = "captured" /\ ~aged => invoice \in {"PENDING", "PAID"}

\* A webhook past the flip has its invoice PAID; a run that began with an
\* invoice over its 24 h still finds it so.
Acknowledging(s) ==
  /\ call[s].phase \in {"read", "activate", "materialize", "processed"}
  /\ call[s].via = "webhook"

ReachInv ==
  /\ processed # {} => invoice = "PAID"
  /\ invoice = "FAILED" => aged
  /\ \A s \in Slots : /\ Acknowledging(s) \/ In(s, "processed") => invoice = "PAID"
                      /\ call[s].aged => aged

\* A step of one call keeps it, when a PAID invoice stays PAID and time goes
\* on, and that call keeps it.
LEMMA ReachFrame ==
  ASSUME ReachInv, NEW s \in Slots,
         \A r \in Slots \ {s} : call'[r] = call[r],
         invoice = "PAID" => invoice' = "PAID",
         invoice' = "FAILED" => aged',
         aged => aged',
         processed' # {} => invoice' = "PAID",
         Acknowledging(s)' \/ In(s, "processed")' => invoice' = "PAID",
         call'[s].aged => aged'
  PROVE  ReachInv'
BY DEF ReachInv, Acknowledging, In

\* Where a call goes keeps what it began with.
LEMMA ReachGoes ==
  ASSUME TypeInv, NEW s \in Slots, NEW phase, Goto(s, phase)
  PROVE  call'[s].aged = call[s].aged
BY DEF TypeInv, TypeOK, Goto, Calls

\* After confirming, a webhook acknowledges; no other call does.
LEMMA ReachConfirmed ==
  ASSUME TypeInv, NEW s \in Slots, Return(s) \/ Confirmed(s)
  PROVE  /\ \A r \in Slots \ {s} : call'[r] = call[r]
         /\ call'[s].aged => call[s].aged
         /\ call'[s].phase \in {"idle", "processed", "stale"}
         /\ call'[s].phase = "processed" => call[s].via = "webhook"
<1>1. Return(s) => call'[s].phase = "idle" /\ ~call'[s].aged
  BY DEF Return, NoCall, TypeInv, TypeOK
<1>2. \A r \in Slots \ {s} : call'[r] = call[r]
  BY OneCallMoves
<1>3. CASE Return(s)
  BY <1>1, <1>2, <1>3
<1>4. CASE call[s].via = "webhook" /\ Goto(s, "processed")
  BY <1>2, <1>4, PayGoes, ReachGoes
<1>5. CASE Goto(s, "stale")
  BY <1>2, <1>5, PayGoes, ReachGoes
<1>6. QED
  BY <1>3, <1>4, <1>5 DEF Confirmed

\* A call that returns leaves an empty slot.
LEMMA ReturnIdles ==
  ASSUME TypeInv, NEW s \in Slots, Return(s)
  PROVE  call'[s].phase = "idle" /\ ~call'[s].aged
BY DEF Return, NoCall, TypeInv, TypeOK

\* At the start nothing is captured.
LEMMA InitReachInv == Init => ReachInv
BY DEF Init, ReachInv, Acknowledging, In, NoCall

\* A new call is past no flip, and only the job's knows the age of an invoice.
LEMMA BeginReachInv ==
  ASSUME TypeInv, ReachInv, NEW s \in Slots, NEW c, Begin(s, c),
         c.phase \notin {"read", "activate", "processed"} \/ c.via = "markPaid",
         c.phase # "processed", c.phase = "materialize" => c.via = "hourly",
         c.aged => aged, UNCHANGED <<invoice, processed, aged>>
  PROVE  ReachInv'
<1>1. call'[s] = c /\ \A r \in Slots \ {s} : call'[r] = call[r]
  BY PayBegins
<1>2. ~Acknowledging(s)' /\ ~In(s, "processed")'
  BY <1>1 DEF Acknowledging, In
<1>3. QED
  BY <1>1, <1>2, ReachFrame DEF ReachInv

\* The first step of every call.
LEMMA StartReachInv ==
  ASSUME TypeInv, ReachInv, NEW s \in Slots, Start(s) \/ (s = Check /\ StartCheck)
  PROVE  ReachInv'
<1> USE DEF plan, clock
<1>0. NoCall.phase = "idle" /\ NoCall.via = "none" /\ ~NoCall.aged
  BY DEF NoCall
<1>1. CASE s = Check /\ StartCheck
  <2> DEFINE c == [NoCall EXCEPT !.phase = IF aged THEN "stale" ELSE "ask",
                                 !.via = "job", !.aged = aged]
  <2>1. c.phase \in {"stale", "ask"} /\ c.aged = aged
    BY DEF NoCall
  <2>2. Begin(s, c) /\ UNCHANGED <<invoice, processed, aged>>
    BY <1>1 DEF StartCheck
  <2> HIDE DEF c
  <2>3. QED
    BY <2>1, <2>2, BeginReachInv
<1>2. ASSUME NEW c, Begin(s, c), ~c.aged, c.phase = "flip" \/ c.phase = "order"
                                          \/ c.phase = "check",
             UNCHANGED <<invoice, processed, aged>>
      PROVE  ReachInv'
  BY <1>2, BeginReachInv
<1>3. CASE Subscribe(s)
  <2> DEFINE c == [NoCall EXCEPT !.phase = "order", !.via = "subscribe"]
  <2>1. ~c.aged /\ c.phase = "order"
    BY DEF NoCall
  <2>2. Begin(s, c) /\ UNCHANGED <<invoice, processed, aged>>
    BY <1>3 DEF Subscribe
  <2> HIDE DEF c
  <2>3. QED
    BY <1>2, <2>1, <2>2
<1>4. CASE StartVerify(s)
  <2> DEFINE c == [NoCall EXCEPT !.phase = "flip", !.via = "verify"]
  <2>1. ~c.aged /\ c.phase = "flip"
    BY DEF NoCall
  <2>2. Begin(s, c) /\ UNCHANGED <<invoice, processed, aged>>
    BY <1>4 DEF StartVerify
  <2> HIDE DEF c
  <2>3. QED
    BY <1>2, <2>1, <2>2
<1>5. ASSUME NEW kind \in EventKinds, ReceiveWebhook(s, kind) PROVE ReachInv'
  <2> DEFINE c == [NoCall EXCEPT !.phase = "flip", !.via = "webhook", !.kind = kind]
  <2>1. ~c.aged /\ c.phase = "flip"
    BY DEF NoCall
  <2>2. Begin(s, c) /\ UNCHANGED <<invoice, processed, aged>>
    BY <1>5 DEF ReceiveWebhook
  <2> HIDE DEF c
  <2>3. QED
    BY <1>2, <2>1, <2>2
<1>6. ASSUME NEW refund \in RefundChoices, StartCancel(s, refund) PROVE ReachInv'
  <2> DEFINE c == [NoCall EXCEPT !.phase = "check", !.via = "cancel",
                                 !.refund = refund]
  <2>1. ~c.aged /\ c.phase = "check"
    BY DEF NoCall
  <2>2. Begin(s, c) /\ UNCHANGED <<invoice, processed, aged>>
    BY <1>6 DEF StartCancel
  <2> HIDE DEF c
  <2>3. QED
    BY <1>2, <2>1, <2>2
<1>7. CASE StartMarkPaidManually(s)
  <2> DEFINE c == [NoCall EXCEPT !.phase = "activate", !.via = "markPaid"]
  <2>1. ~c.aged /\ c.phase = "activate" /\ c.via = "markPaid"
    BY DEF NoCall
  <2>2. Begin(s, c) /\ UNCHANGED <<invoice, processed, aged>>
    BY <1>7 DEF StartMarkPaidManually
  <2> HIDE DEF c
  <2>3. QED
    BY <2>1, <2>2, BeginReachInv
<1>8. CASE StartHourly(s)
  <2> DEFINE c == [NoCall EXCEPT !.phase = "materialize", !.via = "hourly"]
  <2>1. ~c.aged /\ c.phase = "materialize" /\ c.via = "hourly"
    BY DEF NoCall
  <2>2. Begin(s, c) /\ UNCHANGED <<invoice, processed, aged>>
    BY <1>8 DEF StartHourly
  <2> HIDE DEF c
  <2>3. QED
    BY <2>1, <2>2, BeginReachInv
<1>9. QED
  BY <1>1, <1>3, <1>4, <1>5, <1>6, <1>7, <1>8 DEF Start

\* A step that leaves invoice and events alone, and takes its call to the end
\* of confirming, or to a phase that acknowledges nothing.
LEMMA ReachMoves ==
  ASSUME TypeInv, ReachInv, NEW s \in Slots,
         UNCHANGED <<invoice, processed, aged>>,
         \/ Return(s)
         \/ Confirmed(s) /\ (call[s].via = "webhook" => invoice = "PAID")
         \/ \E phase \in Phases :
              /\ Goto(s, phase)
              /\ phase \in {"read", "activate", "materialize", "processed"} =>
                   invoice = "PAID" \/ (phase # "processed" /\ call[s].via # "webhook")
  PROVE  ReachInv'
<1> USE DEF Acknowledging, In
<1>1. \A r \in Slots \ {s} : call'[r] = call[r]
  BY OneCallMoves
<1>2. call[s].aged => aged
  BY DEF ReachInv
<1>3. CASE Return(s) \/ (Confirmed(s) /\ (call[s].via = "webhook" => invoice = "PAID"))
  <2>1. /\ call'[s].aged => aged
        /\ Acknowledging(s)' \/ In(s, "processed")' => invoice = "PAID"
    BY <1>2, <1>3, ReachConfirmed, ReturnIdles
  <2>2. QED
    BY <1>1, <2>1, ReachFrame DEF ReachInv
<1>4. ASSUME NEW phase \in Phases, Goto(s, phase),
             phase \in {"read", "activate", "materialize", "processed"} =>
               invoice = "PAID" \/ (phase # "processed" /\ call[s].via # "webhook")
      PROVE  ReachInv'
  <2>1. /\ call'[s].aged = call[s].aged /\ call'[s].phase = phase
        /\ call'[s].via = call[s].via
    BY <1>4, PayGoes, ReachGoes
  <2>2. Acknowledging(s)' \/ In(s, "processed")' => invoice = "PAID"
    BY <1>4, <2>1
  <2>3. QED
    BY <1>1, <1>2, <2>1, <2>2, ReachFrame DEF ReachInv
<1>5. QED
  BY <1>3, <1>4

\* Every other step of a call: the flip makes the invoice PAID before the
\* event is acknowledged, and only a run that began over the 24 h gives up.
LEMMA ContinueReachInv ==
  ASSUME TypeInv, PayInv, ReachInv, NEW s \in Slots, Continue(s)
  PROVE  ReachInv'
<1> USE DEF plan, clock, history, bounds, In
<1>0. SlotInv(s) /\ (Acknowledging(s) \/ In(s, "processed") => invoice = "PAID")
      /\ (call[s].aged => aged) /\ call \in [Slots -> Calls] /\ GoodCall(call[s])
  BY DEF PayInv, ReachInv, TypeInv, TypeOK, SlotsOK
<1>1. CASE CreateOrder(s) \/ AskRazorpay(s) \/ CheckCancel(s) \/ RefundPayment(s)
           \/ CancelWithRefund(s) \/ ReleaseRefundLock(s)
  <2>1. UNCHANGED <<invoice, processed, aged>>
    BY <1>1 DEF CreateOrder, AskRazorpay, CheckCancel, RefundPayment,
                CancelWithRefund, ReleaseRefundLock
  <2>2. \/ Return(s)
        \/ \E phase \in {"invoice", "flip", "stale", "unlock", "refund", "save"} :
             Goto(s, phase)
    BY <1>1 DEF CreateOrder, AskRazorpay, CheckCancel, RefundPayment,
                CancelWithRefund, ReleaseRefundLock
  <2>3. QED
    BY <2>1, <2>2, ReachMoves DEF Phases
<1>2. CASE CreateInvoice(s)
  <2>1. Return(s) /\ invoice' = "PENDING" /\ UNCHANGED <<processed, aged>>
        /\ invoice = "none"
    BY <1>0, <1>2 DEF CreateInvoice, SlotInv, Selling
  <2>2. QED
    BY <1>0, <2>1, ReachConfirmed, ReturnIdles, ReachFrame DEF ReachInv, Acknowledging
<1>3. CASE MarkInvoicePaid(s)
  <2>1. invoice' = "PAID" /\ UNCHANGED <<processed, aged>>
        /\ (Goto(s, "read") \/ Confirmed(s))
    BY <1>3 DEF MarkInvoicePaid
  <2>2. \A r \in Slots \ {s} : call'[r] = call[r]
    BY <2>1, OneCallMoves DEF Phases
  <2>3. call'[s].aged => aged
    BY <1>0, <2>1, ReachConfirmed, ReachGoes
  <2>4. QED
    BY <2>1, <2>2, <2>3, ReachFrame DEF ReachInv
<1>4. CASE ReadSubscription(s)
  <2>1. UNCHANGED <<invoice, processed, aged>> /\ invoice = "PAID"
        /\ (Goto(s, "activate") \/ Confirmed(s))
    BY <1>0, <1>4 DEF ReadSubscription, SlotInv
  <2>2. QED
    BY <2>1, ReachMoves DEF Phases
<1>5. CASE ActivateSubscription(s) \/ MaterializeOne(s)
  <2>1. UNCHANGED <<invoice, processed, aged>>
        /\ (Goto(s, "materialize") \/ Confirmed(s))
    BY <1>5 DEF ActivateSubscription, MaterializeOne
  <2>2. call[s].phase \in {"activate", "materialize"}
    BY <1>5 DEF ActivateSubscription, MaterializeOne
  <2>3. call[s].via = "webhook" => invoice = "PAID"
    BY <1>0, <2>2 DEF Acknowledging
  <2>4. QED
    BY <2>1, <2>3, ReachMoves DEF Phases
<1>6. CASE MarkProcessed(s)
  <2>1. Return(s) /\ UNCHANGED <<invoice, aged>> /\ invoice = "PAID"
    BY <1>0, <1>6 DEF MarkProcessed
  <2>2. QED
    BY <1>0, <2>1, ReachConfirmed, ReturnIdles, ReachFrame DEF ReachInv
<1>7. CASE MarkStaleInvoicesFailed(s)
  <2>1. /\ Return(s) /\ UNCHANGED <<processed, aged>>
        /\ invoice = "PAID" => invoice' = "PAID"
        /\ invoice' = "FAILED" => invoice = "FAILED" \/ call[s].aged
    BY <1>7 DEF MarkStaleInvoicesFailed
  <2>2. QED
    BY <1>0, <2>1, ReachConfirmed, ReturnIdles, ReachFrame DEF ReachInv, Acknowledging
<1>8. QED
  BY <1>1, <1>2, <1>3, <1>4, <1>5, <1>6, <1>7 DEF Continue

\* Every step keeps it.
LEMMA ReachInvStep == TypeInv /\ PayInv /\ ReachInv /\ [Next]_vars => ReachInv'
<1> USE DEF plan, clock, history, bounds
<1> SUFFICES ASSUME TypeInv, PayInv, ReachInv, [Next]_vars PROVE ReachInv'
  OBVIOUS
<1>1. ASSUME NEW p \in Procs, Start(p) PROVE ReachInv'
  BY <1>1, StartReachInv DEF Slots
<1>2. CASE StartCheck
  BY <1>2, StartReachInv DEF Slots
<1>3. ASSUME NEW s \in Slots, Continue(s) PROVE ReachInv'
  BY <1>3, ContinueReachInv
<1>4. ASSUME NEW s \in Slots, Throw(s) \/ Die(s) PROVE ReachInv'
  <2>1. UNCHANGED <<invoice, aged>> /\ (Goto(s, "unlock") \/ Return(s))
        /\ (processed' # {} => processed # {})
    BY <1>4 DEF Throw, Die
  <2>2. \A r \in Slots \ {s} : call'[r] = call[r]
    BY <2>1, OneCallMoves DEF Phases
  <2>3. /\ call'[s].aged => aged
        /\ call'[s].phase \in {"unlock", "idle"}
    BY <2>1, ReachConfirmed, ReturnIdles, ReachGoes, PayGoes DEF ReachInv
  <2>4. QED
    BY <2>1, <2>2, <2>3, ReachFrame DEF ReachInv, Acknowledging, In
<1>5. CASE CreateManual \/ LockExpires \/ Pay \/ InvoiceAges \/ DayPasses
           \/ UNCHANGED vars
  <2>1. UNCHANGED <<invoice, processed, call>> /\ (aged => aged')
    BY <1>5 DEF CreateManual, LockExpires, Pay, InvoiceAges, DayPasses, vars
  <2>2. QED
    BY <2>1 DEF ReachInv, Acknowledging, In
<1>6. QED
  BY <1>1, <1>2, <1>3, <1>4, <1>5 DEF Next

\* What is left of PaymentsAreFound is that the job runs.
THEOREM CapturesStayInReach == Spec => []CapturedIsInReach
<1>1. TypeInv /\ PayInv /\ ReachInv => CapturedIsInReach
  BY DEF TypeInv, TypeOK, InvoiceStatuses, PayInv, RowInv, ReachInv,
         CapturedIsInReach
<1>2. QED
  BY InitTypeInv, TypeInvStep, InitPayInv, PayInvStep, InitReachInv,
     ReachInvStep, <1>1, PTL DEF Spec
=============================================================================
