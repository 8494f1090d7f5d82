------------------------ MODULE SubscriptionPayment ------------------------
(***************************************************************************)
(* How one meal plan is paid for, activated and refunded.                  *)
(*                                                                         *)
(* A plan is sold online (subscribe: one Razorpay order, one invoice) or   *)
(* by the staff for cash or UPI (createManual). A captured payment is      *)
(* confirmed by the customer's browser, by either of two webhook events    *)
(* and by the payment-check job, in any order and at once; cash by Mark    *)
(* paid. Whoever flips the invoice activates the plan, and delivers its    *)
(* first day when that is due. The staff may cancel and refund meanwhile,  *)
(* under a Redis lock. A step is what happens up to the next await that    *)
(* changes something, or reads what another call may change.               *)
(***************************************************************************)
EXTENDS Naturals, FiniteSets

CONSTANTS
  Procs,        \* slots for the requests in flight: the bound on concurrency
  Check,        \* the slot of the payment-check job, which runs once at a time
  EventKinds,   \* the events the business's webhook is set up for
  MaxRequests,  \* bound: cancellations and Mark paid clicks
  MaxFaults,    \* bound: thrown errors, deaths, and locks that expire early
  None          \* nobody holds the lock

Slots == Procs \cup {Check}
AllEventKinds == {"payment.captured", "order.paid"}
Statuses == {"none", "PENDING_PAYMENT", "ACTIVE", "CANCELLED", "EXPIRED"}
Methods == {"RAZORPAY", "CASH"}
InvoiceStatuses == {"none", "PENDING", "PAID", "FAILED"}

\* A refund through Razorpay, one recorded by hand, or the record of 0 rupees
\* that cancels a plan without giving anything back.
RefundChoices == {"RAZORPAY", "MANUAL", "ZERO"}

ASSUME ProcsAssumption == IsFiniteSet(Procs)
ASSUME CheckAssumption == Check \notin Procs
ASSUME NoneAssumption == None \notin Slots
ASSUME KindsAssumption == EventKinds \subseteq AllEventKinds
ASSUME BoundsAssumption == MaxRequests \in Nat /\ MaxFaults \in Nat

VARIABLES
  sub,         \* [status, method] of the subscription row; "none" before it
  invoice,     \* the status of its Razorpay invoice
  razorpay,    \* Razorpay's order: "none", "created" or "captured"
  processed,   \* the webhook events whose record is PROCESSED
  aged,        \* the invoice is more than 24 h old
  day,         \* 0 before the plan's first day, 1 on it, 2 past its cycleEnd
  claimed,     \* lastMaterializedDate is that first day
  lock,        \* who holds refund-lock:subscription:<id>
  refunds,     \* refund rows: how many of each method
  sentBack,    \* history: refunds Razorpay made
  activations, \* history: activations that won
  orders,      \* history: orders made for the first day
  overwritten, \* history: cancellations that an expiry overwrote
  call,        \* call[s]: the call running in slot s
  requests, faults

plan == <<sub, invoice, razorpay, processed, refunds>>
clock == <<aged, day>>
history == <<sentBack, activations, orders, overwritten>>
bounds == <<requests, faults>>
vars == <<plan, clock, claimed, lock, history, call, bounds>>

-----------------------------------------------------------------------------
\* Calls in flight.

Phases == {"idle", "order", "invoice",                        \* subscribe
           "flip", "read", "activate", "materialize",         \* confirm
           "processed", "ask", "stale",
           "check", "refund", "save", "unlock"}               \* cancel
RefundPhases == {"check", "refund", "save", "unlock"}
Vias == {"none", "subscribe", "verify", "webhook", "job", "markPaid",
         "hourly", "cancel"}

NoCall == [phase |-> "idle", via |-> "none", kind |-> "order.paid",
           refund |-> "ZERO", aged |-> FALSE]

\* kind: of the webhook event, refund: what the staff chose,
\* aged: the job began when the invoice was over its 24 h.
Calls == [phase : Phases, via : Vias, kind : AllEventKinds,
          refund : RefundChoices, aged : BOOLEAN]

Idle(s) == call[s].phase = "idle"
In(s, phase) == call[s].phase = phase
Begin(s, c) == Idle(s) /\ call' = [call EXCEPT ![s] = c]
Goto(s, phase) == call' = [call EXCEPT ![s].phase = phase]
Return(s) == call' = [call EXCEPT ![s] = NoCall]
Request == requests < MaxRequests /\ requests' = requests + 1

\* What follows confirmInvoicePayment and activateSubscriptionNow.
Confirmed(s) ==
  CASE call[s].via = "webhook" -> Goto(s, "processed")
    [] call[s].via = "job" -> Goto(s, "stale")
    [] OTHER -> Return(s)

-----------------------------------------------------------------------------
\* Selling a plan: nothing is undone when a later step fails.

Subscribe(p) ==
  /\ sub.status = "none"
  /\ sub' = [status |-> "PENDING_PAYMENT", method |-> "RAZORPAY"]
  /\ Begin(p, [NoCall EXCEPT !.phase = "order", !.via = "subscribe"])
  /\ UNCHANGED <<invoice, razorpay, processed, refunds, clock, claimed, lock,
                 history, bounds>>

CreateOrder(p) ==
  /\ In(p, "order")
  /\ razorpay' = "created"
  /\ Goto(p, "invoice")
  /\ UNCHANGED <<sub, invoice, processed, refunds, clock, claimed, lock,
                 history, bounds>>

CreateInvoice(p) ==
  /\ In(p, "invoice")
  /\ invoice' = "PENDING"
  /\ Return(p)
  /\ UNCHANGED <<sub, razorpay, processed, refunds, clock, claimed, lock,
                 history, bounds>>

CreateManual ==
  /\ sub.status = "none"
  /\ sub' = [status |-> "PENDING_PAYMENT", method |-> "CASH"]
  /\ UNCHANGED <<invoice, razorpay, processed, refunds, clock, claimed, lock,
                 history, call, bounds>>

-----------------------------------------------------------------------------
\* Confirming a payment.

\* Bug: the signature is not verified.
StartVerifyUnsigned(p) ==
  /\ invoice \in {"PENDING", "FAILED"}
  /\ Begin(p, [NoCall EXCEPT !.phase = "flip", !.via = "verify"])
  /\ UNCHANGED <<plan, clock, claimed, lock, history, bounds>>

\* The signature is valid when the customer paid.
StartVerify(p) ==
  /\ invoice \in {"PENDING", "FAILED"}
  /\ razorpay = "captured"
  /\ Begin(p, [NoCall EXCEPT !.phase = "flip", !.via = "verify"])
  /\ UNCHANGED <<plan, clock, claimed, lock, history, bounds>>

\* A record that is PENDING or FAILED is treated as one that does not exist.
ReceiveWebhook(p, kind) ==
  /\ razorpay = "captured"
  /\ kind \notin processed
  /\ Begin(p, [NoCall EXCEPT !.phase = "flip", !.via = "webhook",
                             !.kind = kind])
  /\ UNCHANGED <<plan, clock, claimed, lock, history, bounds>>

\* The job lists the PENDING invoices of the last 24 h, and asks Razorpay.
StartCheck ==
  /\ invoice = "PENDING"
  /\ Begin(Check, [NoCall EXCEPT !.phase = IF aged THEN "stale" ELSE "ask",
                                 !.via = "job", !.aged = aged])
  /\ UNCHANGED <<plan, clock, claimed, lock, history, bounds>>

\* Bug: only an abandoned payment is confirmed.
AskRazorpayNever(s) ==
  /\ In(s, "ask")
  /\ Goto(s, "stale")
  /\ UNCHANGED <<plan, clock, claimed, lock, history, bounds>>

\* A lookup that fails is left for the next run.
AskRazorpay(s) ==
  /\ In(s, "ask")
  /\ \/ Goto(s, IF razorpay = "captured" THEN "flip" ELSE "stale")
        /\ UNCHANGED faults
     \/ /\ faults < MaxFaults /\ faults' = faults + 1
        /\ Goto(s, "stale")
  /\ UNCHANGED <<plan, clock, claimed, lock, history, requests>>

\* markInvoicePaidIfUnpaid, whose caller goes on if it flipped the invoice.
MarkInvoicePaid(s) ==
  /\ In(s, "flip")
  /\ invoice' = "PAID"
  /\ IF invoice # "PAID" THEN Goto(s, "read") ELSE Confirmed(s)
  /\ UNCHANGED <<sub, razorpay, processed, refunds, clock, claimed, lock,
                 history, bounds>>

\* Bug: an invoice the job flips is taken to be activated already.
ReadSubscriptionUnlessJob(s) ==
  /\ In(s, "read")
  /\ IF sub.status = "PENDING_PAYMENT" /\ call[s].via # "job"
       THEN Goto(s, "activate") ELSE Confirmed(s)
  /\ UNCHANGED <<plan, clock, claimed, lock, history, bounds>>

ReadSubscription(s) ==
  /\ In(s, "read")
  /\ IF sub.status = "PENDING_PAYMENT"
       THEN Goto(s, "activate") ELSE Confirmed(s)
  /\ UNCHANGED <<plan, clock, claimed, lock, history, bounds>>

StartMarkPaidManually(p) ==
  /\ sub.status = "PENDING_PAYMENT" /\ sub.method = "CASH"
  /\ Request
  /\ Begin(p, [NoCall EXCEPT !.phase = "activate", !.via = "markPaid"])
  /\ UNCHANGED <<plan, clock, claimed, lock, history, faults>>

\* Bug: the write does not look at the status.
ActivateSubscriptionAgain(s) ==
  /\ In(s, "activate")
  /\ sub' = [sub EXCEPT !.status = "ACTIVE"]
  /\ activations' = activations + 1
  /\ IF day > 0 THEN Goto(s, "materialize") ELSE Confirmed(s)
  /\ UNCHANGED <<invoice, razorpay, processed, refunds, clock, claimed, lock,
                 sentBack, orders, overwritten, bounds>>

\* activatePendingSubscription: one conditional write; who loses stops there.
ActivateSubscription(s) ==
  /\ In(s, "activate")
  /\ IF sub.status = "PENDING_PAYMENT"
       THEN /\ sub' = [sub EXCEPT !.status = "ACTIVE"]
            /\ activations' = activations + 1
            /\ IF day > 0 THEN Goto(s, "materialize") ELSE Confirmed(s)
       ELSE Confirmed(s) /\ UNCHANGED <<sub, activations>>
  /\ UNCHANGED <<invoice, razorpay, processed, refunds, clock, claimed, lock,
                 sentBack, orders, overwritten, bounds>>

\* The hourly job lists the ACTIVE plans and takes them one by one.
StartHourly(p) ==
  /\ sub.status = "ACTIVE" /\ day > 0
  /\ Begin(p, [NoCall EXCEPT !.phase = "materialize", !.via = "hourly"])
  /\ UNCHANGED <<plan, clock, claimed, lock, history, bounds>>

\* materializeOne: a plan past its cycleEnd expires, whatever its status is by
\* now; today's order is made by whoever claims today.
MaterializeOne(s) ==
  /\ In(s, "materialize")
  /\ IF day = 2
       THEN /\ sub' = [sub EXCEPT !.status = "EXPIRED"]
            /\ overwritten' = IF sub.status = "CANCELLED" THEN overwritten + 1
                                                          ELSE overwritten
            /\ UNCHANGED <<claimed, orders>>
       ELSE /\ claimed' = TRUE
            /\ orders' = IF claimed THEN orders ELSE orders + 1
            /\ UNCHANGED <<sub, overwritten>>
  /\ Confirmed(s)
  /\ UNCHANGED <<invoice, razorpay, processed, refunds, clock, lock, sentBack,
                 activations, bounds>>

\* Bug: the record's key and its event are mixed up.
MarkViaProcessed(p) ==
  /\ In(p, "processed")
  /\ processed' = processed \cup {call[p].via}
  /\ Return(p)
  /\ UNCHANGED <<sub, invoice, razorpay, refunds, clock, claimed, lock,
                 history, bounds>>

MarkProcessed(p) ==
  /\ In(p, "processed")
  /\ processed' = processed \cup {call[p].kind}
  /\ Return(p)
  /\ UNCHANGED <<sub, invoice, razorpay, refunds, clock, claimed, lock,
                 history, bounds>>

\* markStaleInvoicesFailed, with the window the run began with.
MarkStaleInvoicesFailed(s) ==
  /\ In(s, "stale")
  /\ invoice' = IF call[s].aged /\ invoice = "PENDING" THEN "FAILED"
                                                       ELSE invoice
  /\ Return(s)
  /\ UNCHANGED <<sub, razorpay, processed, refunds, clock, claimed, lock,
                 history, bounds>>

-----------------------------------------------------------------------------
\* Cancelling with a refund. A second call is turned away while one runs.

\* Bug: the lock is not taken.
StartCancelUnlocked(p, refund) ==
  /\ sub.status # "none"
  /\ lock' = p
  /\ Request
  /\ Begin(p, [NoCall EXCEPT !.phase = "check", !.via = "cancel",
                             !.refund = refund])
  /\ UNCHANGED <<plan, clock, claimed, history, faults>>

StartCancel(p, refund) ==
  /\ sub.status # "none"
  /\ lock = None
  /\ lock' = p
  /\ Request
  /\ Begin(p, [NoCall EXCEPT !.phase = "check", !.via = "cancel",
                             !.refund = refund])
  /\ UNCHANGED <<plan, clock, claimed, history, faults>>

\* Nothing was paid for a plan that awaits its payment, and Razorpay can only
\* give back what it captured.
Refundable(refund) ==
  /\ sub.status # "CANCELLED"
  /\ sub.status = "PENDING_PAYMENT" => refund = "ZERO"
  /\ refund = "RAZORPAY" => invoice = "PAID"

CheckCancel(p) ==
  /\ In(p, "check")
  /\ Goto(p, IF ~Refundable(call[p].refund) THEN "unlock"
             ELSE IF call[p].refund = "RAZORPAY" THEN "refund" ELSE "save")
  /\ UNCHANGED <<plan, clock, claimed, lock, history, bounds>>

\* Razorpay refuses when less is left of the payment than is asked for.
RefundPayment(p) ==
  /\ In(p, "refund")
  /\ \/ sentBack' = sentBack + 1 /\ Goto(p, "save")
     \/ sentBack > 0 /\ Goto(p, "unlock") /\ UNCHANGED sentBack
  /\ UNCHANGED <<plan, clock, claimed, lock, activations, orders, overwritten,
                 bounds>>

\* cancelWithRefund of the repository: cancel and record, once.
CancelWithRefund(p) ==
  /\ In(p, "save")
  /\ IF sub.status # "CANCELLED"
       THEN /\ sub' = [sub EXCEPT !.status = "CANCELLED"]
            /\ refunds' = [refunds EXCEPT ![call[p].refund] = @ + 1]
       ELSE UNCHANGED <<sub, refunds>>
  /\ Goto(p, "unlock")
  /\ UNCHANGED <<invoice, razorpay, processed, clock, claimed, lock, history,
                 bounds>>

ReleaseRefundLock(p) ==
  /\ In(p, "unlock")
  /\ lock' = IF lock = p THEN None ELSE lock
  /\ Return(p)
  /\ UNCHANGED <<plan, clock, claimed, history, bounds>>

-----------------------------------------------------------------------------
\* Faults, and the world outside.

\* The finally of the lock runs; a webhook's record is marked FAILED.
Throw(s) ==
  /\ ~Idle(s) /\ ~In(s, "unlock") /\ faults < MaxFaults
  /\ faults' = faults + 1
  /\ processed' = IF call[s].via = "webhook" THEN processed \ {call[s].kind}
                                             ELSE processed
  /\ IF call[s].phase \in RefundPhases THEN Goto(s, "unlock") ELSE Return(s)
  /\ UNCHANGED <<sub, invoice, razorpay, refunds, clock, claimed, lock,
                 history, requests>>

Die(s) ==
  /\ ~Idle(s) /\ faults < MaxFaults
  /\ faults' = faults + 1
  /\ Return(s)
  /\ UNCHANGED <<plan, clock, claimed, lock, history, requests>>

\* A lock outlives its 120 s when its holder died, or is slower than that.
LockExpires ==
  /\ lock # None
  /\ lock' = None
  /\ IF call[lock].phase \in RefundPhases
       THEN faults < MaxFaults /\ faults' = faults + 1
       ELSE UNCHANGED faults
  /\ UNCHANGED <<plan, clock, claimed, history, call, requests>>

\* The customer holds the Razorpay order once subscribe has answered, and may
\* pay it at any time after, also when the plan has been cancelled meanwhile.
Pay ==
  /\ invoice # "none" /\ razorpay = "created"
  /\ razorpay' = "captured"
  /\ UNCHANGED <<sub, invoice, processed, refunds, clock, claimed, lock,
                 history, call, bounds>>

InvoiceAges ==
  /\ invoice # "none" /\ ~aged
  /\ aged' = TRUE
  /\ UNCHANGED <<plan, day, claimed, lock, history, call, bounds>>

DayPasses ==
  /\ sub.status # "none" /\ day < 2
  /\ day' = day + 1
  /\ UNCHANGED <<plan, aged, claimed, lock, history, call, bounds>>

-----------------------------------------------------------------------------
Init ==
  /\ sub = [status |-> "none", method |-> "RAZORPAY"]
  /\ invoice = "none" /\ razorpay = "none"
  /\ processed = {} /\ refunds = [r \in RefundChoices |-> 0]
  /\ aged = FALSE /\ day = 0 /\ claimed = FALSE
  /\ lock = None
  /\ sentBack = 0 /\ activations = 0 /\ orders = 0 /\ overwritten = 0
  /\ call = [s \in Slots |-> NoCall]
  /\ requests = 0 /\ faults = 0

Start(p) ==
  \/ Subscribe(p) \/ StartVerify(p) \/ StartMarkPaidManually(p)
  \/ \E kind \in EventKinds : ReceiveWebhook(p, kind)
  \/ StartHourly(p)
  \/ \E refund \in RefundChoices : StartCancel(p, refund)

\* Every step of a call but its first.
Continue(s) ==
  \/ CreateOrder(s) \/ CreateInvoice(s)
  \/ AskRazorpay(s) \/ MarkInvoicePaid(s) \/ ReadSubscription(s)
  \/ ActivateSubscription(s) \/ MaterializeOne(s)
  \/ MarkProcessed(s) \/ MarkStaleInvoicesFailed(s)
  \/ CheckCancel(s) \/ RefundPayment(s) \/ CancelWithRefund(s)
  \/ ReleaseRefundLock(s)

Next ==
  \/ \E p \in Procs : Start(p)
  \/ StartCheck
  \/ \E s \in Slots : Continue(s) \/ Throw(s) \/ Die(s)
  \/ CreateManual \/ LockExpires \/ Pay \/ InvoiceAges \/ DayPasses

Spec == Init /\ [][Next]_vars

\* The job is scheduled every five minutes, and what is running goes on.
FairSpec == Spec /\ WF_vars(StartCheck) /\ \A s \in Slots : WF_vars(Continue(s))

-----------------------------------------------------------------------------
\* Properties.

Quiet == \A s \in Slots : Idle(s)

\* Every variable has its type; the lock is held by a request.
TypeOK ==
  /\ sub \in [status : Statuses, method : Methods]
  /\ invoice \in InvoiceStatuses
  /\ razorpay \in {"none", "created", "captured"}
  /\ processed \subseteq EventKinds
  /\ refunds \in [RefundChoices -> Nat]
  /\ aged \in BOOLEAN /\ day \in 0..2 /\ claimed \in BOOLEAN
  /\ lock \in Procs \cup {None}
  /\ sentBack \in Nat /\ activations \in Nat
  /\ orders \in Nat /\ overwritten \in Nat
  /\ call \in [Slots -> Calls]
  /\ requests \in Nat /\ faults \in Nat

\* Browser, two webhooks, job, two Mark paid clicks and the hourly job at once:
\* the plan is activated once, and its first day is cooked once, only then.
ActivatedOnce == activations <= 1 /\ orders <= activations

\* Nobody eats on an invoice that is not paid: an online plan that was ever
\* activated has a captured payment behind its PAID invoice.
ActiveIsPaid ==
  /\ activations > 0 /\ sub.method = "RAZORPAY" => invoice = "PAID"
  /\ invoice = "PAID" => razorpay = "captured"

\* While nothing fails, a paid plan never rests in PENDING_PAYMENT: of the
\* calls that confirm it at once, the one that flips the invoice activates.
PaidIsServed ==
  Quiet /\ faults = 0 /\ invoice = "PAID" => sub.status # "PENDING_PAYMENT"

Rows == refunds["RAZORPAY"] + refunds["MANUAL"] + refunds["ZERO"]

\* Razorpay sends money back once, and a plan has one refund row: but for a
\* fault, and but for a cancellation that an expiry overwrote (which makes the
\* plan cancellable again). At rest every refund Razorpay made is recorded.
RefundsAreSerial ==
  /\ sentBack <= 1 + faults + overwritten
  /\ Rows <= 1 + overwritten
  /\ Quiet /\ faults = 0 => sentBack = refunds["RAZORPAY"]

\* With the webhook lost and the browser closed, the job still finds a captured
\* payment within its 24 hours.
PaymentsAreFound == razorpay = "captured" ~> (invoice = "PAID" \/ aged)
=============================================================================
