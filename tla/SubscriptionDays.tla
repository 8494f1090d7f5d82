-------------------------- MODULE SubscriptionDays --------------------------
(***************************************************************************)
(* The delivery days of one subscription to a RELATIVE_DAY plan, from the  *)
(* day before its first delivery: the hourly materializer that turns today *)
(* into an order, skips and pauses, kitchen closures, disruptions, the     *)
(* hold of a cancellation request and its banking, expiry and cancelling.  *)
(*                                                                         *)
(* A plan sold for Duration days starts on day 1 and ends at cycleEnd. A   *)
(* day that is not delivered is recorded in a skip row, and whoever writes *)
(* the row also moves cycleEnd, computed from the row it read at its own   *)
(* start. As in OrderPayments a handler is a call in a slot of Procs, and  *)
(* each await that changes something, or reads what another may change, is *)
(* a step.                                                                 *)
(***************************************************************************)
EXTENDS Naturals, FiniteSets, Totals

CONSTANTS
  Procs,          \* slots for calls in flight: the bound on concurrency
  Handlers,       \* the handlers that are called in this instance
  Duration,       \* deliveries the plan was sold for
  Horizon,        \* bound: the last day of the calendar
  Closed,         \* days the kitchen is closed, known from the beginning
  Notice,         \* days of notice a change needs
  MaxPause,       \* longest pause, in days
  MaxEdits,       \* bound: pauses, disruptions and cancellation requests
  MaxFaults,      \* bound: thrown errors and calls that die with their server
  QuietNights,    \* TRUE: no call is in flight at midnight
  JobNeverDown,   \* TRUE: no day passes without a materializer run
  PromptAnswers,  \* TRUE: requests are answered before the plan's last night
  OpenPauses      \* TRUE: no pause covers a day the kitchen is closed

Days == 1..Horizon
AllHandlers == {"materialize", "pause", "disrupt", "request", "cancel"}
Statuses == {"ACTIVE", "EXPIRED", "CANCELLED"}
RequestStatuses == {"NONE", "PENDING", "WITHDRAWN", "APPROVED"}

\* claimed is lastMaterializedDate, with 0 for null; next is nextPlanDayNumber.
Rows == [status : Statuses, cycleEnd : Nat, banked : Nat,
         claimed : 0..Horizon, next : Nat]
Requests == [id : Nat, status : RequestStatuses, from : Nat]

ASSUME ProcsAssumption == IsFiniteSet(Procs)
ASSUME CalendarAssumption ==
  /\ Duration \in Nat \ {0}
  /\ Horizon \in Nat
  /\ Closed \subseteq Nat
  /\ IsFiniteSet(Closed)
  /\ Notice \in Nat
ASSUME BoundsAssumption == MaxPause \in Nat /\ MaxEdits \in Nat
                             /\ MaxFaults \in Nat
ASSUME HandlersAssumption == Handlers \subseteq AllHandlers
ASSUME EnvironmentAssumption == /\ QuietNights \in BOOLEAN
                                /\ JobNeverDown \in BOOLEAN
                                /\ PromptAnswers \in BOOLEAN
                                /\ OpenPauses \in BOOLEAN

VARIABLES
  today,       \* the tenant's local date
  sub,         \* the subscription's row
  skipped,     \* days covered by some skip row
  held,        \* <<day, request>> of the hold's skip rows not yet banked
  granted,     \* sum of bankedDays over the skip rows
  disrupted,   \* sum of compensationDays over the disruption rows
  request,     \* the latest cancellation request
  delivered,   \* delivered[d]: orders created for day d
  call,        \* call[p]: the call running in slot p
  edits, throws, deaths

rows == <<sub, skipped, held, granted, disrupted, request, delivered>>
bounds == <<edits, throws, deaths>>
vars == <<today, rows, call, bounds>>

-----------------------------------------------------------------------------
\* Calls in flight.

Phases == {"idle", "materialize", "lookup", "hold", "heldSkip", "order",
           "advance", "release",                          \* materializeOne
           "calendar", "skip", "extend",              \* pause, then bank
           "request",                                     \* customer
           "findHeld", "bankHeld", "mark", "reactivate"}  \* withdraw, reject

\* saw: the subscription as read at the start. day: the claimed day, or 0.
\* from, to, n, after: the skip row to write and the banking it asks for.
NoCall == [phase |-> "idle", day |-> 0, from |-> 0, to |-> 0, n |-> 0,
           after |-> 0, req |-> 0, found |-> {},
           saw |-> [status |-> "ACTIVE", cycleEnd |-> Duration, banked |-> 0,
                    claimed |-> 0, next |-> 1]]

Calls == [phase : Phases, day : 0..Horizon, from : Nat, to : Nat, n : Nat,
          after : Nat, req : Nat, found : SUBSET Days, saw : Rows]

Idle(p) == call[p].phase = "idle"
In(p, phase) == call[p].phase = phase
Begin(p, c) == Idle(p) /\ call' = [call EXCEPT ![p] = c]
Goto(p, phase) == call' = [call EXCEPT ![p].phase = phase]
Return(p) == call' = [call EXCEPT ![p] = NoCall]

Edit == edits < MaxEdits /\ edits' = edits + 1

-----------------------------------------------------------------------------
\* Bug: the days are credited inside a pause that outlasts the plan.
BankFromCycleEnd(cycleEnd, n, after) ==
  CHOOSE e \in cycleEnd..(cycleEnd + n + Cardinality(Closed)) :
    /\ Cardinality(((cycleEnd + 1)..e) \ Closed) = n
    /\ e \notin Closed

\* SubscriptionBankingService.bankExtraDays: the n-th open day after the end
\* of the cycle, or after the end of a pause that outlasts it.
Bank(cycleEnd, n, after) ==
  LET base == IF after > cycleEnd THEN after ELSE cycleEnd IN
    CHOOSE e \in base..(base + n + Cardinality(Closed)) :
      /\ Cardinality(((base + 1)..e) \ Closed) = n
      /\ e \notin Closed

\* Bug: the row's cycleEnd moves and its bankedDays does not.
ExtendedUncounted(c) ==
  [sub EXCEPT !.cycleEnd = Bank(c.saw.cycleEnd, c.n, c.after)]

Extended(c) == [sub EXCEPT !.cycleEnd = Bank(c.saw.cycleEnd, c.n, c.after),
                           !.banked = @ + c.n]

\* createSkip; the credit follows.
CreateSkip(p) ==
  /\ In(p, "skip")
  /\ skipped' = skipped \cup (call[p].from..call[p].to)
  /\ granted' = granted + call[p].n
  /\ Goto(p, "extend")
  /\ UNCHANGED <<today, sub, held, disrupted, request, delivered, bounds>>

ExtendCycleEnd(p) ==
  /\ In(p, "extend")
  /\ sub' = Extended(call[p])
  /\ Return(p)
  /\ UNCHANGED <<today, skipped, held, granted, disrupted, request, delivered,
                 bounds>>

-----------------------------------------------------------------------------
\* The hourly materializer. Its list of subscriptions is read before the work
\* on each of them starts.

StartMaterialize(p) ==
  /\ sub.status = "ACTIVE"
  /\ Begin(p, [NoCall EXCEPT !.phase = "materialize", !.saw = sub])
  /\ UNCHANGED <<today, rows, bounds>>

NotDue(p) ==
  /\ In(p, "materialize") /\ today < 1
  /\ Return(p)
  /\ UNCHANGED <<today, rows, bounds>>

ExpireSubscription(p) ==
  /\ In(p, "materialize") /\ today > call[p].saw.cycleEnd
  /\ sub' = [sub EXCEPT !.status = "EXPIRED"]
  /\ Return(p)
  /\ UNCHANGED <<today, skipped, held, granted, disrupted, request, delivered,
                 bounds>>

\* Bug: the claim is a plain update that always succeeds.
ClaimDayAlways(p) ==
  /\ In(p, "materialize") /\ today \in 1..call[p].saw.cycleEnd
  /\ sub' = [sub EXCEPT !.claimed = today]
  /\ call' = [call EXCEPT ![p].phase = "lookup", ![p].day = today]
  /\ UNCHANGED <<today, skipped, held, granted, disrupted, request, delivered,
                 bounds>>

\* claimMaterializationDate: one conditional write, of the date read just
\* before it. No midnight falls between the two, even without QuietNights.
ClaimDay(p) ==
  /\ In(p, "materialize") /\ today \in 1..call[p].saw.cycleEnd
  /\ IF sub.claimed # today
       THEN /\ sub' = [sub EXCEPT !.claimed = today]
            /\ call' = [call EXCEPT ![p].phase = "lookup", ![p].day = today]
       ELSE Return(p) /\ UNCHANGED sub
  /\ UNCHANGED <<today, skipped, held, granted, disrupted, request, delivered,
                 bounds>>

\* findSkipForDate, then the closures: a closed day is skipped and banked.
LookupSkip(p) ==
  /\ In(p, "lookup")
  /\ LET d == call[p].day IN
       \/ d \in skipped /\ Return(p)
       \/ /\ d \in Closed \ skipped
          /\ call' = [call EXCEPT ![p].phase = "skip", ![p].n = 1,
                                  ![p].from = d, ![p].to = d]
       \/ d \notin Closed \cup skipped /\ Goto(p, "hold")
  /\ UNCHANGED <<today, rows, bounds>>

LookupHold(p) ==
  /\ In(p, "hold")
  /\ IF request.status = "PENDING" /\ request.from <= call[p].day
       THEN call' = [call EXCEPT ![p].phase = "heldSkip",
                                 ![p].req = request.id]
       ELSE Goto(p, "order")
  /\ UNCHANGED <<today, rows, bounds>>

\* Bug: a held day moves the menu on as a delivery does.
CreateHeldSkipAdvancing(p) ==
  /\ In(p, "heldSkip")
  /\ skipped' = skipped \cup {call[p].day}
  /\ held' = held \cup {<<call[p].day, call[p].req>>}
  /\ Goto(p, "advance")
  /\ UNCHANGED <<today, sub, granted, disrupted, request, delivered, bounds>>

CreateHeldSkip(p) ==
  /\ In(p, "heldSkip")
  /\ skipped' = skipped \cup {call[p].day}
  /\ held' = held \cup {<<call[p].day, call[p].req>>}
  /\ Return(p)
  /\ UNCHANGED <<today, sub, granted, disrupted, request, delivered, bounds>>

CreateOrder(p) ==
  /\ In(p, "order")
  /\ delivered' = [delivered EXCEPT ![call[p].day] = @ + 1]
  /\ Goto(p, "advance")
  /\ UNCHANGED <<today, sub, skipped, held, granted, disrupted, request,
                 bounds>>

AdvanceSubscriptionDay(p) ==
  /\ In(p, "advance")
  /\ sub' = [sub EXCEPT !.next = call[p].saw.next + 1]
  /\ Return(p)
  /\ UNCHANGED <<today, skipped, held, granted, disrupted, request, delivered,
                 bounds>>

ReleaseMaterializationDate(p) ==
  /\ In(p, "release")
  /\ sub' = IF sub.claimed = call[p].day
              THEN [sub EXCEPT !.claimed = call[p].saw.claimed]
              ELSE sub
  /\ Return(p)
  /\ UNCHANGED <<today, skipped, held, granted, disrupted, request, delivered,
                 bounds>>

-----------------------------------------------------------------------------
\* Changes to the days. skipDay(d) is pause(d, d): the same checks, the same
\* credit of one day, and no credit day after a d inside the cycle differs.

EarliestEditableDate == today + Notice

OnHold(d) == request.status = "PENDING" /\ d >= request.from

\* Bug: a day that is skipped already is credited again.
PausedDeliveryDaysTwice(cycleEnd, from, to) ==
  ((from..to) \cap (1..cycleEnd)) \ Closed

PausedDeliveryDays(cycleEnd, from, to) ==
  ((from..to) \cap (1..cycleEnd)) \ (Closed \cup skipped)

\* A call that is certain to be refused is not started.
StartPause(p, from, to) ==
  /\ Edit
  /\ sub.status = "ACTIVE"
  /\ from <= to /\ to < from + MaxPause
  /\ from \in 1..sub.cycleEnd
  /\ PausedDeliveryDays(sub.cycleEnd, from, to) # {}
  /\ from >= EarliestEditableDate
  /\ OpenPauses => (from..to) \cap Closed = {}
  /\ Begin(p, [NoCall EXCEPT !.phase = "calendar", !.from = from, !.to = to,
                             !.after = to, !.saw = sub])
  /\ UNCHANGED <<today, rows, throws, deaths>>

\* The skip rows and the latest request are read after the subscription.
BuildDeliveryCalendar(p) ==
  LET c == call[p]
      stopped == PausedDeliveryDays(c.saw.cycleEnd, c.from, c.to) IN
  /\ In(p, "calendar")
  /\ IF OnHold(c.to) \/ stopped = {}
       THEN Return(p)
       ELSE call' = [call EXCEPT ![p].phase = "skip",
                                 ![p].n = Cardinality(stopped)]
  /\ UNCHANGED <<today, rows, bounds>>

\* declareDisruption with its default compensation of one day.
StartDisruption(p, d) ==
  /\ Edit
  /\ sub.status = "ACTIVE"
  /\ d >= today
  /\ disrupted' = disrupted + 1
  /\ Begin(p, [NoCall EXCEPT !.phase = "skip", !.from = d, !.to = d, !.n = 1,
                             !.saw = sub])
  /\ UNCHANGED <<today, sub, skipped, held, granted, request, delivered,
                 throws, deaths>>

-----------------------------------------------------------------------------
\* Cancellation requests and their hold.

StartRequest(p) ==
  /\ Edit
  /\ sub.status = "ACTIVE"
  /\ Begin(p, [NoCall EXCEPT !.phase = "request",
                             !.from = EarliestEditableDate])
  /\ UNCHANGED <<today, rows, throws, deaths>>

CreateIfNonePending(p) ==
  /\ In(p, "request")
  /\ request' = IF request.status = "PENDING"
                  THEN request
                  ELSE [id |-> request.id + 1, status |-> "PENDING",
                        from |-> call[p].from]
  /\ Return(p)
  /\ UNCHANGED <<today, sub, skipped, held, granted, disrupted, delivered,
                 bounds>>

\* withdraw and reject: closeIfPending, then bankHeldDays.
AnswerRequest(p) ==
  /\ request.status = "PENDING"
  /\ request' = [request EXCEPT !.status = "WITHDRAWN"]
  /\ Begin(p, [NoCall EXCEPT !.phase = "findHeld", !.req = request.id])
  /\ UNCHANGED <<today, sub, skipped, held, granted, disrupted, delivered,
                 bounds>>

FindUnbankedHeldSkips(p) ==
  LET found == {d \in Days : <<d, call[p].req>> \in held} IN
  /\ In(p, "findHeld")
  /\ IF found = {} \/ sub.status = "CANCELLED"
       THEN Return(p)
       ELSE call' = [call EXCEPT ![p].phase = "bankHeld", ![p].found = found,
                                 ![p].n = Cardinality(found), ![p].saw = sub]
  /\ UNCHANGED <<today, rows, bounds>>

BankHeldDays(p) ==
  /\ In(p, "bankHeld")
  /\ sub' = Extended(call[p])
  /\ Goto(p, "mark")
  /\ UNCHANGED <<today, skipped, held, granted, disrupted, request, delivered,
                 bounds>>

MarkHeldSkipsBanked(p) ==
  /\ In(p, "mark")
  /\ held' = held \ {<<d, call[p].req>> : d \in call[p].found}
  /\ granted' = granted + call[p].n
  /\ IF call[p].saw.status = "EXPIRED" THEN Goto(p, "reactivate") ELSE Return(p)
  /\ UNCHANGED <<today, sub, skipped, disrupted, request, delivered, bounds>>

\* Bug: the status of the request goes to the subscription's row.
ReactivateSubscriptionWrongly(p) ==
  /\ In(p, "reactivate")
  /\ sub' = [sub EXCEPT !.status = request.status]
  /\ Return(p)
  /\ UNCHANGED <<today, skipped, held, granted, disrupted, request, delivered,
                 bounds>>

ReactivateSubscription(p) ==
  /\ In(p, "reactivate")
  /\ sub' = [sub EXCEPT !.status = "ACTIVE"]
  /\ Return(p)
  /\ UNCHANGED <<today, skipped, held, granted, disrupted, request, delivered,
                 bounds>>

\* The transaction of cancelWithRefund; the money is SubscriptionPayment's.
CancelWithRefund ==
  /\ "cancel" \in Handlers
  /\ sub.status # "CANCELLED"
  /\ sub' = [sub EXCEPT !.status = "CANCELLED"]
  /\ request' = IF request.status = "PENDING"
                  THEN [request EXCEPT !.status = "APPROVED"]
                  ELSE request
  /\ UNCHANGED <<today, skipped, held, granted, disrupted, delivered, call,
                 bounds>>

-----------------------------------------------------------------------------
\* Faults and midnight.

\* An error at an await: materializeOne's catch hands a claimed day back.
Throw(p) ==
  /\ ~Idle(p) /\ throws + deaths < MaxFaults
  /\ throws' = throws + 1
  /\ IF call[p].day # 0 /\ ~In(p, "release") THEN Goto(p, "release")
                                             ELSE Return(p)
  /\ UNCHANGED <<today, rows, edits, deaths>>

Die(p) ==
  /\ ~Idle(p) /\ throws + deaths < MaxFaults
  /\ deaths' = deaths + 1
  /\ Return(p)
  /\ UNCHANGED <<today, rows, edits, throws>>

NextDay ==
  /\ today < Horizon
  /\ QuietNights => \A p \in Procs : Idle(p)
  /\ JobNeverDown => today = 0 \/ sub.status # "ACTIVE" \/ sub.claimed = today
  /\ PromptAnswers /\ request.status = "PENDING" => today < sub.cycleEnd
  /\ today' = today + 1
  /\ UNCHANGED <<rows, call, bounds>>

-----------------------------------------------------------------------------
Init ==
  /\ today = 0
  /\ sub = NoCall.saw
  /\ skipped = {} /\ held = {} /\ granted = 0 /\ disrupted = 0
  /\ request = [id |-> 0, status |-> "NONE", from |-> 0]
  /\ delivered = [d \in Days |-> 0]
  /\ call = [p \in Procs |-> NoCall]
  /\ edits = 0 /\ throws = 0 /\ deaths = 0

Start(p) ==
  \/ "materialize" \in Handlers /\ StartMaterialize(p)
  \/ "pause" \in Handlers /\ \E from, to \in Days : StartPause(p, from, to)
  \/ "disrupt" \in Handlers /\ \E d \in Days : StartDisruption(p, d)
  \/ "request" \in Handlers /\ StartRequest(p)
  \/ AnswerRequest(p)

Continue(p) ==
  \/ NotDue(p) \/ ExpireSubscription(p) \/ ClaimDay(p) \/ LookupSkip(p)
  \/ LookupHold(p) \/ CreateHeldSkip(p) \/ CreateOrder(p)
  \/ AdvanceSubscriptionDay(p) \/ ReleaseMaterializationDate(p)
  \/ BuildDeliveryCalendar(p) \/ CreateSkip(p) \/ ExtendCycleEnd(p)
  \/ CreateIfNonePending(p) \/ FindUnbankedHeldSkips(p) \/ BankHeldDays(p)
  \/ MarkHeldSkipsBanked(p) \/ ReactivateSubscription(p)

Next ==
  \/ \E p \in Procs : Start(p) \/ Continue(p) \/ Throw(p) \/ Die(p)
  \/ CancelWithRefund
  \/ NextDay

Spec == Init /\ [][Next]_vars

-----------------------------------------------------------------------------
\* Properties.

\* Every variable has its type, and no row or call leaves the calendar.
TypeOK ==
  /\ today \in 0..Horizon
  /\ sub \in Rows
  /\ skipped \subseteq Nat
  /\ held \subseteq (Days \X Nat)
  /\ granted \in Nat /\ disrupted \in Nat
  /\ request \in Requests
  /\ delivered \in [Days -> Nat]
  /\ call \in [Procs -> Calls]
  /\ edits \in Nat /\ throws \in Nat /\ deaths \in Nat

DeliveredDays == {d \in Days : delivered[d] > 0}

\* Days of the cycle no skip row covers.
Kept == (1..sub.cycleEnd) \ skipped

\* Held days an open request, or a call that is answering it, will bank.
ToBank ==
  {h \in held : \/ request.status = "PENDING" /\ request.id = h[2]
                \/ \E p \in Procs : /\ call[p].phase \in {"findHeld", "bankHeld"}
                                    /\ call[p].req = h[2]}

\* As long as no call failed, a day gets one order, however many runs of the
\* materializer overlap: the claim is taken by one of them only (the class
\* comment of the scheduler: "no double orders").
OneOrderPerDay == throws = 0 => \A d \in Days : delivered[d] <= 1

\* Whatever edits, closures, holds and runs interleave and fail, the days
\* delivered, those still coming and those held for later are never more than
\* the days sold and the days disruptions gave: a stale cycleEnd can cost the
\* customer a day, never the kitchen.
NeverMoreThanBought ==
  Cardinality(DeliveredDays \cup Kept) + Cardinality(ToBank)
    <= Duration + disrupted

\* The bankedDays column is the sum of the skip rows' bankedDays, up to the
\* calls that are between writing one and the other, while nothing failed.
CreditsAreBanked ==
  LET Pending(phase) ==
        Total([p \in Procs |-> call[p].n], {p \in Procs : In(p, phase)})
  IN throws + deaths = 0 =>
       granted + Pending("mark") = sub.banked + Pending("extend")

\* The plan's menu moves on by one day with each delivery and only then: no
\* day of the menu is served twice or left out, while nothing failed.
MenuFollowsDeliveries ==
  throws + deaths = 0 =>
    sub.next + Cardinality({p \in Procs : In(p, "advance")})
      = 1 + Cardinality(DeliveredDays)

\* No call is in flight on a plan that was not cancelled.
Settled == (\A p \in Procs : Idle(p)) /\ sub.status # "CANCELLED"

\* The days delivered, those still coming and those held for later.
Promised ==
  LET coming == {d \in Kept : d > today \/ (d = today /\ sub.claimed # d)}
  IN Cardinality(DeliveredDays \cup coming) + Cardinality(ToBank)

\* A customer who skips, pauses, asks to cancel and changes their mind, in a
\* kitchen that closes now and then, gets exactly the days they bought.
ExactlyAsBought == Settled => Promised = Duration

=============================================================================
