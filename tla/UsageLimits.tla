----------------------------- MODULE UsageLimits ----------------------------
(***************************************************************************)
(* The limits of one business: its plan's caps on orders a month and on    *)
(* subscribers, the cap on signups, the uses of one coupon, and the mails  *)
(* that tell the platform that a cap is near or hit.                       *)
(*                                                                         *)
(* Every limit is a gate: a call counts what is there, and writes its own  *)
(* row some awaits later. Orders and subscriptions do not count before     *)
(* they leave PENDING_PAYMENT, which may be much later.                    *)
(***************************************************************************)
EXTENDS Integers, FiniteSets

CONSTANTS
  Procs,          \* slots for calls in flight: the bound on concurrency
  Items,          \* bound: orders, subscriptions and users that are created
  Customers,      \* the customers who use the coupon
  Plans,          \* what plans may cap: functions from PlanKinds
  FirstPlan,      \* the plan of the business at first
  Overrides,      \* what SUPER_ADMIN may set a cap to
  Earlier,        \* what counted already when the model begins, by kind
  CouponUses,     \* [total, perUser]: maxUsesTotal and maxUsesPerUser
  MaxMonth,       \* bound: months
  MaxRequests,    \* bound: calls
  MaxFaults,      \* bound: calls that die with their server, mails that fail
  None            \* no cap, no customer, no item, no month

PlanKinds == {"order", "subscriber"}
Kinds == PlanKinds \cup {"signup"}
Alerts == {"near", "hit"}

\* The gates: the three caps, the coupon, and the coupon for each customer.
Gates == Kinds \cup {"coupon"} \cup Customers

Maybe(S) == S \cup {None}
Caps == Maybe(Nat)

ASSUME GatesAssumption ==
  /\ IsFiniteSet(Procs) /\ IsFiniteSet(Items)
  /\ Customers \cap (Kinds \cup {"coupon"}) = {}
ASSUME NoneAssumption ==
  /\ None \notin Nat /\ None \notin Items /\ None \notin Customers
ASSUME LimitsAssumption ==
  /\ Plans \subseteq [PlanKinds -> Caps] /\ FirstPlan \in Plans
  /\ Overrides \subseteq Caps
  /\ CouponUses \in [{"total", "perUser"} -> Caps]
  /\ Earlier \in [Kinds -> Nat]
ASSUME BoundsAssumption ==
  MaxMonth \in Nat \ {0} /\ MaxRequests \in Nat /\ MaxFaults \in Nat

\* Signups and orders are counted by month, subscribers while they are ACTIVE.
Monthly == {"order", "signup"}
Months == 0..MaxMonth

\* waiting: PENDING_PAYMENT. counted: what the counts see.
ItemStates == {"none", "waiting", "counted", "expired", "gone"}

ItemRows == [status : ItemStates, kind : Kinds, user : Maybe(Customers),
             month : Months,
             checked : SUBSET Gates]  \* history: the gates that count it

\* tenant_limits, by kind: the months of the tags are 0 for subscribers.
LimitRows == [override : Caps, blocked : Nat, blockedMonth : Maybe(Months),
              near : Maybe(Months), hit : Maybe(Months)]

VARIABLES
  item,      \* orders, subscriptions and users, with their redemptions
  plan,      \* the plan's default caps
  limits,    \* the tenant_limits row
  coupon,    \* coupons: active, inactive or deleted
  local,     \* the month in the tenant's timezone
  utc,       \* the month in UTC
  peak,      \* history: the highest cap each gate let a call pass under
  slack,     \* history: the most that was admitted and uncounted then
  due,       \* history: alerts the counts called for since the last reset
  told,      \* history: those mailed
  lost,      \* history: those a fault took
  call,      \* call[p]: the call running in slot p
  requests, faults

rows == <<item, plan, limits, coupon>>
clock == <<local, utc>>
gates == <<peak, slack>>
mails == <<due, told, lost>>
bounds == <<requests, faults>>
vars == <<rows, clock, gates, mails, call, bounds>>

-----------------------------------------------------------------------------
\* Calls in flight.

Phases == {"idle", "total", "perUser", "cap", "count", "alert", "block",
           "flag", "mail", "create", "otp", "update", "reset"}

NoCall == [phase |-> "idle", kind |-> "order", user |-> None, passed |-> {},
           cap |-> None, stamp |-> 0, alert |-> "hit", tell |-> FALSE,
           blocked |-> 0, item |-> None]

Calls == [phase : Phases, kind : Kinds, user : Maybe(Customers),
          passed : SUBSET Gates, cap : Caps, stamp : Months, alert : Alerts,
          tell : BOOLEAN, blocked : Nat, item : Maybe(Items)]

Idle(p) == call[p].phase = "idle"
In(p, phase) == call[p].phase = phase
Goto(p, phase) == call' = [call EXCEPT ![p].phase = phase]
Return(p) == call' = [call EXCEPT ![p] = NoCall]

Begin(p, c) ==
  /\ Idle(p) /\ requests < MaxRequests
  /\ call' = [call EXCEPT ![p] = c]
  /\ requests' = requests + 1
  /\ UNCHANGED <<rows, clock, gates, mails, faults>>

-----------------------------------------------------------------------------
\* What a gate counts.

Larger(a, b) == IF a > b THEN a ELSE b

\* Whether gate g is about a row of this kind and customer.
Concerns(g, kind, user) == g = kind \/ (user # None /\ g \in {"coupon", user})

\* Rows of month m, for the gates that count by month.
Of(g, m) == {i \in Items : Concerns(g, item[i].kind, item[i].user)
                           /\ (g \in Monthly => item[i].month = m)}

\* What was there before: of the first month, where months matter.
EarlierOf(g, m) ==
  IF g \in Kinds /\ (g \in Monthly => m = 1) THEN Earlier[g] ELSE 0

\* countMonthlyOrders, countActiveSubscribers, countMonthlySignups,
\* countCouponRedemptions: nothing that is PENDING_PAYMENT.
Used(g, m) ==
  EarlierOf(g, m) + Cardinality({i \in Of(g, m) : item[i].status = "counted"})

\* What passed gate g and does not count yet: calls, and rows that wait.
Passing(g, m) ==
  {p \in Procs : g \in call[p].passed /\ (g \in Monthly => call[p].stamp = m)}
Admitted(g, m, states) ==
  {i \in Of(g, m) : g \in item[i].checked /\ item[i].status \in states}
Uncounted(g, m) ==
  Cardinality(Passing(g, m)) + Cardinality(Admitted(g, m, {"waiting"}))

\* p passes g under a cap, or with no cap set.
Pass(p, g, cap, m, next) ==
  /\ call' = [call EXCEPT ![p] = next]
  /\ peak' = [peak EXCEPT ![g] = Larger(@, cap)]
  /\ slack' = [slack EXCEPT ![g] = Larger(@, Uncounted(g, m))]

\* The tenant's own cap wins over the plan's default; signups have only that.
Cap(k) ==
  IF limits[k].override # None THEN limits[k].override
  ELSE IF k \in PlanKinds THEN plan[k] ELSE None

\* max * NEAR_LIMIT_THRESHOLD.
Near(used, cap) == 5 * used >= 4 * cap

-----------------------------------------------------------------------------
\* An order, a plan, a signup.

StartOrder(p, user) ==
  /\ user # None => coupon = "active"
  /\ Begin(p, [NoCall EXCEPT !.user = user,
                             !.phase = IF user = None THEN "cap" ELSE "total"])

StartSubscribe(p) ==
  Begin(p, [NoCall EXCEPT !.phase = "cap", !.kind = "subscriber"])

StartRegister(p) ==
  Begin(p, [NoCall EXCEPT !.phase = "cap", !.kind = "signup"])

\* validateCoupon: a count for each limit the coupon has.
CountRedemptions(p, phase, g, cap, next) ==
  /\ In(p, phase)
  /\ IF cap = None THEN Goto(p, next) /\ UNCHANGED gates
     ELSE IF Used(g, 0) >= cap THEN Return(p) /\ UNCHANGED gates
     ELSE Pass(p, g, cap, 0, [call[p] EXCEPT !.phase = next,
                                             !.passed = @ \cup {g}])
  /\ UNCHANGED <<rows, clock, mails, bounds>>

CountTotalUses(p) ==
  CountRedemptions(p, "total", "coupon", CouponUses["total"], "perUser")

CountUserUses(p) ==
  CountRedemptions(p, "perUser", call[p].user, CouponUses["perUser"], "cap")

\* A stale month tag counts as zero.
OneMore(k, m) ==
  IF limits[k].blockedMonth = m THEN limits[k].blocked + 1 ELSE 1

\* getEffectiveLimits, and the month that the tenant's clock then shows.
ReadCap(p) ==
  LET k == call[p].kind
      stamp == IF k \in Monthly THEN local ELSE 0 IN
  /\ In(p, "cap")
  /\ IF Cap(k) = None THEN Goto(p, "create")
     ELSE call' = [call EXCEPT ![p] =
                     [@ EXCEPT !.phase = "count", !.cap = Cap(k),
                               !.stamp = stamp, !.blocked = OneMore(k, stamp)]]
  /\ UNCHANGED <<rows, clock, gates, mails, bounds>>

\* An alert: of which cap, near or hit, in which month.
AlertIds == Kinds \X Alerts \X Months
Due(p) == <<call[p].kind, call[p].alert, call[p].stamp>>

\* Bug: one more than the cap passes.
CountUsageOffByOne(p) ==
  LET c == call[p] IN
  /\ In(p, "count")
  /\ IF Used(c.kind, c.stamp) > c.cap THEN Return(p) /\ UNCHANGED gates
     ELSE Pass(p, c.kind, c.cap, c.stamp,
               [c EXCEPT !.phase = "create", !.passed = @ \cup {c.kind}])
  /\ UNCHANGED <<rows, clock, mails, bounds>>

\* assertOrderAllowed, assertSubscriberAllowed, assertSignupAllowed.
CountUsage(p) ==
  LET c == call[p]
      used == Used(c.kind, c.stamp)
      alert == IF used >= c.cap THEN "hit" ELSE "near"
      alerts == c.kind # "signup" /\ (used >= c.cap \/ Near(used, c.cap)) IN
  /\ In(p, "count")
  /\ IF used >= c.cap
       THEN /\ call' = [call EXCEPT ![p] =
                 [c EXCEPT !.phase = IF alerts THEN "alert" ELSE "block",
                           !.passed = {}]]
            /\ UNCHANGED gates
       ELSE Pass(p, c.kind, c.cap, c.stamp,
                 [c EXCEPT !.phase = IF alerts THEN "alert" ELSE "create",
                           !.alert = "near", !.passed = @ \cup {c.kind}])
  /\ due' = IF alerts THEN due \cup {<<c.kind, alert, c.stamp>>} ELSE due
  /\ UNCHANGED <<rows, clock, told, lost, bounds>>

\* Where a call goes when its alert is settled: on, or back with the refusal.
Proceed(p) == IF call[p].alert = "near" THEN Goto(p, "create") ELSE Return(p)

\* recordBlockedAttempt and maybeAlertNearLimit read the row again.
ReadFlags(p) ==
  LET c == call[p]
      tell == limits[c.kind][c.alert] # c.stamp IN
  /\ In(p, "alert")
  /\ IF c.alert = "near" /\ ~tell THEN Goto(p, "create")
     ELSE call' = [call EXCEPT ![p] =
            [c EXCEPT !.phase = IF c.alert = "hit" THEN "block" ELSE "flag",
                      !.tell = tell, !.blocked = OneMore(c.kind, c.stamp)]]
  /\ UNCHANGED <<rows, clock, gates, mails, bounds>>

WriteBlocked(p) ==
  LET c == call[p] IN
  /\ In(p, "block")
  /\ limits' = [limits EXCEPT ![c.kind] =
                  [@ EXCEPT !.blocked = c.blocked, !.blockedMonth = c.stamp]]
  /\ IF c.tell THEN Goto(p, "flag") ELSE Return(p)
  /\ UNCHANGED <<item, plan, coupon, clock, gates, mails, bounds>>

\* Bug: one flag for both alerts.
WriteBothFlags(p) ==
  LET c == call[p] IN
  /\ In(p, "flag")
  /\ limits' = [limits EXCEPT ![c.kind] =
                  [@ EXCEPT !.near = c.stamp, !.hit = c.stamp]]
  /\ Goto(p, "mail")
  /\ UNCHANGED <<item, plan, coupon, clock, gates, mails, bounds>>

\* The flag is written before the mail is sent.
WriteFlag(p) ==
  LET c == call[p] IN
  /\ In(p, "flag")
  /\ limits' = [limits EXCEPT ![c.kind] = [@ EXCEPT ![c.alert] = c.stamp]]
  /\ Goto(p, "mail")
  /\ UNCHANGED <<item, plan, coupon, clock, gates, mails, bounds>>

SendLimitAlert(p) ==
  /\ In(p, "mail")
  /\ told' = told \cup {Due(p)}
  /\ Proceed(p)
  /\ UNCHANGED <<rows, clock, gates, due, lost, bounds>>

\* The queue is down: logged, and never tried again.
LoseLimitAlert(p) ==
  /\ In(p, "mail") /\ faults < MaxFaults
  /\ faults' = faults + 1
  /\ lost' = lost \cup {Due(p)}
  /\ Proceed(p)
  /\ UNCHANGED <<rows, clock, gates, due, told, requests>>

\* The slot is closed, the stock gone, Razorpay down, the address too far.
GiveUp(p) ==
  /\ In(p, "create")
  /\ Return(p)
  /\ UNCHANGED <<rows, clock, gates, mails, bounds>>

\* The gates that a row counts against: not a month that was not looked at.
Checked(p, m) ==
  {g \in call[p].passed : g \in Monthly => call[p].stamp = m}

\* Bug: the row is kept under the wrong status.
CreateAsNew(p, i) ==
  /\ In(p, "create") /\ item[i].status = "none"
  /\ item' = [item EXCEPT ![i].status = "new"]
  /\ Return(p)
  /\ UNCHANGED <<plan, limits, coupon, clock, gates, mails, bounds>>

\* An order with its redemption, in one transaction that a deleted coupon
\* fails; a subscription; a user, who counts at once.
Create(p, i) ==
  LET c == call[p]
      m == IF c.kind \in Monthly THEN utc ELSE 0 IN
  /\ In(p, "create") /\ item[i].status = "none"
  /\ IF c.user # None /\ coupon = "deleted" THEN Return(p) /\ UNCHANGED item
     ELSE /\ item' = [item EXCEPT ![i] =
               [status |-> IF c.kind = "signup" THEN "counted" ELSE "waiting",
                kind |-> c.kind, user |-> c.user, month |-> m,
                checked |-> Checked(p, m)]]
          /\ IF c.kind = "signup"
               THEN call' = [call EXCEPT ![p] =
                      [NoCall EXCEPT !.phase = "otp", !.kind = "signup",
                                     !.item = i]]
               ELSE Return(p)
  /\ UNCHANGED <<plan, limits, coupon, clock, gates, mails, bounds>>

\* createDineIn asks no gate; its orders count like any other.
CreateDineIn(i) ==
  /\ item[i].status = "none" /\ requests < MaxRequests
  /\ item' = [item EXCEPT ![i] = [status |-> "waiting", kind |-> "order",
                                  user |-> None, month |-> utc, checked |-> {}]]
  /\ requests' = requests + 1
  /\ UNCHANGED <<plan, limits, coupon, clock, gates, mails, call, faults>>

\* The verification code goes out, or the user is deleted again.
SendOtp(p) ==
  /\ In(p, "otp")
  /\ \/ UNCHANGED item
     \/ item' = [item EXCEPT ![call[p].item].status = "gone"]
  /\ Return(p)
  /\ UNCHANGED <<plan, limits, coupon, clock, gates, mails, bounds>>

-----------------------------------------------------------------------------
\* What becomes of a row.

\* Paid; or, a phone order, moved along or cancelled by staff while unpaid.
Enter(i) ==
  /\ item[i].status = "waiting"
  /\ item' = [item EXCEPT ![i].status = "counted"]
  /\ UNCHANGED <<plan, limits, coupon, clock, gates, mails, call, bounds>>

ExpireSubscription(i) ==
  /\ item[i].status = "counted" /\ item[i].kind = "subscriber"
  /\ item' = [item EXCEPT ![i].status = "expired"]
  /\ UNCHANGED <<plan, limits, coupon, clock, gates, mails, call, bounds>>

CancelSubscription(i) ==
  /\ item[i].status \in {"waiting", "counted", "expired"}
  /\ item[i].kind = "subscriber"
  /\ item' = [item EXCEPT ![i].status = "gone"]
  /\ UNCHANGED <<plan, limits, coupon, clock, gates, mails, call, bounds>>

\* bankHeldDays makes an expired plan ACTIVE again and asks no gate.
ReactivateSubscription(i) ==
  /\ item[i].status = "expired" /\ item[i].kind = "subscriber"
  /\ item' = [item EXCEPT ![i] = [@ EXCEPT !.status = "counted",
                                           !.checked = {}]]
  /\ UNCHANGED <<plan, limits, coupon, clock, gates, mails, call, bounds>>

-----------------------------------------------------------------------------
\* SUPER_ADMIN and the plan.

\* null counts as -1 on both sides of the comparison.
Raised(k, new) ==
  LET rank(cap) == IF cap = None THEN -1 ELSE cap IN
  k # "signup" /\ rank(limits[k].override) < rank(new)

Clean(override) == [override |-> override, blocked |-> 0, blockedMonth |-> None,
                    near |-> None, hit |-> None]

StartUpdateLimits(p, k, new) ==
  Begin(p, [NoCall EXCEPT !.phase = "update", !.kind = k, !.cap = new,
                          !.tell = Raised(k, new)])

\* Alerts on cleared flags start over.
Forget(ks) ==
  /\ due' = {d \in due : d[1] \notin ks}
  /\ told' = {d \in told : d[1] \notin ks}

UpdateLimits(p) ==
  LET c == call[p] IN
  /\ In(p, "update")
  /\ limits' = [limits EXCEPT ![c.kind] =
                  IF c.tell THEN Clean(c.cap)
                  ELSE [@ EXCEPT !.override = c.cap]]
  /\ IF c.tell THEN Forget({c.kind}) ELSE UNCHANGED <<due, told>>
  /\ Return(p)
  /\ UNCHANGED <<item, plan, coupon, clock, gates, lost, bounds>>

\* The new plan is in force; its limits are reset by the next call.
StartPlanChange(p, new) ==
  /\ Idle(p) /\ requests < MaxRequests
  /\ new # plan /\ plan' = new
  /\ call' = [call EXCEPT ![p] = [NoCall EXCEPT !.phase = "reset"]]
  /\ requests' = requests + 1
  /\ UNCHANGED <<item, limits, coupon, clock, gates, mails, faults>>

ResetForPlanChange(p) ==
  /\ In(p, "reset")
  /\ limits' = [k \in Kinds |->
                  IF k \in PlanKinds THEN Clean(None) ELSE limits[k]]
  /\ Forget(PlanKinds)
  /\ Return(p)
  /\ UNCHANGED <<item, plan, coupon, clock, gates, lost, bounds>>

\* updateCoupon, and deleteCoupon of one that no order used. An edit of the
\* coupon's limits is left out: CouponUses is a constant.
SetCoupon(to) ==
  /\ coupon # "deleted" /\ to # coupon
  /\ to = "deleted" => \A i \in Items : item[i].user = None
  /\ coupon' = to
  /\ UNCHANGED <<item, plan, limits, clock, gates, mails, call, bounds>>

-----------------------------------------------------------------------------
\* The clock, east of Greenwich, and faults.

LocalMonthBegins ==
  /\ local = utc /\ local < MaxMonth
  /\ local' = local + 1
  /\ UNCHANGED <<rows, utc, gates, mails, call, bounds>>

UtcMonthBegins ==
  /\ utc < local
  /\ utc' = local
  /\ UNCHANGED <<rows, local, gates, mails, call, bounds>>

Alerting == {"alert", "block", "flag", "mail"}

Die(p) ==
  /\ ~Idle(p) /\ faults < MaxFaults
  /\ faults' = faults + 1
  /\ lost' = IF call[p].phase \in Alerting THEN lost \cup {Due(p)} ELSE lost
  /\ Return(p)
  /\ UNCHANGED <<rows, clock, gates, due, told, requests>>

-----------------------------------------------------------------------------
Init ==
  /\ item = [i \in Items |-> [status |-> "none", kind |-> "order", user |-> None,
                              month |-> 0, checked |-> {}]]
  /\ plan = FirstPlan
  /\ limits = [k \in Kinds |-> Clean(None)]
  /\ coupon = "active"
  /\ local = 1 /\ utc = 1
  /\ peak = [g \in Gates |-> IF g \in Kinds THEN Earlier[g] ELSE 0]
  /\ slack = [g \in Gates |-> 0]
  /\ due = {} /\ told = {} /\ lost = {}
  /\ call = [p \in Procs |-> NoCall]
  /\ requests = 0 /\ faults = 0

Start(p) ==
  \/ \E user \in Maybe(Customers) : StartOrder(p, user)
  \/ StartSubscribe(p) \/ StartRegister(p)
  \/ \E k \in Kinds, new \in Overrides : StartUpdateLimits(p, k, new)
  \/ \E new \in Plans : StartPlanChange(p, new)

Continue(p) ==
  \/ CountTotalUses(p) \/ CountUserUses(p) \/ ReadCap(p) \/ CountUsage(p)
  \/ ReadFlags(p) \/ WriteBlocked(p) \/ WriteFlag(p) \/ SendLimitAlert(p)
  \/ GiveUp(p) \/ SendOtp(p) \/ UpdateLimits(p) \/ ResetForPlanChange(p)
  \/ \E i \in Items : Create(p, i)

Next ==
  \/ \E p \in Procs : Start(p) \/ Continue(p) \/ LoseLimitAlert(p) \/ Die(p)
  \/ \E i \in Items : \/ CreateDineIn(i) \/ Enter(i)
                      \/ ExpireSubscription(i) \/ CancelSubscription(i)
                      \/ ReactivateSubscription(i)
  \/ \E to \in {"active", "inactive", "deleted"} : SetCoupon(to)
  \/ LocalMonthBegins \/ UtcMonthBegins

Spec == Init /\ [][Next]_vars

-----------------------------------------------------------------------------
\* Properties.

\* Every variable has its type.
TypeOK ==
  /\ item \in [Items -> ItemRows]
  /\ plan \in Plans /\ limits \in [Kinds -> LimitRows]
  /\ coupon \in {"active", "inactive", "deleted"}
  /\ local \in Months /\ utc \in Months
  /\ peak \in [Gates -> Nat] /\ slack \in [Gates -> Nat]
  /\ due \subseteq AlertIds /\ told \subseteq AlertIds /\ lost \subseteq AlertIds
  /\ call \in [Procs -> Calls]
  /\ requests \in Nat /\ faults \in Nat

\* A limit gives way only as far as checkouts overlap: what counts for a gate
\* and what may still come never exceeds the highest cap applied by more than
\* what had passed the gate uncounted when some call was let through. Rows the
\* gate was never asked for are outside: made while there was no cap, at the
\* counter, in a month that was not the one counted, or made ACTIVE again.
LimitsGiveWayToOverlaps ==
  \A g \in Gates, m \in Months :
    EarlierOf(g, m) + Cardinality(Passing(g, m))
      + Cardinality(Admitted(g, m, {"waiting", "counted"}))
        <= peak[g] + slack[g]

\* The platform is told: at rest, every alert that a count called for since the
\* flags were last cleared has been mailed, by that call or by the one whose
\* flag it saw, or a fault took it.
AlertsAreTold ==
  (\A p \in Procs : Idle(p)) => due \subseteq told \cup lost
=============================================================================
