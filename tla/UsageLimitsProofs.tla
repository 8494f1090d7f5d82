-------------------------- MODULE UsageLimitsProofs -------------------------
(***************************************************************************)
(* Theorems about UsageLimits, for every set of slots, rows and customers, *)
(* every plan, override and coupon, and any number of months.              *)
(***************************************************************************)
EXTENDS UsageLimits, FiniteSetTheorems, TLAPS

-----------------------------------------------------------------------------
\* Types. What a call knows in each of its phases.

GoodCall(c) ==
  /\ c \in Calls
  /\ c.phase \in {"idle", "update", "reset", "otp"} => c.passed = {}
  /\ c.phase \in {"total", "perUser", "cap", "count", "alert", "block", "flag",
                  "mail", "create"} => (c.user # None => c.kind = "order")
  /\ c.phase \in {"total", "perUser"} => c.kind = "order" /\ c.user \in Customers
  /\ c.phase \in {"total", "perUser", "cap", "count"} => c.passed \cap Kinds = {}
  /\ c.phase = "count" => c.cap \in Nat
  /\ c.phase \in {"total", "perUser", "cap", "count"} => c.alert = "hit"
  /\ c.phase = "block" => c.alert = "hit"
  /\ c.phase \in Alerting /\ c.alert = "hit" => c.passed = {}
  /\ c.phase \in {"alert", "flag", "mail"} => c.kind \in PlanKinds
  /\ c.phase \in {"total", "perUser", "cap", "count"} => ~c.tell
  /\ c.phase = "block" /\ c.tell => c.kind \in PlanKinds
  /\ c.phase \in {"flag", "mail"} => c.tell
  /\ c.phase = "otp" => c.item \in Items

CallsOK == call \in [Procs -> Calls] /\ \A p \in Procs : GoodCall(call[p])

TypeInv == TypeOK /\ CallsOK

\* A slot at rest is well formed.
LEMMA RestIsGood == GoodCall(NoCall)
BY BoundsAssumption
   DEF GoodCall, NoCall, Calls, Phases, Kinds, PlanKinds, Maybe, Caps, Months,
       Alerts, Alerting

\* A call that begins is well formed.
LEMMA FreshCall ==
  ASSUME NEW c \in Calls, c.passed = {}, c.alert = "hit",
         c.phase \in {"total", "cap", "update", "reset"},
         c.phase \in {"total", "cap"} => ~c.tell,
         c.phase = "total" => c.user # None,
         c.user # None => c.kind = "order"
  PROVE  GoodCall(c)
BY DEF GoodCall, Alerting, Maybe, Calls

\* One slot changes, to a well-formed call.
LEMMA SlotChange ==
  ASSUME CallsOK, NEW p \in Procs, NEW c, GoodCall(c),
         call' = [call EXCEPT ![p] = c]
  PROVE  CallsOK'
BY DEF CallsOK, GoodCall

\* A call that ends leaves its slot at rest.
LEMMA ReturnChange ==
  ASSUME CallsOK, NEW p \in Procs, Return(p)
  PROVE  CallsOK'
BY RestIsGood, SlotChange DEF Return

\* The record a tag is written to keeps its type.
LEMMA TagKeepsType ==
  ASSUME NEW r \in LimitRows, NEW a \in Alerts, NEW m \in Months
  PROVE  /\ [r EXCEPT ![a] = m] \in LimitRows
         /\ [r EXCEPT ![a] = m][a] = m
         /\ \A b \in Alerts : b # a => [r EXCEPT ![a] = m][b] = r[b]
<1>1. CASE a = "near"
  BY <1>1 DEF LimitRows, Maybe, Alerts
<1>2. CASE a = "hit"
  BY <1>2 DEF LimitRows, Maybe, Alerts
<1> QED  BY <1>1, <1>2 DEF Alerts

\* What clearing leaves is a row of tenant_limits without tags.
LEMMA CleanRow ==
  ASSUME NEW o \in Caps
  PROVE  /\ Clean(o) \in LimitRows
         /\ \A a \in Alerts : Clean(o)[a] = None
BY DEF Clean, LimitRows, Alerts, Maybe

\* A cap that is set is a number.
LEMMA CapIsNumber ==
  ASSUME TypeOK, NEW k \in Kinds
  PROVE  Cap(k) \in Caps
BY LimitsAssumption, NoneAssumption
   DEF TypeOK, Cap, LimitRows, Caps, Maybe, Kinds, PlanKinds

\* Counting one more refusal gives a number.
LEMMA OneMoreIsNumber ==
  ASSUME TypeOK, NEW k \in Kinds, NEW m
  PROVE  OneMore(k, m) \in Nat
BY DEF TypeOK, OneMore, LimitRows

\* What a gate counts is a number.
LEMMA CountsAreNumbers ==
  ASSUME NEW g \in Gates, NEW m
  PROVE  /\ EarlierOf(g, m) \in Nat
         /\ Used(g, m) \in Nat
         /\ Uncounted(g, m) \in Nat
<1>1. EarlierOf(g, m) \in Nat
  BY LimitsAssumption DEF EarlierOf
<1>2. \A S : S \subseteq Items \/ S \subseteq Procs =>
             IsFiniteSet(S) /\ Cardinality(S) \in Nat
  BY GatesAssumption, FS_Subset, FS_CardinalityType
<1>3. {i \in Of(g, m) : item[i].status = "counted"} \subseteq Items
  BY DEF Of
<1>4. Admitted(g, m, {"waiting"}) \subseteq Items /\ Passing(g, m) \subseteq Procs
  BY DEF Admitted, Of, Passing
<1> QED  BY <1>1, <1>2, <1>3, <1>4 DEF Used, Uncounted

\* Passing a gate keeps the histories' types.
LEMMA PassKeepsGates ==
  ASSUME TypeOK, NEW p \in Procs, NEW g \in Gates, NEW cap \in Nat, NEW m,
         NEW c, Pass(p, g, cap, m, c)
  PROVE  peak' \in [Gates -> Nat] /\ slack' \in [Gates -> Nat]
BY CountsAreNumbers DEF Pass, TypeOK, Larger

\* Type correctness at the start.
LEMMA InitType == Init => TypeInv
<1> SUFFICES ASSUME Init PROVE TypeInv
  OBVIOUS
<1>1. CallsOK
  BY RestIsGood DEF Init, CallsOK, GoodCall
<1>2. limits \in [Kinds -> LimitRows]
  BY CleanRow DEF Init, Caps, Maybe
<1>3. item \in [Items -> ItemRows]
  <2>1. [status |-> "none", kind |-> "order", user |-> None, month |-> 0,
         checked |-> {}] \in ItemRows
    BY BoundsAssumption
       DEF ItemRows, ItemStates, Kinds, PlanKinds, Maybe, Months
  <2> QED  BY <2>1 DEF Init
<1>4. local \in Months /\ utc \in Months
  BY BoundsAssumption DEF Init, Months
<1>5. peak \in [Gates -> Nat] /\ slack \in [Gates -> Nat]
  BY LimitsAssumption DEF Init
<1>6. plan \in Plans
  BY LimitsAssumption DEF Init
<1> QED
  BY <1>1, <1>2, <1>3, <1>4, <1>5, <1>6 DEF Init, TypeInv, TypeOK, CallsOK

\* Calls that begin.
LEMMA StartType ==
  ASSUME TypeInv, NEW p \in Procs, Start(p)
  PROVE  TypeInv'
<1> USE DEF TypeInv
<1>1. ASSUME NEW c, GoodCall(c), Begin(p, c)  PROVE TypeInv'
  <2>1. CallsOK'
    BY <1>1, SlotChange DEF Begin
  <2> QED  BY <1>1, <2>1
             DEF Begin, TypeOK, CallsOK, rows, clock, gates, mails, LimitRows
<1>2. /\ NoCall \in Calls
      /\ NoCall.user = None /\ NoCall.kind = "order" /\ NoCall.passed = {}
      /\ NoCall.alert = "hit" /\ ~NoCall.tell
  BY RestIsGood DEF GoodCall, NoCall
<1>3. CASE \E user \in Maybe(Customers) : StartOrder(p, user)
  <2>1. PICK user \in Maybe(Customers) : StartOrder(p, user)
    BY <1>3
  <2> DEFINE phase == IF user = None THEN "cap" ELSE "total"
             c == [NoCall EXCEPT !.user = user, !.phase = phase]
  <2>2. phase \in Phases
    BY DEF Phases
  <2>3. c \in Calls
    BY <1>2, <2>2, Zenon DEF Calls
  <2>4. /\ c.phase = phase /\ c.user = user /\ c.kind = "order"
        /\ c.passed = {} /\ c.alert = "hit" /\ ~c.tell
    BY <1>2 DEF Calls
  <2>5. Begin(p, c)
    BY <2>1 DEF StartOrder
  <2> HIDE DEF c
  <2>6. GoodCall(c)
    BY <2>3, <2>4, FreshCall
  <2> QED  BY <1>1, <2>5, <2>6
<1>4. CASE StartSubscribe(p)
  <2> DEFINE c == [NoCall EXCEPT !.phase = "cap", !.kind = "subscriber"]
  <2>1. "cap" \in Phases /\ "subscriber" \in Kinds
    BY DEF Phases, Kinds, PlanKinds
  <2>2. c \in Calls
    BY <1>2, <2>1, Zenon DEF Calls
  <2>3. /\ c.phase = "cap" /\ c.user = None
        /\ c.passed = {} /\ c.alert = "hit" /\ ~c.tell
    BY <1>2 DEF Calls
  <2>4. Begin(p, c)
    BY <1>4 DEF StartSubscribe
  <2> HIDE DEF c
  <2>5. GoodCall(c)
    BY <2>2, <2>3, FreshCall
  <2> QED  BY <1>1, <2>4, <2>5
<1>5. CASE StartRegister(p)
  <2> DEFINE c == [NoCall EXCEPT !.phase = "cap", !.kind = "signup"]
  <2>1. "cap" \in Phases /\ "signup" \in Kinds
    BY DEF Phases, Kinds
  <2>2. c \in Calls
    BY <1>2, <2>1, Zenon DEF Calls
  <2>3. /\ c.phase = "cap" /\ c.user = None
        /\ c.passed = {} /\ c.alert = "hit" /\ ~c.tell
    BY <1>2 DEF Calls
  <2>4. Begin(p, c)
    BY <1>5 DEF StartRegister
  <2> HIDE DEF c
  <2>5. GoodCall(c)
    BY <2>2, <2>3, FreshCall
  <2> QED  BY <1>1, <2>4, <2>5
<1>6. CASE \E k \in Kinds, new \in Overrides : StartUpdateLimits(p, k, new)
  <2>1. PICK k \in Kinds, new \in Overrides : StartUpdateLimits(p, k, new)
    BY <1>6
  <2> DEFINE c == [NoCall EXCEPT !.phase = "update", !.kind = k, !.cap = new,
                                 !.tell = Raised(k, new)]
  <2>2. Raised(k, new) \in BOOLEAN /\ new \in Caps /\ "update" \in Phases
    BY LimitsAssumption DEF Raised, Phases
  <2>3. c \in Calls
    BY <1>2, <2>2, Zenon DEF Calls
  <2>4. c.phase = "update" /\ c.user = None /\ c.passed = {} /\ c.alert = "hit"
    BY <1>2 DEF Calls
  <2>5. Begin(p, c)
    BY <2>1 DEF StartUpdateLimits
  <2> HIDE DEF c
  <2>6. GoodCall(c)
    BY <2>3, <2>4, FreshCall
  <2> QED  BY <1>1, <2>5, <2>6
<1>7. CASE \E new \in Plans : StartPlanChange(p, new)
  <2> DEFINE c == [NoCall EXCEPT !.phase = "reset"]
  <2>1. "reset" \in Phases
    BY DEF Phases
  <2>2. c \in Calls
    BY <1>2, <2>1, Zenon DEF Calls
  <2>3. c.phase = "reset" /\ c.user = None /\ c.passed = {} /\ c.alert = "hit"
    BY <1>2 DEF Calls
  <2>4. call' = [call EXCEPT ![p] = c]
    BY <1>7 DEF StartPlanChange
  <2> HIDE DEF c
  <2>5. CallsOK'
    BY <2>2, <2>3, <2>4, FreshCall, SlotChange
  <2> QED  BY <1>7, <2>5
             DEF StartPlanChange, TypeOK, CallsOK, clock, gates, mails
<1> QED  BY <1>3, <1>4, <1>5, <1>6, <1>7 DEF Start

\* The two counts of a coupon.
LEMMA RedemptionsType ==
  ASSUME TypeInv, NEW p \in Procs, NEW phase, NEW g \in Gates, NEW cap \in Caps,
         NEW next, g \notin Kinds,
         \/ phase = "total" /\ next = "perUser"
         \/ phase = "perUser" /\ next = "cap",
         CountRedemptions(p, phase, g, cap, next)
  PROVE  TypeInv'
<1> DEFINE c == [call[p] EXCEPT !.phase = next]
           d == [call[p] EXCEPT !.phase = next, !.passed = @ \cup {g}]
<1>1. GoodCall(call[p]) /\ call[p] \in Calls /\ In(p, phase)
  BY DEF TypeInv, CallsOK, CountRedemptions
<1>2. GoodCall(c) /\ GoodCall(d)
  <2>1. c \in Calls /\ d \in Calls
    BY <1>1 DEF Calls, Phases
  <2> QED  BY <1>1, <2>1 DEF GoodCall, Calls, In, Alerting
<1>3. CASE cap = None
  <2>1. CallsOK'
    BY <1>2, <1>3, SlotChange DEF CountRedemptions, Goto, TypeInv
  <2> QED  BY <1>3, <2>1 DEF CountRedemptions, TypeInv, TypeOK, CallsOK, rows,
                             clock, gates, mails, bounds
<1>4. CASE cap # None /\ Used(g, 0) >= cap
  <2>1. CallsOK'
    BY <1>4, ReturnChange DEF CountRedemptions, TypeInv
  <2> QED  BY <1>4, <2>1 DEF CountRedemptions, TypeInv, TypeOK, CallsOK, rows,
                             clock, gates, mails, bounds
<1>5. CASE cap # None /\ ~(Used(g, 0) >= cap)
  <2>1. Pass(p, g, cap, 0, d) /\ cap \in Nat
    BY <1>5 DEF CountRedemptions, Caps, Maybe
  <2>2. CallsOK'
    BY <1>2, <2>1, SlotChange DEF Pass, TypeInv
  <2>3. peak' \in [Gates -> Nat] /\ slack' \in [Gates -> Nat]
    BY <2>1, PassKeepsGates DEF TypeInv
  <2> QED  BY <2>2, <2>3 DEF CountRedemptions, TypeInv, TypeOK, CallsOK, rows,
                             clock, mails, bounds
<1> QED  BY <1>3, <1>4, <1>5

\* Counting redemptions, as the two counts are called.
LEMMA CouponType ==
  ASSUME TypeInv, NEW p \in Procs, CountTotalUses(p) \/ CountUserUses(p)
  PROVE  TypeInv'
<1>1. CouponUses["total"] \in Caps /\ CouponUses["perUser"] \in Caps
  BY LimitsAssumption
<1>2. "coupon" \in Gates /\ "coupon" \notin Kinds
  BY DEF Gates, Kinds, PlanKinds
<1>3. In(p, "perUser") =>
        call[p].user \in Gates /\ call[p].user \notin Kinds
  BY GatesAssumption DEF TypeInv, CallsOK, GoodCall, In, Gates
<1>4. CASE CountTotalUses(p)
  BY <1>1, <1>2, <1>4, RedemptionsType DEF CountTotalUses
<1>5. CASE CountUserUses(p)
  <2>1. In(p, "perUser")
    BY <1>5 DEF CountUserUses, CountRedemptions
  <2> QED  BY <1>1, <1>3, <1>5, <2>1, RedemptionsType DEF CountUserUses
<1> QED  BY <1>4, <1>5

\* The counts of the three caps.
LEMMA CapType ==
  ASSUME TypeInv, NEW p \in Procs, ReadCap(p) \/ CountUsage(p)
  PROVE  TypeInv'
<1> DEFINE c == call[p]
           k == c.kind
<1> USE DEF TypeInv
<1>1. GoodCall(c) /\ c \in Calls /\ k \in Kinds /\ c.stamp \in Months
  BY DEF CallsOK, Calls
<1>2. CASE ReadCap(p)
  <2> DEFINE stamp == IF k \in Monthly THEN local ELSE 0
             d == [c EXCEPT !.phase = "count", !.cap = Cap(k), !.stamp = stamp,
                            !.blocked = OneMore(k, stamp)]
             e == [c EXCEPT !.phase = "create"]
  <2>1. /\ c.phase = "cap"
        /\ \/ call' = [call EXCEPT ![p] = e]
           \/ Cap(k) # None /\ call' = [call EXCEPT ![p] = d]
    BY <1>2 DEF ReadCap, In, Goto
  <2>2. Cap(k) \in Caps /\ OneMore(k, stamp) \in Nat /\ stamp \in Months
    BY <1>1, CapIsNumber, OneMoreIsNumber, BoundsAssumption DEF TypeOK, Months
  <2>3. d \in Calls /\ e \in Calls
    BY <1>1, <2>2 DEF Calls, Phases
  <2>4. GoodCall(e)
    BY <1>1, <2>1, <2>3 DEF GoodCall, Calls, Alerting
  <2>5. Cap(k) # None => GoodCall(d)
    BY <1>1, <2>1, <2>2, <2>3 DEF GoodCall, Calls, Alerting, Caps, Maybe
  <2>6. CallsOK'
    BY <2>1, <2>4, <2>5, SlotChange
  <2> QED  BY <1>2, <2>6 DEF ReadCap, TypeOK, CallsOK, rows, clock, gates, mails,
                             bounds
<1>3. CASE CountUsage(p)
  <2> DEFINE used == Used(k, c.stamp)
             alert == IF used >= c.cap THEN "hit" ELSE "near"
             alerts == k # "signup" /\ (used >= c.cap \/ Near(used, c.cap))
             d == [c EXCEPT !.phase = IF alerts THEN "alert" ELSE "block",
                            !.passed = {}]
             e == [c EXCEPT !.phase = IF alerts THEN "alert" ELSE "create",
                            !.alert = "near", !.passed = @ \cup {k}]
  <2>1. c.phase = "count" /\ c.cap \in Nat /\ k \in Gates
    BY <1>1, <1>3 DEF CountUsage, In, GoodCall, Gates
  <2>2. /\ (IF alerts THEN "alert" ELSE "block") \in Phases
        /\ (IF alerts THEN "alert" ELSE "create") \in Phases
        /\ "near" \in Alerts
    BY DEF Phases, Alerts
  <2>3. d \in Calls
    BY <1>1, <2>2 DEF Calls
  <2>4. e \in Calls
    BY <1>1, <2>1, <2>2 DEF Calls
  <2>5. /\ d.phase \in {"alert", "block"} /\ d.passed = {} /\ d.alert = c.alert
        /\ d.user = c.user /\ d.kind = k /\ d.tell = c.tell
        /\ d.phase = "alert" => k # "signup"
    BY <1>1, <2>2 DEF Calls
  <2>6. /\ e.phase \in {"alert", "create"} /\ e.alert = "near"
        /\ e.user = c.user /\ e.kind = k
        /\ e.phase = "alert" => k # "signup"
    BY <1>1, <2>2 DEF Calls
  <2>7. ASSUME used >= c.cap
        PROVE  CallsOK' /\ peak' \in [Gates -> Nat] /\ slack' \in [Gates -> Nat]
    <3>1. call' = [call EXCEPT ![p] = d] /\ UNCHANGED gates
      BY <1>3, <2>7 DEF CountUsage
    <3> HIDE DEF d
    <3>2. GoodCall(d)
      BY <1>1, <2>1, <2>3, <2>5 DEF GoodCall, Alerting, Kinds
    <3>3. CallsOK'
      BY <3>1, <3>2, SlotChange
    <3> QED  BY <3>1, <3>3 DEF gates, TypeOK
  <2>8. ASSUME ~(used >= c.cap)
        PROVE  CallsOK' /\ peak' \in [Gates -> Nat] /\ slack' \in [Gates -> Nat]
    <3>1. Pass(p, k, c.cap, c.stamp, e)
      BY <1>3, <2>8 DEF CountUsage
    <3>2. peak' \in [Gates -> Nat] /\ slack' \in [Gates -> Nat]
      BY <2>1, <3>1, PassKeepsGates
    <3> HIDE DEF e
    <3>3. GoodCall(e)
      BY <1>1, <2>1, <2>4, <2>6 DEF GoodCall, Alerting, Kinds
    <3>4. CallsOK'
      BY <3>1, <3>3, SlotChange DEF Pass
    <3> QED  BY <3>2, <3>4
  <2>9. due' \subseteq AlertIds
    <3>1. <<k, alert, c.stamp>> \in AlertIds
      BY <1>1 DEF AlertIds, Alerts
    <3>2. due' = IF alerts THEN due \cup {<<k, alert, c.stamp>>} ELSE due
      BY <1>3 DEF CountUsage
    <3> QED  BY <3>1, <3>2 DEF TypeOK
  <2>10. UNCHANGED <<item, plan, limits, coupon, local, utc, told, lost,
                     requests, faults>>
    BY <1>3 DEF CountUsage, rows, clock, bounds
  <2>11. CallsOK' /\ peak' \in [Gates -> Nat] /\ slack' \in [Gates -> Nat]
    BY <2>7, <2>8
  <2> QED  BY <2>9, <2>10, <2>11 DEF TypeOK, CallsOK
<1> QED  BY <1>2, <1>3

\* What an alert of p is about.
LEMMA DueIsAlert ==
  ASSUME TypeInv, NEW p \in Procs
  PROVE  Due(p) \in AlertIds
BY DEF TypeInv, CallsOK, Calls, Due, AlertIds

\* Moving on from an alert.
LEMMA ProceedType ==
  ASSUME TypeInv, NEW p \in Procs, In(p, "mail"), Proceed(p)
  PROVE  CallsOK'
<1> DEFINE c == [call[p] EXCEPT !.phase = "create"]
<1>1. GoodCall(call[p]) /\ call[p] \in Calls /\ call[p].phase = "mail" /\ CallsOK
  BY DEF TypeInv, CallsOK, In
<1>2. c \in Calls
  BY <1>1 DEF Calls, Phases
<1>3. GoodCall(c)
  BY <1>1, <1>2 DEF GoodCall, Calls, Alerting
<1> QED  BY <1>1, <1>3, SlotChange, ReturnChange DEF Proceed, Goto

\* Alerts: reading the flags, counting the refusal, the flag and the mail.
LEMMA AlertType ==
  ASSUME TypeInv, NEW p \in Procs,
         \/ ReadFlags(p) \/ WriteBlocked(p) \/ WriteFlag(p)
         \/ SendLimitAlert(p) \/ LoseLimitAlert(p)
  PROVE  TypeInv'
<1> DEFINE c == call[p]
<1> USE DEF TypeInv
<1>1. /\ GoodCall(c) /\ c \in Calls /\ c.kind \in Kinds /\ c.stamp \in Months
      /\ c.alert \in Alerts /\ c.blocked \in Nat /\ CallsOK
  BY DEF CallsOK, Calls
<1>2. CASE ReadFlags(p)
  <2> DEFINE tell == limits[c.kind][c.alert] # c.stamp
             n == OneMore(c.kind, c.stamp)
             next == IF c.alert = "hit" THEN "block" ELSE "flag"
             d == [c EXCEPT !.phase = next, !.tell = tell, !.blocked = n]
             e == [c EXCEPT !.phase = "create"]
  <2>1. c.phase = "alert" /\ c.kind \in PlanKinds
    BY <1>1, <1>2 DEF ReadFlags, In, GoodCall
  <2>2. \/ c.alert = "near" /\ ~tell /\ call' = [call EXCEPT ![p] = e]
        \/ ~(c.alert = "near" /\ ~tell) /\ call' = [call EXCEPT ![p] = d]
    BY <1>2 DEF ReadFlags, Goto
  <2>3. n \in Nat /\ tell \in BOOLEAN /\ next \in Phases
    BY <1>1, OneMoreIsNumber DEF Phases
  <2>4. d \in Calls /\ e \in Calls
    BY <1>1, <2>3 DEF Calls, Phases
  <2>5. GoodCall(e)
    BY <1>1, <2>1, <2>4 DEF GoodCall, Calls, Alerting
  <2>6. /\ d.phase = next /\ d.tell = tell /\ d.kind = c.kind /\ d.user = c.user
        /\ d.alert = c.alert /\ d.passed = c.passed
    BY <1>1 DEF Calls
  <2>7. ~(c.alert = "near" /\ ~tell) => GoodCall(d)
    <3> HIDE DEF d, tell
    <3> QED  BY <1>1, <2>1, <2>4, <2>6 DEF GoodCall, Alerting, Alerts
  <2> HIDE DEF d, e
  <2>8. CallsOK'
    BY <1>1, <2>2, <2>5, <2>7, SlotChange
  <2> QED  BY <1>2, <2>8 DEF ReadFlags, TypeOK, CallsOK, rows, clock, gates,
                             mails, bounds
<1>3. CASE WriteBlocked(p)
  <2> DEFINE d == [c EXCEPT !.phase = "flag"]
             r == [limits[c.kind] EXCEPT !.blocked = c.blocked,
                                         !.blockedMonth = c.stamp]
  <2>1. r \in LimitRows
    BY <1>1 DEF TypeOK, LimitRows, Maybe
  <2>2. limits' \in [Kinds -> LimitRows]
    BY <1>1, <1>3, <2>1 DEF WriteBlocked, TypeOK
  <2>3. d \in Calls
    BY <1>1 DEF Calls, Phases
  <2>4. c.tell => GoodCall(d)
    BY <1>1, <1>3, <2>3 DEF WriteBlocked, In, GoodCall, Calls, Alerting
  <2>5. CallsOK'
    BY <1>1, <1>3, <2>4, SlotChange, ReturnChange DEF WriteBlocked, Goto
  <2> QED  BY <1>3, <2>2, <2>5 DEF WriteBlocked, TypeOK, CallsOK, clock, gates,
                                   mails, bounds
<1>4. CASE WriteFlag(p)
  <2> DEFINE d == [c EXCEPT !.phase = "mail"]
  <2>1. limits' \in [Kinds -> LimitRows]
    <3>1. [limits[c.kind] EXCEPT ![c.alert] = c.stamp] \in LimitRows
      BY <1>1, TagKeepsType DEF TypeOK
    <3> QED  BY <1>1, <1>4, <3>1 DEF WriteFlag, TypeOK
  <2>2. d \in Calls
    BY <1>1 DEF Calls, Phases
  <2>3. GoodCall(d)
    BY <1>1, <1>4, <2>2 DEF WriteFlag, In, GoodCall, Calls, Alerting
  <2>4. CallsOK'
    BY <1>1, <1>4, <2>3, SlotChange DEF WriteFlag, Goto
  <2> QED  BY <1>4, <2>1, <2>4 DEF WriteFlag, TypeOK, CallsOK, clock, gates,
                                   mails, bounds
<1>5. CASE SendLimitAlert(p)
  <2>1. CallsOK'
    BY <1>5, ProceedType DEF SendLimitAlert
  <2> QED  BY <1>5, <2>1, DueIsAlert DEF SendLimitAlert, TypeOK, CallsOK, rows,
                                         clock, gates, bounds
<1>6. CASE LoseLimitAlert(p)
  <2>1. CallsOK'
    BY <1>6, ProceedType DEF LoseLimitAlert
  <2> QED  BY <1>6, <2>1, DueIsAlert DEF LoseLimitAlert, TypeOK, CallsOK, rows,
                                         clock, gates
<1> QED  BY <1>2, <1>3, <1>4, <1>5, <1>6

\* Creating the row, giving up, and the code that is sent to a new user.
LEMMA CreateType ==
  ASSUME TypeInv, NEW p \in Procs,
         GiveUp(p) \/ SendOtp(p) \/ \E i \in Items : Create(p, i)
  PROVE  TypeInv'
<1> DEFINE c == call[p]
<1> USE DEF TypeInv
<1>1. GoodCall(c) /\ c \in Calls /\ c.kind \in Kinds /\ CallsOK
  BY DEF CallsOK, Calls
<1>2. CASE GiveUp(p)
  <2>1. CallsOK'
    BY <1>1, <1>2, ReturnChange DEF GiveUp
  <2> QED  BY <1>2, <2>1 DEF GiveUp, TypeOK, CallsOK, rows, clock, gates,
                             mails, bounds
<1>3. CASE SendOtp(p)
  <2>1. CallsOK'
    BY <1>1, <1>3, ReturnChange DEF SendOtp
  <2>2. item' \in [Items -> ItemRows]
    <3>1. c.item \in Items
      BY <1>1, <1>3 DEF SendOtp, In, GoodCall
    <3>2. [item[c.item] EXCEPT !.status = "gone"] \in ItemRows
      BY <3>1 DEF TypeOK, ItemRows, ItemStates
    <3> QED  BY <1>3, <3>1, <3>2 DEF SendOtp, TypeOK
  <2> QED  BY <1>3, <2>1, <2>2 DEF SendOtp, TypeOK, CallsOK, clock, gates,
                                   mails, bounds
<1>4. CASE \E i \in Items : Create(p, i)
  <2>1. PICK i \in Items : Create(p, i)
    BY <1>4
  <2> DEFINE m == IF c.kind \in Monthly THEN utc ELSE 0
             r == [status |-> IF c.kind = "signup" THEN "counted" ELSE "waiting",
                   kind |-> c.kind, user |-> c.user, month |-> m,
                   checked |-> Checked(p, m)]
             d == [NoCall EXCEPT !.phase = "otp", !.kind = "signup", !.item = i]
  <2>2. m \in Months /\ Checked(p, m) \in SUBSET Gates
    BY <1>1, BoundsAssumption DEF TypeOK, Months, Checked, Calls
  <2>3. r \in ItemRows
    BY <1>1, <2>2 DEF ItemRows, ItemStates, Calls
  <2>4. item' \in [Items -> ItemRows]
    BY <2>1, <2>3 DEF Create, TypeOK
  <2>5. NoCall \in Calls /\ NoCall.passed = {} /\ NoCall.user = None
    BY RestIsGood DEF GoodCall, NoCall
  <2>6. "otp" \in Phases /\ "signup" \in Kinds /\ i \in Maybe(Items)
    BY DEF Phases, Kinds, Maybe
  <2>7. d \in Calls
    BY <2>5, <2>6, Zenon DEF Calls
  <2>8. d.phase = "otp" /\ d.passed = {} /\ d.item = i
    BY <2>5 DEF Calls
  <2>9. Return(p) \/ call' = [call EXCEPT ![p] = d]
    BY <2>1 DEF Create
  <2> HIDE DEF d
  <2>10. GoodCall(d)
    BY <2>7, <2>8 DEF GoodCall, Alerting
  <2>11. CallsOK'
    BY <1>1, <2>9, <2>10, SlotChange, ReturnChange
  <2> QED  BY <2>1, <2>4, <2>11 DEF Create, TypeOK, CallsOK, clock, gates,
                                    mails, bounds
<1> QED  BY <1>2, <1>3, <1>4

\* SUPER_ADMIN's writes, and a call that dies.
LEMMA AdminType ==
  ASSUME TypeInv, NEW p \in Procs,
         UpdateLimits(p) \/ ResetForPlanChange(p) \/ Die(p)
  PROVE  TypeInv'
<1> DEFINE c == call[p]
<1> USE DEF TypeInv
<1>1. /\ GoodCall(c) /\ c \in Calls /\ c.kind \in Kinds /\ c.cap \in Caps
      /\ CallsOK
  BY DEF CallsOK, Calls
<1>2. CASE UpdateLimits(p)
  <2>1. CallsOK'
    BY <1>1, <1>2, ReturnChange DEF UpdateLimits
  <2>2. [limits[c.kind] EXCEPT !.override = c.cap] \in LimitRows
    BY <1>1 DEF TypeOK, LimitRows
  <2>3. Clean(c.cap) \in LimitRows
    BY <1>1, CleanRow
  <2>4. limits' \in [Kinds -> LimitRows]
    BY <1>1, <1>2, <2>2, <2>3 DEF UpdateLimits, TypeOK
  <2>5. due' \subseteq AlertIds /\ told' \subseteq AlertIds
    BY <1>2 DEF UpdateLimits, Forget, TypeOK
  <2> QED  BY <1>2, <2>1, <2>4, <2>5 DEF UpdateLimits, TypeOK, CallsOK, clock,
                                         gates, bounds
<1>3. CASE ResetForPlanChange(p)
  <2>1. CallsOK'
    BY <1>1, <1>3, ReturnChange DEF ResetForPlanChange
  <2>2. Clean(None) \in LimitRows
    BY CleanRow DEF Caps, Maybe
  <2>3. limits' \in [Kinds -> LimitRows]
    BY <1>3, <2>2 DEF ResetForPlanChange, TypeOK
  <2>4. due' \subseteq AlertIds /\ told' \subseteq AlertIds
    BY <1>3 DEF ResetForPlanChange, Forget, TypeOK
  <2> QED  BY <1>3, <2>1, <2>3, <2>4 DEF ResetForPlanChange, TypeOK, CallsOK,
                                         clock, gates, bounds
<1>4. CASE Die(p)
  <2>1. CallsOK'
    BY <1>1, <1>4, ReturnChange DEF Die
  <2> QED  BY <1>4, <2>1, DueIsAlert DEF Die, TypeOK, CallsOK, rows, clock, gates
<1> QED  BY <1>2, <1>3, <1>4

\* What no call does.
RowStep(i) ==
  \/ CreateDineIn(i) \/ Enter(i) \/ ExpireSubscription(i)
  \/ CancelSubscription(i) \/ ReactivateSubscription(i)
ClockStep == LocalMonthBegins \/ UtcMonthBegins
CouponStep == \E to \in {"active", "inactive", "deleted"} : SetCoupon(to)

LEMMA RestType ==
  ASSUME TypeInv, (\E i \in Items : RowStep(i)) \/ ClockStep \/ CouponStep
  PROVE  TypeInv'
<1> USE DEF TypeInv
<1>1. CASE \E i \in Items : RowStep(i)
  <2>1. PICK i \in Items : RowStep(i)
    BY <1>1
  <2>2. /\ [item[i] EXCEPT !.status = "counted"] \in ItemRows
        /\ [item[i] EXCEPT !.status = "expired"] \in ItemRows
        /\ [item[i] EXCEPT !.status = "gone"] \in ItemRows
        /\ [item[i] EXCEPT !.status = "counted", !.checked = {}] \in ItemRows
    BY DEF TypeOK, ItemRows, ItemStates
  <2>3. [status |-> "waiting", kind |-> "order", user |-> None, month |-> utc,
         checked |-> {}] \in ItemRows
    BY DEF TypeOK, ItemRows, ItemStates, Kinds, PlanKinds, Maybe
  <2>4. item' \in [Items -> ItemRows]
    BY <2>1, <2>2, <2>3
       DEF RowStep, CreateDineIn, Enter, ExpireSubscription,
           CancelSubscription, ReactivateSubscription, TypeOK
  <2>5. UNCHANGED <<plan, limits, coupon, clock, gates, mails, call, faults>>
    BY <2>1 DEF RowStep, CreateDineIn, Enter, ExpireSubscription,
                CancelSubscription, ReactivateSubscription, bounds
  <2>6. requests' \in Nat
    <3>1. requests \in Nat /\ (requests' = requests \/ requests' = requests + 1)
      BY <2>1 DEF RowStep, CreateDineIn, Enter, ExpireSubscription,
                  CancelSubscription, ReactivateSubscription, bounds, TypeOK
    <3> QED  BY <3>1
  <2> QED  BY <2>4, <2>5, <2>6
             DEF TypeOK, CallsOK, clock, gates, mails
<1>2. CASE ClockStep
  <2>1. local' \in Months /\ utc' \in Months
    BY <1>2, BoundsAssumption
       DEF ClockStep, LocalMonthBegins, UtcMonthBegins, TypeOK, Months
  <2> QED  BY <1>2, <2>1
             DEF ClockStep, LocalMonthBegins, UtcMonthBegins, TypeOK, CallsOK,
                 rows, gates, mails, bounds
<1>3. CASE CouponStep
  BY <1>3 DEF CouponStep, SetCoupon, TypeOK, CallsOK, clock, gates, mails, bounds
<1> QED  BY <1>1, <1>2, <1>3

\* Every step is one of these.
LEMMA Steps ==
  ASSUME Next
  PROVE  \/ \E p \in Procs :
              \/ Start(p)
              \/ CountTotalUses(p) \/ CountUserUses(p)
              \/ ReadCap(p) \/ CountUsage(p)
              \/ ReadFlags(p) \/ WriteBlocked(p) \/ WriteFlag(p)
              \/ SendLimitAlert(p) \/ LoseLimitAlert(p)
              \/ GiveUp(p) \/ SendOtp(p) \/ \E i \in Items : Create(p, i)
              \/ UpdateLimits(p) \/ ResetForPlanChange(p) \/ Die(p)
         \/ \E i \in Items : RowStep(i)
         \/ ClockStep \/ CouponStep
BY Zenon DEF Next, Continue, RowStep, ClockStep, CouponStep

\* Every step keeps the types.
LEMMA NextType == TypeInv /\ [Next]_vars => TypeInv'
<1>1. ASSUME TypeInv, Next  PROVE TypeInv'
  BY <1>1, Steps, StartType, CouponType, CapType, AlertType, CreateType,
     AdminType, RestType
<1>2. ASSUME TypeInv, UNCHANGED vars  PROVE TypeInv'
  BY <1>2 DEF TypeInv, TypeOK, CallsOK, vars, rows, clock, gates, mails, bounds
<1> QED  BY <1>1, <1>2

\* Every variable has its type, with the knowledge of each call.
LEMMA TypesHold == Spec => []TypeInv
BY InitType, NextType, PTL DEF Spec

\* Orders, limits, histories and calls keep their types, for any number of
\* each.
THEOREM TypeCorrect == Spec => []TypeOK
<1>1. TypeInv => TypeOK
  BY DEF TypeInv
<1> QED  BY <1>1, TypesHold, PTL

-----------------------------------------------------------------------------
\* Alerts. A tag is written by a call that will mail, so whoever reads it may
\* leave the mail to that call; and until then the alert is some call's own.

Mailing(p, d) == call[p].phase = "mail" /\ Due(p) = d
Committed(p, d) ==
  /\ call[p].phase \in Alerting /\ Due(p) = d
  /\ call[p].phase = "alert" \/ call[p].tell

Settled(d) == d \in told \cup lost

TagsAreMailed ==
  \A k \in PlanKinds, a \in Alerts, m \in Months :
    limits[k][a] = m =>
      Settled(<<k, a, m>>) \/ \E p \in Procs : Mailing(p, <<k, a, m>>)

DueIsOwned ==
  \A d \in due : /\ d[1] \in PlanKinds
                 /\ Settled(d) \/ \E p \in Procs : Committed(p, d)

AlertInv == TagsAreMailed /\ DueIsOwned

\* The flags stay as they are.
SameFlags ==
  \A k \in PlanKinds, a \in Alerts : limits'[k][a] = limits[k][a]

\* The other calls go on as they were.
LEMMA OthersStay ==
  ASSUME TypeInv, NEW p \in Procs, NEW c, call' = [call EXCEPT ![p] = c],
         NEW q \in Procs, q # p, NEW d
  PROVE  Mailing(q, d)' = Mailing(q, d) /\ Committed(q, d)' = Committed(q, d)
BY DEF TypeInv, CallsOK, Mailing, Committed, Due

\* A call that has no alert open, or settles the one it has, disturbs nothing.
LEMMA SettledStep ==
  ASSUME TypeInv, AlertInv, NEW p \in Procs, NEW c,
         call' = [call EXCEPT ![p] = c],
         call[p].phase \in Alerting => Due(p) \in told' \cup lost',
         told \subseteq told', lost \subseteq lost', due' = due, SameFlags
  PROVE  AlertInv'
<1>1. \A d : Settled(d) => Settled(d)'
  BY DEF Settled
<1>2. \A d : Mailing(p, d) \/ Committed(p, d) => Settled(d)'
  BY DEF Mailing, Committed, Settled, Alerting
<1>3. TagsAreMailed'
  <2> SUFFICES ASSUME NEW k \in PlanKinds, NEW a \in Alerts, NEW m \in Months,
                      limits'[k][a] = m
               PROVE  \/ Settled(<<k, a, m>>)'
                      \/ \E q \in Procs : Mailing(q, <<k, a, m>>)'
    BY DEF TagsAreMailed
  <2>1. limits[k][a] = m
    BY DEF SameFlags
  <2>2. CASE Settled(<<k, a, m>>)
    BY <1>1, <2>2
  <2>3. CASE \E q \in Procs : Mailing(q, <<k, a, m>>)
    BY <1>2, <2>3, OthersStay
  <2> QED  BY <2>1, <2>2, <2>3 DEF AlertInv, TagsAreMailed
<1>4. DueIsOwned'
  <2> SUFFICES ASSUME NEW d \in due
               PROVE  /\ d[1] \in PlanKinds
                      /\ Settled(d)' \/ \E q \in Procs : Committed(q, d)'
    BY DEF DueIsOwned
  <2>1. CASE Settled(d)
    BY <1>1, <2>1 DEF AlertInv, DueIsOwned
  <2>2. CASE \E q \in Procs : Committed(q, d)
    BY <1>2, <2>2, OthersStay DEF AlertInv, DueIsOwned
  <2> QED  BY <2>1, <2>2 DEF AlertInv, DueIsOwned
<1> QED  BY <1>3, <1>4 DEF AlertInv

\* A call whose alert stays its own, with the tags as they were.
LEMMA CommittedStep ==
  ASSUME TypeInv, AlertInv, NEW p \in Procs, NEW c,
         call' = [call EXCEPT ![p] = c],
         call[p].phase # "mail",
         \A d : Committed(p, d) => Committed(p, d)' \/ Settled(d)
                                   \/ \E q \in Procs \ {p} : Mailing(q, d),
         told' = told, lost' = lost,
         due' \subseteq due \cup {d \in AlertIds : d[1] \in PlanKinds
                                                   /\ Committed(p, d)'},
         SameFlags
  PROVE  AlertInv'
<1>1. \A d : Settled(d)' = Settled(d)
  BY DEF Settled
<1>2. \A d : ~Mailing(p, d)
  BY DEF Mailing
<1>3. \A q \in Procs : \A d : Mailing(q, d) => Committed(q, d)
  BY DEF TypeInv, CallsOK, GoodCall, Mailing, Committed, Alerting
<1>4. TagsAreMailed'
  <2> SUFFICES ASSUME NEW k \in PlanKinds, NEW a \in Alerts, NEW m \in Months,
                      limits'[k][a] = m
               PROVE  \/ Settled(<<k, a, m>>)'
                      \/ \E q \in Procs : Mailing(q, <<k, a, m>>)'
    BY DEF TagsAreMailed
  <2>1. limits[k][a] = m
    BY DEF SameFlags
  <2>2. CASE Settled(<<k, a, m>>)
    BY <1>1, <2>2
  <2>3. CASE \E q \in Procs : Mailing(q, <<k, a, m>>)
    <3>1. PICK q \in Procs : Mailing(q, <<k, a, m>>)
      BY <2>3
    <3>2. q # p
      BY <1>2, <3>1
    <3> QED  BY <3>1, <3>2, OthersStay
  <2> QED  BY <2>1, <2>2, <2>3 DEF AlertInv, TagsAreMailed
<1>5. DueIsOwned'
  <2> SUFFICES ASSUME NEW d \in due'
               PROVE  /\ d[1] \in PlanKinds
                      /\ Settled(d)' \/ \E q \in Procs : Committed(q, d)'
    BY DEF DueIsOwned
  <2>1. CASE d \notin due
    BY <2>1
  <2>2. CASE d \in due /\ Settled(d)
    BY <1>1, <2>2 DEF AlertInv, DueIsOwned
  <2>3. CASE d \in due /\ \E q \in Procs : Committed(q, d)
    <3>1. PICK q \in Procs : Committed(q, d)
      BY <2>3
    <3>2. CASE q # p
      BY <2>3, <3>1, <3>2, OthersStay DEF AlertInv, DueIsOwned
    <3>3. CASE q = p
      <4>1. CASE Committed(p, d)' \/ Settled(d)
        BY <1>1, <2>3, <4>1 DEF AlertInv, DueIsOwned
      <4>2. CASE \E r \in Procs \ {p} : Mailing(r, d)
        <5>1. PICK r \in Procs \ {p} : Mailing(r, d)
          BY <4>2
        <5>2. Committed(r, d)
          BY <1>3, <5>1
        <5>3. Committed(r, d)'
          BY <5>1, <5>2, OthersStay
        <5> QED  BY <2>3, <5>3 DEF AlertInv, DueIsOwned
      <4> QED  BY <3>1, <3>3, <4>1, <4>2
    <3> QED  BY <3>2, <3>3
  <2> QED  BY <2>1, <2>2, <2>3 DEF AlertInv, DueIsOwned
<1> QED  BY <1>4, <1>5 DEF AlertInv

\* Steps that have nothing to do with an alert, or end one.
LEMMA PlainAlertSteps ==
  ASSUME TypeInv, AlertInv, NEW p \in Procs,
         \/ Start(p) \/ CountTotalUses(p) \/ CountUserUses(p) \/ ReadCap(p)
         \/ GiveUp(p) \/ SendOtp(p) \/ (\E i \in Items : Create(p, i))
         \/ SendLimitAlert(p) \/ LoseLimitAlert(p) \/ Die(p)
  PROVE  AlertInv'
<1>1. CASE Start(p)
  <2>1. \E c : call' = [call EXCEPT ![p] = c]
    BY <1>1 DEF Start, StartOrder, StartSubscribe, StartRegister,
                StartUpdateLimits, StartPlanChange, Begin
  <2>2. call[p].phase \notin Alerting
    BY <1>1 DEF Start, StartOrder, StartSubscribe, StartRegister,
                StartUpdateLimits, StartPlanChange, Begin, Idle, Alerting
  <2>3. UNCHANGED <<limits, due, told, lost>>
    BY <1>1 DEF Start, StartOrder, StartSubscribe, StartRegister,
                StartUpdateLimits, StartPlanChange, Begin, rows, mails
  <2> QED  BY <2>1, <2>2, <2>3, SettledStep DEF SameFlags
<1>2. CASE CountTotalUses(p) \/ CountUserUses(p)
  <2>1. PICK phase \in {"total", "perUser"}, next \in {"perUser", "cap"} :
          \E g, cap : CountRedemptions(p, phase, g, cap, next)
    BY <1>2 DEF CountTotalUses, CountUserUses
  <2>2. \E c : call' = [call EXCEPT ![p] = c]
    BY <2>1 DEF CountRedemptions, Goto, Return, Pass
  <2>3. call[p].phase \notin Alerting
    BY <2>1 DEF CountRedemptions, In, Alerting
  <2>4. UNCHANGED <<limits, due, told, lost>>
    BY <2>1 DEF CountRedemptions, rows, mails
  <2> QED  BY <2>2, <2>3, <2>4, SettledStep DEF SameFlags
<1>3. CASE ReadCap(p) \/ GiveUp(p) \/ SendOtp(p) \/ \E i \in Items : Create(p, i)
  <2>1. \E c : call' = [call EXCEPT ![p] = c]
    BY <1>3 DEF ReadCap, GiveUp, SendOtp, Create, Goto, Return
  <2>2. call[p].phase \notin Alerting
    BY <1>3 DEF ReadCap, GiveUp, SendOtp, Create, In, Alerting
  <2>3. UNCHANGED <<limits, due, told, lost>>
    BY <1>3 DEF ReadCap, GiveUp, SendOtp, Create, rows, mails
  <2> QED  BY <2>1, <2>2, <2>3, SettledStep DEF SameFlags
<1>4. CASE SendLimitAlert(p) \/ LoseLimitAlert(p) \/ Die(p)
  <2>1. \E c : call' = [call EXCEPT ![p] = c]
    BY <1>4 DEF SendLimitAlert, LoseLimitAlert, Die, Proceed, Goto, Return
  <2>2. /\ call[p].phase \in Alerting => Due(p) \in told' \cup lost'
        /\ told \subseteq told' /\ lost \subseteq lost'
    BY <1>4 DEF SendLimitAlert, LoseLimitAlert, Die
  <2>3. UNCHANGED <<limits, due>>
    BY <1>4 DEF SendLimitAlert, LoseLimitAlert, Die, rows
  <2> QED  BY <2>1, <2>2, <2>3, SettledStep DEF SameFlags
<1> QED  BY <1>1, <1>2, <1>3, <1>4

\* The count that calls for an alert makes it the call's own.
LEMMA CountUsageAlert ==
  ASSUME TypeInv, AlertInv, NEW p \in Procs, CountUsage(p)
  PROVE  AlertInv'
<1> DEFINE c == call[p]
           used == Used(c.kind, c.stamp)
           alert == IF used >= c.cap THEN "hit" ELSE "near"
           alerts == c.kind # "signup" /\ (used >= c.cap \/ Near(used, c.cap))
           d == [c EXCEPT !.phase = IF alerts THEN "alert" ELSE "block",
                          !.passed = {}]
           e == [c EXCEPT !.phase = IF alerts THEN "alert" ELSE "create",
                          !.alert = "near", !.passed = @ \cup {c.kind}]
           n == IF used >= c.cap THEN d ELSE e
<1>1. /\ c \in Calls /\ c.kind \in Kinds /\ c.stamp \in Months /\ call \in [Procs -> Calls]
      /\ c.phase = "count" /\ c.alert = "hit"
  BY DEF TypeInv, CallsOK, Calls, CountUsage, In, GoodCall
<1>2. call' = [call EXCEPT ![p] = n]
  BY DEF CountUsage, Pass
<1>3. /\ n.kind = c.kind /\ n.stamp = c.stamp /\ n.alert = alert
      /\ alerts => n.phase = "alert"
  BY <1>1 DEF Calls
<1>4. due' = IF alerts THEN due \cup {<<c.kind, alert, c.stamp>>} ELSE due
  BY DEF CountUsage
<1>5. told' = told /\ lost' = lost /\ limits' = limits
  BY DEF CountUsage, rows
<1>6. alert \in Alerts /\ (alerts => c.kind \in PlanKinds)
  BY <1>1 DEF Alerts, Kinds
<1> HIDE DEF n, alert, alerts, used
<1>7. call'[p] = n
  BY <1>1, <1>2
<1>8. PICK y : y = <<c.kind, alert, c.stamp>>
  OBVIOUS
<1>9. Due(p)' = y
  BY <1>3, <1>7, <1>8 DEF Due
<1>10. alerts => /\ y[1] \in PlanKinds /\ y \in AlertIds
                 /\ Committed(p, y)'
  BY <1>1, <1>3, <1>6, <1>7, <1>8, <1>9 DEF Committed, Alerting, AlertIds
<1>11. due' \subseteq due \cup {x \in AlertIds : x[1] \in PlanKinds
                                                 /\ Committed(p, x)'}
  BY <1>4, <1>8, <1>10
<1>12. \A x : ~Committed(p, x)
  BY <1>1 DEF Committed, Alerting
<1> QED  BY <1>1, <1>2, <1>5, <1>11, <1>12, CommittedStep DEF SameFlags

\* Whoever sees a tag leaves the mail to the one who wrote it.
LEMMA ReadFlagsAlert ==
  ASSUME TypeInv, AlertInv, NEW p \in Procs, ReadFlags(p)
  PROVE  AlertInv'
<1> DEFINE c == call[p]
           tell == limits[c.kind][c.alert] # c.stamp
           n == OneMore(c.kind, c.stamp)
           next == IF c.alert = "hit" THEN "block" ELSE "flag"
           d == [c EXCEPT !.phase = next, !.tell = tell, !.blocked = n]
           e == [c EXCEPT !.phase = "create"]
<1>1. /\ c \in Calls /\ c.phase = "alert" /\ c.kind \in PlanKinds
      /\ c.alert \in Alerts /\ c.stamp \in Months /\ call \in [Procs -> Calls]
  BY DEF TypeInv, CallsOK, Calls, ReadFlags, In, GoodCall
<1>2. \/ c.alert = "near" /\ ~tell /\ call' = [call EXCEPT ![p] = e]
      \/ ~(c.alert = "near" /\ ~tell) /\ call' = [call EXCEPT ![p] = d]
  BY DEF ReadFlags, Goto
<1>3. UNCHANGED <<limits, due, told, lost>>
  BY DEF ReadFlags, rows, mails
<1>4. \A x : Committed(p, x) => x = <<c.kind, c.alert, c.stamp>>
  BY DEF Committed, Due
<1>5. CASE tell
  <2>1. call' = [call EXCEPT ![p] = d]
    BY <1>2, <1>5
  <2>2. /\ d.phase \in Alerting /\ d.tell /\ d.kind = c.kind
        /\ d.alert = c.alert /\ d.stamp = c.stamp
    BY <1>1, <1>5 DEF Calls, Alerting
  <2> HIDE DEF d
  <2>3. call'[p] = d
    BY <1>1, <2>1
  <2>4. \A x : Committed(p, x) => Committed(p, x)'
    BY <1>4, <2>2, <2>3 DEF Committed, Due
  <2> QED  BY <1>1, <1>3, <2>1, <2>4, CommittedStep DEF SameFlags
<1>6. CASE ~tell
  <2>1. \E x : call' = [call EXCEPT ![p] = x]
    BY <1>2
  <2>2. \/ Settled(<<c.kind, c.alert, c.stamp>>)
        \/ \E q \in Procs : Mailing(q, <<c.kind, c.alert, c.stamp>>)
    BY <1>1, <1>6 DEF AlertInv, TagsAreMailed
  <2>3. \A x : ~Mailing(p, x)
    BY <1>1 DEF Mailing
  <2>4. \A x : Committed(p, x) => Settled(x)
                                  \/ \E q \in Procs \ {p} : Mailing(q, x)
    BY <1>4, <2>2, <2>3
  <2> QED  BY <1>1, <1>3, <2>1, <2>4, CommittedStep DEF SameFlags
<1> QED  BY <1>5, <1>6

\* The refusal is counted; the alert stays the call's own.
LEMMA WriteBlockedAlert ==
  ASSUME TypeInv, AlertInv, NEW p \in Procs, WriteBlocked(p)
  PROVE  AlertInv'
<1> DEFINE c == call[p]
           d == [c EXCEPT !.phase = "flag"]
<1>1. /\ c \in Calls /\ c.phase = "block" /\ c.kind \in Kinds
      /\ call \in [Procs -> Calls]
  BY DEF TypeInv, CallsOK, Calls, WriteBlocked, In
<1>2. SameFlags
  <2>1. limits \in [Kinds -> LimitRows]
    BY DEF TypeInv, TypeOK
  <2>2. \A r \in LimitRows :
          LET s == [r EXCEPT !.blocked = c.blocked, !.blockedMonth = c.stamp]
          IN  s.near = r.near /\ s.hit = r.hit
    BY DEF LimitRows
  <2>3. limits' = [limits EXCEPT ![c.kind] =
                     [limits[c.kind] EXCEPT !.blocked = c.blocked,
                                            !.blockedMonth = c.stamp]]
    BY DEF WriteBlocked
  <2>4. \A k \in Kinds : limits'[k].near = limits[k].near
                         /\ limits'[k].hit = limits[k].hit
    BY <1>1, <2>1, <2>2, <2>3
  <2> QED  BY <2>4 DEF SameFlags, Alerts, Kinds
<1>3. UNCHANGED <<due, told, lost>>
  BY DEF WriteBlocked, mails
<1>4. \A x : Committed(p, x) => c.tell
  BY <1>1 DEF Committed
<1>5. CASE c.tell
  <2>1. call' = [call EXCEPT ![p] = d]
    BY <1>5 DEF WriteBlocked, Goto
  <2>2. /\ d.phase \in Alerting /\ d.tell = c.tell /\ d.kind = c.kind
        /\ d.alert = c.alert /\ d.stamp = c.stamp
    BY <1>1 DEF Calls, Alerting
  <2> HIDE DEF d
  <2>3. call'[p] = d
    BY <1>1, <2>1
  <2>4. \A x : Committed(p, x) => Committed(p, x)'
    BY <1>5, <2>2, <2>3 DEF Committed, Due
  <2> QED  BY <1>1, <1>2, <1>3, <2>1, <2>4, CommittedStep
<1>6. CASE ~c.tell
  <2>1. \E x : call' = [call EXCEPT ![p] = x]
    BY <1>6 DEF WriteBlocked, Return
  <2>2. \A x : ~Committed(p, x)
    BY <1>4, <1>6
  <2> QED  BY <1>1, <1>2, <1>3, <2>1, <2>2, CommittedStep
<1> QED  BY <1>5, <1>6

\* The flag that a call writes is one it will mail.
LEMMA WriteFlagAlert ==
  ASSUME TypeInv, AlertInv, NEW p \in Procs, WriteFlag(p)
  PROVE  AlertInv'
<1> DEFINE c == call[p]
           d == [c EXCEPT !.phase = "mail"]
           row == [limits[c.kind] EXCEPT ![c.alert] = c.stamp]
<1>1. /\ c \in Calls /\ c.phase = "flag" /\ c.kind \in PlanKinds
      /\ c.alert \in Alerts /\ c.stamp \in Months /\ c.tell
      /\ call \in [Procs -> Calls] /\ limits \in [Kinds -> LimitRows]
  BY DEF TypeInv, CallsOK, Calls, WriteFlag, In, GoodCall, TypeOK
<1>2. UNCHANGED <<due, told, lost>> /\ call' = [call EXCEPT ![p] = d]
  BY DEF WriteFlag, mails, Goto
<1>3. /\ d.phase = "mail" /\ d.tell = c.tell /\ d.kind = c.kind
      /\ d.alert = c.alert /\ d.stamp = c.stamp
  BY <1>1 DEF Calls
<1>4. limits' = [limits EXCEPT ![c.kind] = row]
  BY DEF WriteFlag
<1>5. /\ row[c.alert] = c.stamp
      /\ \A b \in Alerts : b # c.alert => row[b] = limits[c.kind][b]
  <2>1. limits[c.kind] \in LimitRows
    BY <1>1 DEF Kinds
  <2>2. PICK r \in LimitRows, a \in Alerts, m \in Months :
          r = limits[c.kind] /\ a = c.alert /\ m = c.stamp
    BY <1>1, <2>1
  <2>3. row = [r EXCEPT ![a] = m]
    BY <2>2
  <2> HIDE DEF row
  <2> QED  BY <2>2, <2>3, TagKeepsType
<1>6. PICK kind, alert, stamp : kind = c.kind /\ alert = c.alert /\ stamp = c.stamp
  OBVIOUS
<1> HIDE DEF d, row
<1>7. Mailing(p, <<kind, alert, stamp>>)'
  BY <1>1, <1>2, <1>3, <1>6 DEF Mailing, Due
<1>8. \A k \in PlanKinds, a \in Alerts :
        IF k = kind /\ a = alert THEN limits'[k][a] = stamp
        ELSE limits'[k][a] = limits[k][a]
  BY <1>1, <1>4, <1>5, <1>6 DEF Kinds
<1>9. \A x : Settled(x)' = Settled(x)
  BY <1>2 DEF Settled
<1>10. \A x : ~Mailing(p, x)
  BY <1>1 DEF Mailing
<1>11. TagsAreMailed'
  <2> SUFFICES ASSUME NEW k \in PlanKinds, NEW a \in Alerts, NEW m \in Months,
                      limits'[k][a] = m
               PROVE  \/ Settled(<<k, a, m>>)'
                      \/ \E q \in Procs : Mailing(q, <<k, a, m>>)'
    BY DEF TagsAreMailed
  <2>1. CASE k = kind /\ a = alert
    BY <1>7, <1>8, <2>1
  <2>2. CASE ~(k = kind /\ a = alert)
    <3>1. limits[k][a] = m
      BY <1>8, <2>2
    <3>2. CASE Settled(<<k, a, m>>)
      BY <1>9, <3>2
    <3>3. CASE \E q \in Procs : Mailing(q, <<k, a, m>>)
      <4>1. PICK q \in Procs : Mailing(q, <<k, a, m>>)
        BY <3>3
      <4>2. q # p
        BY <1>10, <4>1
      <4> QED  BY <1>2, <4>1, <4>2, OthersStay
    <3> QED  BY <3>1, <3>2, <3>3 DEF AlertInv, TagsAreMailed
  <2> QED  BY <2>1, <2>2
<1>12. DueIsOwned'
  <2> SUFFICES ASSUME NEW x \in due
               PROVE  /\ x[1] \in PlanKinds
                      /\ Settled(x)' \/ \E q \in Procs : Committed(q, x)'
    BY <1>2 DEF DueIsOwned
  <2>1. CASE Settled(x)
    BY <1>9, <2>1 DEF AlertInv, DueIsOwned
  <2>2. CASE \E q \in Procs : Committed(q, x)
    <3>1. PICK q \in Procs : Committed(q, x)
      BY <2>2
    <3>2. CASE q # p
      BY <1>2, <3>1, <3>2, OthersStay DEF AlertInv, DueIsOwned
    <3>3. CASE q = p
      <4>1. call'[p] = d
        BY <1>1, <1>2
      <4>2. Committed(p, x)'
        BY <1>1, <1>3, <3>1, <3>3, <4>1 DEF Committed, Due, Alerting
      <4> QED  BY <4>2 DEF AlertInv, DueIsOwned
    <3> QED  BY <3>2, <3>3
  <2> QED  BY <2>1, <2>2 DEF AlertInv, DueIsOwned
<1> QED  BY <1>11, <1>12 DEF AlertInv

\* Clearing the flags of some limits forgets the alerts about them.
LEMMA ClearStep ==
  ASSUME TypeInv, AlertInv, NEW p \in Procs, NEW ks, Return(p), Forget(ks),
         call[p].phase \notin Alerting, lost' = lost,
         \A k \in PlanKinds, a \in Alerts :
           IF k \in ks THEN limits'[k][a] = None
           ELSE limits'[k][a] = limits[k][a]
  PROVE  AlertInv'
<1>1. \A x : ~Mailing(p, x) /\ ~Committed(p, x)
  BY DEF Mailing, Committed, Alerting
<1>2. \A x : x[1] \notin ks /\ Settled(x) => Settled(x)'
  BY DEF Forget, Settled
<1>3. None \notin Months
  BY NoneAssumption, BoundsAssumption DEF Months
<1>4. TagsAreMailed'
  <2> SUFFICES ASSUME NEW k \in PlanKinds, NEW a \in Alerts, NEW m \in Months,
                      limits'[k][a] = m
               PROVE  \/ Settled(<<k, a, m>>)'
                      \/ \E q \in Procs : Mailing(q, <<k, a, m>>)'
    BY DEF TagsAreMailed
  <2>1. k \notin ks /\ limits[k][a] = m
    BY <1>3
  <2>2. CASE Settled(<<k, a, m>>)
    <3>1. <<k, a, m>>[1] = k
      OBVIOUS
    <3> QED  BY <1>2, <2>1, <2>2, <3>1
  <2>3. CASE \E q \in Procs : Mailing(q, <<k, a, m>>)
    <3>1. PICK q \in Procs : Mailing(q, <<k, a, m>>)
      BY <2>3
    <3>2. q # p
      BY <1>1, <3>1
    <3> QED  BY <3>1, <3>2, OthersStay DEF Return
  <2> QED  BY <2>1, <2>2, <2>3 DEF AlertInv, TagsAreMailed
<1>5. DueIsOwned'
  <2> SUFFICES ASSUME NEW x \in due, x[1] \notin ks
               PROVE  /\ x[1] \in PlanKinds
                      /\ Settled(x)' \/ \E q \in Procs : Committed(q, x)'
    BY DEF DueIsOwned, Forget
  <2>1. CASE Settled(x)
    BY <1>2, <2>1 DEF AlertInv, DueIsOwned
  <2>2. CASE \E q \in Procs : Committed(q, x)
    BY <1>1, <2>2, OthersStay DEF AlertInv, DueIsOwned, Return
  <2> QED  BY <2>1, <2>2 DEF AlertInv, DueIsOwned
<1> QED  BY <1>4, <1>5 DEF AlertInv

\* SUPER_ADMIN's writes and a new plan.
LEMMA ClearAlerts ==
  ASSUME TypeInv, AlertInv, NEW p \in Procs,
         UpdateLimits(p) \/ ResetForPlanChange(p)
  PROVE  AlertInv'
<1> DEFINE c == call[p]
<1>1. /\ c.kind \in Kinds /\ c.cap \in Caps /\ limits \in [Kinds -> LimitRows]
  BY DEF TypeInv, CallsOK, Calls, TypeOK
<1>2. /\ Return(p) /\ lost' = lost
      /\ call[p].phase \notin Alerting
  BY DEF UpdateLimits, ResetForPlanChange, In, Alerting
<1>3. \A a \in Alerts : Clean(c.cap)[a] = None /\ Clean(None)[a] = None
  BY <1>1, CleanRow DEF Caps, Maybe
<1>4. CASE UpdateLimits(p) /\ c.tell
  <2>1. limits' = [limits EXCEPT ![c.kind] = Clean(c.cap)] /\ Forget({c.kind})
    BY <1>4 DEF UpdateLimits
  <2>2. \A k \in PlanKinds, a \in Alerts :
          IF k \in {c.kind} THEN limits'[k][a] = None
          ELSE limits'[k][a] = limits[k][a]
    BY <1>1, <1>3, <2>1 DEF Kinds
  <2> QED  BY <1>2, <2>1, <2>2, ClearStep
<1>5. CASE UpdateLimits(p) /\ ~c.tell
  <2> DEFINE row == [limits[c.kind] EXCEPT !.override = c.cap]
  <2>1. limits' = [limits EXCEPT ![c.kind] = row] /\ UNCHANGED <<due, told>>
    BY <1>5 DEF UpdateLimits
  <2>2. row.near = limits[c.kind].near /\ row.hit = limits[c.kind].hit
    BY <1>1 DEF LimitRows
  <2>3. Forget({})
    BY <2>1 DEF Forget
  <2> HIDE DEF row
  <2>4. \A k \in PlanKinds, a \in Alerts : limits'[k][a] = limits[k][a]
    BY <1>1, <2>1, <2>2 DEF Kinds, Alerts
  <2> QED  BY <1>2, <2>3, <2>4, ClearStep
<1>6. CASE ResetForPlanChange(p)
  <2>1. Forget(PlanKinds)
    BY <1>6 DEF ResetForPlanChange
  <2>2. \A k \in PlanKinds, a \in Alerts :
          IF k \in PlanKinds THEN limits'[k][a] = None
          ELSE limits'[k][a] = limits[k][a]
    BY <1>3, <1>6 DEF ResetForPlanChange, Kinds
  <2> QED  BY <1>2, <2>1, <2>2, ClearStep
<1> QED  BY <1>4, <1>5, <1>6

\* The alerts' bookkeeping survives a step that touches none of it.
LEMMA SameAlerts ==
  ASSUME AlertInv, UNCHANGED <<limits, due, told, lost, call>>
  PROVE  AlertInv'
<1>1. \A x : Settled(x)' = Settled(x)
  BY DEF Settled
<1>2. \A q \in Procs : \A x : /\ Mailing(q, x)' = Mailing(q, x)
                              /\ Committed(q, x)' = Committed(q, x)
  BY DEF Mailing, Committed, Due
<1> QED  BY <1>1, <1>2 DEF AlertInv, TagsAreMailed, DueIsOwned

\* At first nothing is due and no flag is set.
LEMMA InitAlerts == Init => AlertInv
<1> SUFFICES ASSUME Init PROVE AlertInv
  OBVIOUS
<1>1. \A k \in PlanKinds, a \in Alerts : limits[k][a] = None
  BY CleanRow DEF Init, Kinds, Caps, Maybe
<1>2. None \notin Months
  BY NoneAssumption, BoundsAssumption DEF Months
<1> QED  BY <1>1, <1>2 DEF Init, AlertInv, TagsAreMailed, DueIsOwned

\* Every step keeps the alerts' bookkeeping.
LEMMA NextAlerts == TypeInv /\ AlertInv /\ [Next]_vars => AlertInv'
<1> SUFFICES ASSUME TypeInv, AlertInv, [Next]_vars PROVE AlertInv'
  OBVIOUS
<1>1. CASE Next
  <2>1. CASE (\E i \in Items : RowStep(i)) \/ ClockStep \/ CouponStep
    BY <2>1, SameAlerts
       DEF RowStep, CreateDineIn, Enter, ExpireSubscription,
           CancelSubscription, ReactivateSubscription, ClockStep, LocalMonthBegins, UtcMonthBegins,
           CouponStep, SetCoupon, rows, mails
  <2> QED  BY <1>1, <2>1, Steps, PlainAlertSteps, CountUsageAlert,
              ReadFlagsAlert, WriteBlockedAlert, WriteFlagAlert, ClearAlerts
<1>2. CASE UNCHANGED vars
  BY <1>2, SameAlerts DEF vars, rows, mails
<1> QED  BY <1>1, <1>2

\* Whatever the calls, plans and overrides, and wherever a call dies: at rest,
\* every alert that was called for since the flags were cleared has been mailed
\* or a fault took it.
THEOREM AlertsTold == Spec => []AlertsAreTold
<1>1. AlertInv => AlertsAreTold
  BY DEF AlertInv, DueIsOwned, Settled, Committed, Alerting, Idle, AlertsAreTold
<1> QED  BY <1>1, InitType, InitAlerts, NextType, NextAlerts, PTL DEF Spec

-----------------------------------------------------------------------------
\* Limits. A call that passes finds fewer rows than the cap, and whatever the
\* rest may still bring is the slack of that moment.

Open == {"waiting", "counted"}

Within(g, m) ==
  EarlierOf(g, m) + Cardinality(Passing(g, m)) + Cardinality(Admitted(g, m, Open))
    <= peak[g] + slack[g]

AllWithin == \A g \in Gates, m \in Months : Within(g, m)

\* The sets that are counted are finite.
LEMMA CountedSets ==
  ASSUME NEW g, NEW m
  PROVE  /\ IsFiniteSet(Passing(g, m)) /\ Passing(g, m) \subseteq Procs
         /\ \A S : IsFiniteSet(Admitted(g, m, S)) /\ Admitted(g, m, S) \subseteq Items
BY GatesAssumption, FS_Subset DEF Passing, Admitted, Of

\* A smaller set has no more elements.
LEMMA Fewer ==
  ASSUME NEW S, NEW T, IsFiniteSet(T), S \subseteq T
  PROVE  /\ IsFiniteSet(S) /\ Cardinality(S) \in Nat /\ Cardinality(T) \in Nat
         /\ Cardinality(S) <= Cardinality(T)
BY FS_Subset, FS_CardinalityType

\* A set with one element taken from it, and one with one more.
LEMMA OneFewer ==
  ASSUME NEW S, NEW T, NEW x, IsFiniteSet(T), x \in T, S \subseteq T \ {x}
  PROVE  /\ IsFiniteSet(S) /\ Cardinality(S) \in Nat /\ Cardinality(T) \in Nat
         /\ Cardinality(S) + 1 <= Cardinality(T)
<1>1. IsFiniteSet(T \ {x}) /\ Cardinality(T \ {x}) = Cardinality(T) - 1
  BY FS_RemoveElement
<1> QED  BY <1>1, Fewer, FS_CardinalityType

LEMMA OneLarger ==
  ASSUME NEW S, NEW T, NEW x, IsFiniteSet(T), S \subseteq T \cup {x}
  PROVE  /\ IsFiniteSet(S) /\ Cardinality(S) \in Nat /\ Cardinality(T) \in Nat
         /\ Cardinality(S) <= Cardinality(T) + 1
<1>1. /\ IsFiniteSet(T \cup {x})
      /\ Cardinality(T \cup {x}) \in {Cardinality(T), Cardinality(T) + 1}
  BY FS_AddElement
<1> QED  BY <1>1, Fewer, FS_CardinalityType

\* Nothing more passes, nothing more is admitted.
LEMMA ShrinkStep ==
  ASSUME TypeInv, TypeInv', NEW g \in Gates, NEW m \in Months, Within(g, m),
         Passing(g, m)' \subseteq Passing(g, m),
         Admitted(g, m, Open)' \subseteq Admitted(g, m, Open),
         peak'[g] >= peak[g], slack'[g] >= slack[g]
  PROVE  Within(g, m)'
<1>1. /\ Cardinality(Passing(g, m)') \in Nat /\ Cardinality(Passing(g, m)) \in Nat
      /\ Cardinality(Passing(g, m)') <= Cardinality(Passing(g, m))
  BY Fewer, CountedSets
<1>2. /\ Cardinality(Admitted(g, m, Open)') \in Nat
      /\ Cardinality(Admitted(g, m, Open)) \in Nat
      /\ Cardinality(Admitted(g, m, Open)') <= Cardinality(Admitted(g, m, Open))
  BY Fewer, CountedSets
<1>3. EarlierOf(g, m) \in Nat /\ EarlierOf(g, m)' = EarlierOf(g, m)
  BY CountsAreNumbers DEF EarlierOf
<1>4. /\ peak[g] \in Nat /\ slack[g] \in Nat
      /\ peak'[g] \in Nat /\ slack'[g] \in Nat
  BY DEF TypeInv, TypeOK
<1> QED  BY <1>1, <1>2, <1>3, <1>4 DEF Within

\* A slot changes to a call that has passed no more.
LEMMA SlotShrinks ==
  ASSUME TypeInv, NEW p \in Procs, NEW c, call' = [call EXCEPT ![p] = c],
         c.passed \subseteq call[p].passed,
         c.passed \cap Monthly = {} \/ c.stamp = call[p].stamp,
         NEW g, NEW m
  PROVE  Passing(g, m)' \subseteq Passing(g, m)
BY DEF TypeInv, CallsOK, Passing

\* Such a step, with the rows as they were.
LEMMA QuietStep ==
  ASSUME TypeInv, TypeInv', AllWithin, NEW p \in Procs, NEW c,
         call' = [call EXCEPT ![p] = c], c.passed \subseteq call[p].passed,
         c.passed \cap Monthly = {} \/ c.stamp = call[p].stamp,
         UNCHANGED <<item, peak, slack>>
  PROVE  AllWithin'
<1> SUFFICES ASSUME NEW g \in Gates, NEW m \in Months PROVE Within(g, m)'
  BY DEF AllWithin
<1>1. Admitted(g, m, Open)' = Admitted(g, m, Open)
  BY DEF Admitted, Of
<1>2. Passing(g, m)' \subseteq Passing(g, m)
  BY SlotShrinks
<1>3. peak'[g] >= peak[g] /\ slack'[g] >= slack[g]
  BY DEF TypeInv, TypeOK
<1> QED  BY <1>1, <1>2, <1>3, ShrinkStep DEF AllWithin

\* A call passes gate g below its cap.
LEMMA PassStep ==
  ASSUME TypeInv, TypeInv', AllWithin, NEW p \in Procs, NEW g \in Gates,
         NEW cap \in Nat, NEW stamp \in Months, NEW c, item' = item,
         Pass(p, g, cap, stamp, c), Used(g, stamp) < cap,
         c.passed = call[p].passed \cup {g}, c.stamp = call[p].stamp,
         g \in Monthly => c.stamp = stamp
  PROVE  AllWithin'
<1> SUFFICES ASSUME NEW h \in Gates, NEW m \in Months PROVE Within(h, m)'
  BY DEF AllWithin
<1>1. /\ call' = [call EXCEPT ![p] = c] /\ call \in [Procs -> Calls]
      /\ peak \in [Gates -> Nat] /\ slack \in [Gates -> Nat]
  BY DEF Pass, TypeInv, CallsOK, TypeOK
<1>2. /\ peak' = [peak EXCEPT ![g] = Larger(@, cap)]
      /\ slack' = [slack EXCEPT ![g] = Larger(@, Uncounted(g, stamp))]
  BY DEF Pass
<1>3. /\ peak'[h] >= peak[h] /\ slack'[h] >= slack[h]
      /\ h = g => peak'[h] >= cap /\ slack'[h] >= Uncounted(g, stamp)
  BY <1>1, <1>2, CountsAreNumbers DEF Larger
<1>4. Admitted(h, m, Open)' = Admitted(h, m, Open)
  BY DEF Admitted, Of
<1>5. CASE h # g \/ (g \in Monthly /\ m # stamp)
  <2>1. Passing(h, m)' \subseteq Passing(h, m)
    BY <1>1, <1>5 DEF Passing
  <2> QED  BY <1>3, <1>4, <2>1, ShrinkStep DEF AllWithin
<1>6. CASE h = g /\ (g \in Monthly => m = stamp)
  <2>1. /\ Used(g, m) = Used(g, stamp) /\ Uncounted(g, m) = Uncounted(g, stamp)
    <3>1. Of(g, m) = Of(g, stamp) /\ EarlierOf(g, m) = EarlierOf(g, stamp)
      BY <1>6 DEF Of, EarlierOf
    <3>2. Passing(g, m) = Passing(g, stamp)
      BY <1>6 DEF Passing
    <3> QED  BY <3>1, <3>2 DEF Used, Uncounted, Admitted
  <2> DEFINE P == Passing(g, m)
             Q == Passing(g, m)'
             W == Admitted(g, m, {"waiting"})
             C == {i \in Of(g, m) : item[i].status = "counted"}
             A == Admitted(g, m, Open)
  <2>2. Q \subseteq P \cup {p}
    BY <1>1 DEF Passing
  <2>3. A \subseteq W \cup C
    BY DEF Admitted, Open
  <2>4. IsFiniteSet(P) /\ IsFiniteSet(W) /\ IsFiniteSet(C)
    BY CountedSets, GatesAssumption, FS_Subset DEF Of
  <2>5. /\ Used(g, m) = EarlierOf(g, m) + Cardinality(C)
        /\ Uncounted(g, m) = Cardinality(P) + Cardinality(W)
    BY DEF Used, Uncounted
  <2> HIDE DEF P, Q, W, C, A
  <2>6. /\ Cardinality(Q) \in Nat /\ Cardinality(P) \in Nat
        /\ Cardinality(Q) <= Cardinality(P) + 1
    BY <2>2, <2>4, OneLarger
  <2>7. /\ IsFiniteSet(W \cup C)
        /\ Cardinality(W \cup C) <= Cardinality(W) + Cardinality(C)
        /\ Cardinality(W) \in Nat /\ Cardinality(C) \in Nat
    <3>1. Cardinality(W \cap C) \in Nat
      BY <2>4, FS_Intersection, FS_CardinalityType
    <3>2. Cardinality(W) \in Nat /\ Cardinality(C) \in Nat
      BY <2>4, FS_CardinalityType
    <3>3. /\ IsFiniteSet(W \cup C)
          /\ Cardinality(W \cup C)
               = Cardinality(W) + Cardinality(C) - Cardinality(W \cap C)
      BY <2>4, FS_Union
    <3> QED  BY <3>1, <3>2, <3>3
  <2>8. Cardinality(A) \in Nat /\ Cardinality(A) <= Cardinality(W) + Cardinality(C)
    BY <2>3, <2>7, Fewer
  <2>9. EarlierOf(g, m) \in Nat
    BY CountsAreNumbers
  <2>10. EarlierOf(g, m) + Cardinality(Q) + Cardinality(A) <= cap + Uncounted(g, m)
    BY <2>1, <2>5, <2>6, <2>7, <2>8, <2>9
  <2>11. Within(g, m)' <=> EarlierOf(g, m) + Cardinality(Q) + Cardinality(A)
                             <= peak'[g] + slack'[g]
    BY <1>4, <1>6 DEF Within, EarlierOf, Q, A
  <2>12. /\ peak'[g] \in Nat /\ slack'[g] \in Nat
         /\ peak'[g] >= cap /\ slack'[g] >= Uncounted(g, m)
         /\ Uncounted(g, m) \in Nat
    BY <1>3, <1>6, <2>1, CountsAreNumbers DEF TypeInv, TypeOK
  <2> QED  BY <1>6, <2>6, <2>8, <2>9, <2>10, <2>11, <2>12
<1> QED  BY <1>5, <1>6

\* Calls that begin, end or go on, and pass no gate.
LEMMA QuietSteps ==
  ASSUME TypeInv, TypeInv', AllWithin, NEW p \in Procs,
         \/ Start(p) \/ ReadCap(p) \/ GiveUp(p)
         \/ ReadFlags(p) \/ WriteBlocked(p) \/ WriteFlag(p)
         \/ SendLimitAlert(p) \/ LoseLimitAlert(p) \/ Die(p)
         \/ UpdateLimits(p) \/ ResetForPlanChange(p)
  PROVE  AllWithin'
<1> DEFINE c == call[p]
<1>1. /\ c \in Calls /\ GoodCall(c) /\ NoCall.passed = {}
  BY RestIsGood DEF TypeInv, CallsOK, GoodCall, NoCall
<1>2. Return(p) => \E d : /\ call' = [call EXCEPT ![p] = d]
                          /\ d.passed = {}
  BY <1>1 DEF Return
<1>3. \A next : Goto(p, next) => \E d : /\ call' = [call EXCEPT ![p] = d]
                                        /\ d.passed = c.passed /\ d.stamp = c.stamp
  BY <1>1 DEF Goto, Calls
<1>4. CASE Start(p)
  <2>1. \A u, k, x, b, n :
          /\ [NoCall EXCEPT !.user = u, !.phase = x].passed = {}
          /\ [NoCall EXCEPT !.phase = x, !.kind = k].passed = {}
          /\ [NoCall EXCEPT !.phase = x].passed = {}
          /\ [NoCall EXCEPT !.phase = x, !.kind = k, !.cap = n, !.tell = b].passed
               = {}
    BY DEF NoCall
  <2>2. \E d : /\ Begin(p, d) \/ call' = [call EXCEPT ![p] = d]
               /\ d.passed = {}
    <3>1. CASE \E user \in Maybe(Customers) : StartOrder(p, user)
      BY <2>1, <3>1 DEF StartOrder
    <3>2. CASE StartSubscribe(p) \/ StartRegister(p)
      BY <2>1, <3>2 DEF StartSubscribe, StartRegister
    <3>3. CASE \E k \in Kinds, new \in Overrides : StartUpdateLimits(p, k, new)
      BY <2>1, <3>3 DEF StartUpdateLimits
    <3>4. CASE \E new \in Plans : StartPlanChange(p, new)
      BY <2>1, <3>4 DEF StartPlanChange
    <3> QED  BY <1>4, <3>1, <3>2, <3>3, <3>4 DEF Start
  <2>3. \E d : call' = [call EXCEPT ![p] = d] /\ d.passed = {}
    BY <2>2 DEF Begin
  <2>4. UNCHANGED <<item, peak, slack>>
    BY <1>4 DEF Start, StartOrder, StartSubscribe, StartRegister,
                StartUpdateLimits, StartPlanChange, Begin, rows, gates
  <2> QED  BY <2>3, <2>4, QuietStep
<1>5. CASE ReadCap(p)
  <2>1. c.passed \cap Monthly = {}
    BY <1>1, <1>5 DEF ReadCap, In, GoodCall, Kinds, PlanKinds, Monthly
  <2>2. \E d : call' = [call EXCEPT ![p] = d] /\ d.passed = c.passed
    BY <1>1, <1>5 DEF ReadCap, Goto, Calls
  <2>3. UNCHANGED <<item, peak, slack>>
    BY <1>5 DEF ReadCap, rows, gates
  <2> QED  BY <2>1, <2>2, <2>3, QuietStep
<1>6. CASE GiveUp(p) \/ Die(p) \/ UpdateLimits(p) \/ ResetForPlanChange(p)
  <2>1. UNCHANGED <<item, peak, slack>> /\ Return(p)
    BY <1>6 DEF GiveUp, Die, UpdateLimits, ResetForPlanChange, rows, gates
  <2> QED  BY <1>2, <2>1, QuietStep
<1>7. CASE ReadFlags(p)
  <2> DEFINE tell == limits[c.kind][c.alert] # c.stamp
             n == OneMore(c.kind, c.stamp)
             next == IF c.alert = "hit" THEN "block" ELSE "flag"
             d == [c EXCEPT !.phase = next, !.tell = tell, !.blocked = n]
  <2>1. d.passed = c.passed /\ d.stamp = c.stamp
    BY <1>1 DEF Calls
  <2>2. Goto(p, "create") \/ call' = [call EXCEPT ![p] = d]
    BY <1>7 DEF ReadFlags
  <2> HIDE DEF d
  <2>3. \E e : /\ call' = [call EXCEPT ![p] = e]
               /\ e.passed = c.passed /\ e.stamp = c.stamp
    BY <1>3, <2>1, <2>2
  <2>4. UNCHANGED <<item, peak, slack>>
    BY <1>7 DEF ReadFlags, rows, gates
  <2> QED  BY <2>3, <2>4, QuietStep
<1>8. CASE \/ WriteBlocked(p) \/ WriteFlag(p)
           \/ SendLimitAlert(p) \/ LoseLimitAlert(p)
  <2>1. Return(p) \/ \E next : Goto(p, next)
    BY <1>8 DEF WriteBlocked, WriteFlag, SendLimitAlert, LoseLimitAlert, Proceed
  <2>2. UNCHANGED <<item, peak, slack>>
    BY <1>8 DEF WriteBlocked, WriteFlag, SendLimitAlert, LoseLimitAlert, rows,
                gates
  <2> QED  BY <1>2, <1>3, <2>1, <2>2, QuietStep
<1> QED  BY <1>4, <1>5, <1>6, <1>7, <1>8

\* The counts of the coupon.
LEMMA RedemptionsWithin ==
  ASSUME TypeInv, TypeInv', AllWithin, NEW p \in Procs, NEW phase,
         NEW g \in Gates, NEW cap \in Caps, NEW next, g \notin Kinds,
         CountRedemptions(p, phase, g, cap, next)
  PROVE  AllWithin'
<1> DEFINE c == call[p]
           d == [c EXCEPT !.phase = next]
           e == [c EXCEPT !.phase = next, !.passed = @ \cup {g}]
<1>1. c \in Calls /\ NoCall.passed = {} /\ item' = item
  BY DEF TypeInv, CallsOK, NoCall, CountRedemptions, rows
<1>2. /\ d.passed = c.passed /\ d.stamp = c.stamp
      /\ e.passed = c.passed \cup {g} /\ e.stamp = c.stamp
  BY <1>1 DEF Calls
<1>3. CASE cap = None
  <2>1. call' = [call EXCEPT ![p] = d] /\ UNCHANGED <<item, peak, slack>>
    BY <1>1, <1>3 DEF CountRedemptions, Goto, gates
  <2> HIDE DEF d
  <2> QED  BY <1>2, <2>1, QuietStep
<1>4. CASE cap # None /\ Used(g, 0) >= cap
  <2>1. Return(p) /\ UNCHANGED <<item, peak, slack>>
    BY <1>1, <1>4 DEF CountRedemptions, gates
  <2> QED  BY <1>1, <2>1, QuietStep DEF Return
<1>5. CASE cap # None /\ ~(Used(g, 0) >= cap)
  <2>1. Pass(p, g, cap, 0, e) /\ cap \in Nat
    BY <1>5 DEF CountRedemptions, Caps, Maybe
  <2>2. Used(g, 0) < cap /\ 0 \in Months
    BY <1>5, <2>1, CountsAreNumbers, BoundsAssumption DEF Months
  <2>3. g \notin Monthly
    BY DEF Monthly, Kinds, PlanKinds
  <2> HIDE DEF e
  <2> QED  BY <1>1, <1>2, <2>1, <2>2, <2>3, PassStep
<1> QED  BY <1>3, <1>4, <1>5

\* The counts of the three caps and of the coupon.
LEMMA CountsWithin ==
  ASSUME TypeInv, TypeInv', AllWithin, NEW p \in Procs,
         CountTotalUses(p) \/ CountUserUses(p) \/ CountUsage(p)
  PROVE  AllWithin'
<1> DEFINE c == call[p]
<1>1. c \in Calls /\ GoodCall(c) /\ c.kind \in Gates /\ c.stamp \in Months
  BY DEF TypeInv, CallsOK, Calls, Gates
<1>2. CouponUses["total"] \in Caps /\ CouponUses["perUser"] \in Caps
  BY LimitsAssumption
<1>3. CASE CountTotalUses(p)
  <2>1. "coupon" \in Gates /\ "coupon" \notin Kinds
    BY DEF Gates, Kinds, PlanKinds
  <2> QED  BY <1>2, <1>3, <2>1, RedemptionsWithin DEF CountTotalUses
<1>4. CASE CountUserUses(p)
  <2>1. c.user \in Gates /\ c.user \notin Kinds
    BY <1>1, <1>4, GatesAssumption
       DEF CountUserUses, CountRedemptions, In, GoodCall, Gates
  <2> QED  BY <1>2, <1>4, <2>1, RedemptionsWithin DEF CountUserUses
<1>5. CASE CountUsage(p)
  <2> DEFINE used == Used(c.kind, c.stamp)
             alerts == c.kind # "signup" /\ (used >= c.cap \/ Near(used, c.cap))
             d == [c EXCEPT !.phase = IF alerts THEN "alert" ELSE "block",
                            !.passed = {}]
             e == [c EXCEPT !.phase = IF alerts THEN "alert" ELSE "create",
                            !.alert = "near", !.passed = @ \cup {c.kind}]
  <2>1. item' = item /\ c.cap \in Nat /\ used \in Nat
    BY <1>1, <1>5, CountsAreNumbers DEF CountUsage, In, GoodCall, rows
  <2>2. /\ d.passed = {}
        /\ e.passed = c.passed \cup {c.kind} /\ e.stamp = c.stamp
    BY <1>1 DEF Calls
  <2>3. CASE used >= c.cap
    <3>1. call' = [call EXCEPT ![p] = d] /\ UNCHANGED <<item, peak, slack>>
      BY <1>5, <2>1, <2>3 DEF CountUsage, gates
    <3> HIDE DEF d
    <3> QED  BY <2>2, <3>1, QuietStep
  <2>4. CASE ~(used >= c.cap)
    <3>1. Pass(p, c.kind, c.cap, c.stamp, e)
      BY <1>5, <2>4 DEF CountUsage
    <3>2. used < c.cap
      BY <2>1, <2>4
    <3> HIDE DEF e
    <3> QED  BY <1>1, <2>1, <2>2, <3>1, <3>2, PassStep
  <2> QED  BY <2>3, <2>4
<1> QED  BY <1>3, <1>4, <1>5

\* A row that is made takes the place of the call that passed for it.
LEMMA CreateWithin ==
  ASSUME TypeInv, TypeInv', AllWithin, NEW p \in Procs, NEW i \in Items,
         Create(p, i)
  PROVE  AllWithin'
<1> DEFINE c == call[p]
           m == IF c.kind \in Monthly THEN utc ELSE 0
           r == [status |-> IF c.kind = "signup" THEN "counted" ELSE "waiting",
                 kind |-> c.kind, user |-> c.user, month |-> m,
                 checked |-> Checked(p, m)]
<1>1. /\ call \in [Procs -> Calls] /\ item \in [Items -> ItemRows]
      /\ UNCHANGED <<peak, slack>> /\ NoCall.passed = {}
      /\ item[i].status = "none"
  BY DEF TypeInv, CallsOK, TypeOK, Create, gates, NoCall
<1>2. PICK d : call' = [call EXCEPT ![p] = d] /\ d.passed = {}
  <2>1. [NoCall EXCEPT !.phase = "otp", !.kind = "signup", !.item = i].passed = {}
    BY DEF NoCall
  <2> QED  BY <1>1, <2>1 DEF Create, Return
<1>3. CASE item' = item
  BY <1>1, <1>2, <1>3, QuietStep
<1>4. CASE item' = [item EXCEPT ![i] = r]
  <2> SUFFICES ASSUME NEW g \in Gates, NEW n \in Months PROVE Within(g, n)'
    BY DEF AllWithin
  <2> DEFINE P == Passing(g, n)
             Q == Passing(g, n)'
             A == Admitted(g, n, Open)
             B == Admitted(g, n, Open)'
  <2>1. Q \subseteq P \ {p}
    BY <1>1, <1>2 DEF Passing
  <2>2. B \subseteq A \cup {i}
    BY <1>1, <1>4 DEF Admitted, Of
  <2>3. peak'[g] >= peak[g] /\ slack'[g] >= slack[g]
    BY <1>1 DEF TypeInv, TypeOK
  <2>4. CASE i \notin B
    BY <2>1, <2>2, <2>3, <2>4, ShrinkStep DEF AllWithin
  <2>5. CASE i \in B
    <3>1. g \in Checked(p, m) /\ (g \in Monthly => n = m)
      <4>1. item'[i] = r
        BY <1>1, <1>4
      <4> QED  BY <2>5, <4>1 DEF Admitted, Of
    <3>2. p \in P
      BY <3>1 DEF Checked, Passing
    <3>3. /\ Cardinality(Q) \in Nat /\ Cardinality(P) \in Nat
          /\ Cardinality(Q) + 1 <= Cardinality(P)
      <4> HIDE DEF P, Q
      <4>1. IsFiniteSet(P)
        BY CountedSets DEF P
      <4> QED  BY <2>1, <3>2, <4>1, OneFewer
    <3>4. /\ Cardinality(B) \in Nat /\ Cardinality(A) \in Nat
          /\ Cardinality(B) <= Cardinality(A) + 1
      <4> HIDE DEF A, B
      <4>1. IsFiniteSet(A)
        BY CountedSets DEF A
      <4> QED  BY <2>2, <4>1, OneLarger
    <3>5. EarlierOf(g, n) \in Nat /\ EarlierOf(g, n)' = EarlierOf(g, n)
      BY CountsAreNumbers DEF EarlierOf
    <3>6. peak[g] \in Nat /\ slack[g] \in Nat /\ UNCHANGED <<peak, slack>>
      BY <1>1 DEF TypeInv, TypeOK
    <3> QED  BY <3>3, <3>4, <3>5, <3>6 DEF AllWithin, Within
  <2> QED  BY <2>4, <2>5
<1> QED  BY <1>3, <1>4 DEF Create

\* What becomes of rows lets nothing more in.
LEMMA RowsWithin ==
  ASSUME TypeInv, TypeInv', AllWithin,
         (\E p \in Procs : SendOtp(p)) \/ (\E i \in Items : RowStep(i))
  PROVE  AllWithin'
<1> DEFINE Same(i) == /\ item'[i].kind = item[i].kind
                      /\ item'[i].user = item[i].user
                      /\ item'[i].month = item[i].month
                      /\ item'[i].checked = item[i].checked
                      /\ item'[i].status \in Open => item[i].status \in Open
<1>1. item \in [Items -> ItemRows] /\ UNCHANGED <<peak, slack>>
  BY DEF TypeInv, TypeOK, SendOtp, RowStep, CreateDineIn, Enter,
         ExpireSubscription, CancelSubscription, ReactivateSubscription, gates
<1>2. \A i \in Items : item'[i].checked = {} \/ Same(i)
  <2>1. \A r \in ItemRows :
          /\ \A x \in {"expired", "gone"} :
               LET s == [r EXCEPT !.status = x] IN
               /\ s.status \notin Open /\ s.checked = r.checked
               /\ s.kind = r.kind /\ s.user = r.user /\ s.month = r.month
          /\ LET s == [r EXCEPT !.status = "counted"] IN
             /\ s.checked = r.checked
             /\ s.kind = r.kind /\ s.user = r.user /\ s.month = r.month
          /\ [r EXCEPT !.status = "counted", !.checked = {}].checked = {}
    BY DEF ItemRows, Open
  <2>2. CASE \/ \E p \in Procs : SendOtp(p)
             \/ \E i \in Items : ExpireSubscription(i) \/ CancelSubscription(i)
    <3>1. PICK x \in {"expired", "gone"} : \E j :
            \/ item' = item
            \/ item' = [item EXCEPT ![j] = [@ EXCEPT !.status = x]]
      BY <2>2 DEF SendOtp, ExpireSubscription, CancelSubscription
    <3> SUFFICES ASSUME NEW i \in Items PROVE Same(i)
      OBVIOUS
    <3>2. \/ item'[i] = item[i]
          \/ item'[i] = [item[i] EXCEPT !.status = x]
      BY <1>1, <3>1
    <3>3. item[i] \in ItemRows
      BY <1>1
    <3>4. CASE item'[i] = item[i]
      BY <3>4
    <3>5. CASE item'[i] = [item[i] EXCEPT !.status = x]
      BY <2>1, <3>3, <3>5
    <3> QED  BY <3>2, <3>4, <3>5
  <2>3. CASE \E i \in Items : Enter(i)
    BY <1>1, <2>1, <2>3 DEF Enter, Open
  <2>4. CASE \E i \in Items : CreateDineIn(i)
    <3>1. PICK i \in Items : CreateDineIn(i)
      BY <2>4
    <3>2. item'[i].checked = {} /\ \A j \in Items \ {i} : item'[j] = item[j]
      BY <1>1, <3>1 DEF CreateDineIn
    <3> QED  BY <3>2
  <2>5. CASE \E i \in Items : ReactivateSubscription(i)
    BY <1>1, <2>1, <2>5 DEF ReactivateSubscription
  <2> QED  BY <2>2, <2>3, <2>4, <2>5 DEF RowStep
<1>3. \A g \in Gates, m \in Months : Passing(g, m)' \subseteq Passing(g, m)
  <2>1. CASE \E p \in Procs : SendOtp(p)
    BY <2>1, SlotShrinks DEF SendOtp, Return, NoCall
  <2>2. CASE \E i \in Items : RowStep(i)
    BY <2>2 DEF RowStep, CreateDineIn, Enter, ExpireSubscription,
                CancelSubscription, ReactivateSubscription, Passing
  <2> QED  BY <2>1, <2>2
<1>4. \A g \in Gates, m \in Months :
        Admitted(g, m, Open)' \subseteq Admitted(g, m, Open)
  BY <1>2 DEF Admitted, Of, Concerns
<1>5. \A g \in Gates : peak'[g] >= peak[g] /\ slack'[g] >= slack[g]
  BY <1>1 DEF TypeInv, TypeOK
<1> QED  BY <1>3, <1>4, <1>5, ShrinkStep DEF AllWithin

\* Steps that touch neither rows nor calls.
LEMMA SameWithin ==
  ASSUME AllWithin, UNCHANGED <<item, call, peak, slack>>
  PROVE  AllWithin'
BY DEF AllWithin, Within, Passing, Admitted, Of, EarlierOf

\* At first nothing passes and nothing is admitted.
LEMMA InitWithin == Init => AllWithin
<1> SUFFICES ASSUME Init, NEW g \in Gates, NEW m \in Months PROVE Within(g, m)
  BY DEF AllWithin
<1>1. Passing(g, m) = {} /\ Admitted(g, m, Open) = {}
  BY DEF Init, Passing, Admitted, Of, NoCall
<1>2. EarlierOf(g, m) <= peak[g] /\ EarlierOf(g, m) \in Nat /\ peak[g] \in Nat
  BY LimitsAssumption DEF Init, EarlierOf
<1>3. slack[g] = 0
  BY DEF Init
<1> QED  BY <1>1, <1>2, <1>3, FS_EmptySet DEF Within

\* Every step stays within the limits and their slack.
LEMMA NextWithin == TypeInv /\ AllWithin /\ [Next]_vars => AllWithin'
<1> SUFFICES ASSUME TypeInv, AllWithin, [Next]_vars PROVE AllWithin'
  OBVIOUS
<1>1. TypeInv'
  BY NextType
<1>2. CASE Next
  <2>1. CASE ClockStep \/ CouponStep
    BY <2>1, SameWithin DEF ClockStep, LocalMonthBegins, UtcMonthBegins,
                            CouponStep, SetCoupon, rows, gates
  <2> QED  BY <1>1, <1>2, <2>1, Steps, QuietSteps, CountsWithin, CreateWithin,
              RowsWithin
<1>3. CASE UNCHANGED vars
  BY <1>3, SameWithin DEF vars, rows, gates
<1> QED  BY <1>2, <1>3

\* For any number of slots, rows, customers and months, and any plans: what
\* counts for a limit and what may still come exceeds the highest cap applied
\* by no more than what was uncounted when some call was let through.
THEOREM LimitsGiveWay == Spec => []LimitsGiveWayToOverlaps
<1>1. AllWithin => LimitsGiveWayToOverlaps
  BY DEF AllWithin, Within, Open, LimitsGiveWayToOverlaps
<1> QED  BY <1>1, InitType, InitWithin, NextType, NextWithin, PTL DEF Spec
=============================================================================
