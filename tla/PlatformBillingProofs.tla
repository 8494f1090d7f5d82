----------------------- MODULE PlatformBillingProofs -----------------------
(***************************************************************************)
(* Theorems about PlatformBilling, for every set of slots, mandates,       *)
(* invites and plans, and every choice of handlers, events and faults.     *)
(***************************************************************************)
EXTENDS PlatformBilling, TLAPS

-----------------------------------------------------------------------------
\* Types. What a call works on in each of its phases.

MandateType == [Mandates -> [state : MandateStates, use : Uses,
                             asked : SUBSET Plans]]

GoodCall(c) ==
  /\ c \in Calls
  /\ c.via = "webhook" => c.m \in Mandates
  /\ c.phase \in {"saveInvite", "activate"} => c.m \in Mandates /\ c.i \in Invites
  /\ c.phase \in {"cancelOld", "apply", "schedule"} =>
       c.m \in Mandates /\ c.via = "verify"
  /\ c.via \in {"verify", "switch", "cancel"} => c.saw.current \in Mandates
  /\ c.phase = "end" => c.via \in {"verify", "cancel"}
  /\ c.phase \in {"unwind", "create"} => c.via \in {"switch", "cancel"}
  /\ c.phase = "void" =>
       c.saw.pending \in Mandates /\ c.via \in {"switch", "cancel"}
  /\ c.phase \in {"lookup", "reconcile", "reconcileWrite", "halt", "complete",
                  "cancelled", "handoff", "deactivate", "processed"} =>
       c.via = "webhook"
  /\ c.via = "verify" => c.m \in Mandates
  /\ c.phase = "handoff" => c.saw.pending \in Mandates

SlotsOK == call \in [Procs -> Calls] /\ \A p \in Procs : GoodCall(call[p])

TypeInv == TypeOK /\ SlotsOK

\* A slot at rest is well formed.
LEMMA RestIsGood == GoodCall(NoCall)
BY DEF GoodCall, NoCall, NoMandates, Calls, Phases, Vias, Maybe, AllKinds,
       MandateColumns, RowStatuses

\* Only one slot changes, to a well-formed call.
LEMMA SlotChange ==
  ASSUME SlotsOK, NEW p \in Procs, NEW c, GoodCall(c),
         call' = [call EXCEPT ![p] = c]
  PROVE  SlotsOK'
BY DEF SlotsOK, GoodCall

\* A call that ends leaves its slot at rest.
LEMMA ReturnChange ==
  ASSUME SlotsOK, NEW p \in Procs, Return(p)
  PROVE  SlotsOK'
BY RestIsGood, SlotChange DEF Return

\* A call that moves on keeps all but its phase.
LEMMA GotoChange ==
  ASSUME SlotsOK, NEW p \in Procs, NEW phase \in Phases, Goto(p, phase),
         GoodCall([call[p] EXCEPT !.phase = phase])
  PROVE  SlotsOK'
<1>1. call' = [call EXCEPT ![p] = [call[p] EXCEPT !.phase = phase]]
  BY DEF Goto, SlotsOK
<1>2. QED
  BY <1>1, SlotChange

\* What moving on leaves as it was.
LEMMA GotoFields ==
  ASSUME SlotsOK, NEW p \in Procs, NEW phase \in Phases
  PROVE  LET c == [call[p] EXCEPT !.phase = phase] IN
         /\ c \in Calls /\ c.phase = phase /\ c.via = call[p].via
         /\ c.m = call[p].m /\ c.i = call[p].i /\ c.saw = call[p].saw
         /\ c.plan = call[p].plan /\ c.kind = call[p].kind
         /\ c.read = call[p].read
BY DEF SlotsOK, Calls

\* At the start every slot is at rest.
LEMMA InitTypeInv == Init => TypeInv
<1> SUFFICES ASSUME Init PROVE TypeInv
  OBVIOUS
<1>1. SlotsOK
  BY RestIsGood DEF Init, SlotsOK, GoodCall
<1>2. sub \in Rows
  BY DEF Init, NoRow, Rows, RowStatuses, Maybe
<1>3. /\ invite \in [Invites -> [state : InviteStates, plan : Maybe(Plans),
                                 m : Maybe(Mandates)]]
      /\ mandate \in MandateType
  BY DEF Init, Maybe, InviteStates, MandateStates, MandateType, Uses
<1>4. QED
  BY <1>1, <1>2, <1>3 DEF Init, TypeInv, TypeOK, SlotsOK, TenantStatuses, MandateType

\* What the row says of mandates is typed like the row.
LEMMA SeenIsTyped == TypeOK => SubMandates \in MandateColumns
BY DEF TypeOK, Rows, SubMandates, MandateColumns

\* The first step of every call.
LEMMA StartTypeInv ==
  ASSUME TypeInv, NEW p \in Procs, Start(p)
  PROVE  TypeInv'
<1> USE DEF bounds, tables, world, Request, MandateType
<1>0. /\ SubMandates \in MandateColumns /\ NoCall \in Calls
      /\ None \in Maybe(Mandates) /\ None \in Maybe(Plans) /\ None \in Maybe(Invites)
      /\ "cancelled" \in AllKinds
  BY SeenIsTyped, RestIsGood DEF TypeInv, GoodCall, Maybe, AllKinds
<1>1. ASSUME NEW i \in Invites, NEW m \in Mandates, GetInviteDetails(p, i, m)
      PROVE  TypeInv'
  <2> DEFINE c == [NoCall EXCEPT !.phase = "saveInvite", !.via = "invite", !.m = m, !.i = i]
  <2>1. Begin(p, c)
    BY <1>1 DEF GetInviteDetails
  <2>2. GoodCall(c)
    <3>1. "saveInvite" \in Phases /\ "invite" \in Vias
        /\ m \in Maybe(Mandates) /\ i \in Maybe(Invites)
      BY <1>0 DEF Phases, Vias, Maybe
    <3>2. c \in Calls
      BY <1>0, <3>1, Zenon DEF Calls
    <3>3. c.phase = "saveInvite" /\ c.via = "invite" /\ c.m = m /\ c.i = i
      BY <1>0 DEF Calls
    <3> HIDE DEF c
    <3>4. QED
      BY <3>2, <3>3 DEF GoodCall
  <2>3. SlotsOK'
    BY <2>1, <2>2, SlotChange DEF Begin, TypeInv
  <2>4. mandate' \in MandateType
    BY <1>1 DEF GetInviteDetails, Create, TypeInv, TypeOK, MandateStates, Uses
  <2>5. QED
    BY <1>1, <2>3, <2>4 DEF GetInviteDetails, TypeInv, TypeOK, SlotsOK
<1>2. ASSUME NEW i \in Invites, StartVerifyAndActivate(p, i)
      PROVE  TypeInv'
  <2> DEFINE c == [NoCall EXCEPT !.phase = "activate", !.via = "activate",
                               !.m = invite[i].m, !.i = i]
  <2>0. invite[i].m \in Mandates
    BY <1>2 DEF StartVerifyAndActivate, TypeInv, TypeOK, Maybe
  <2>1. Begin(p, c)
    BY <1>2 DEF StartVerifyAndActivate
  <2>2. GoodCall(c)
    <3>1. "activate" \in Phases /\ "activate" \in Vias
        /\ invite[i].m \in Maybe(Mandates) /\ i \in Maybe(Invites)
      BY <1>0, <2>0 DEF Phases, Vias, Maybe
    <3>2. c \in Calls
      BY <1>0, <2>0, <3>1, Zenon DEF Calls
    <3>3. c.phase = "activate" /\ c.via = "activate"
        /\ c.m = invite[i].m /\ c.i = i
      BY <1>0 DEF Calls
    <3> HIDE DEF c
    <3>4. QED
      BY <2>0, <3>2, <3>3 DEF GoodCall
  <2>3. SlotsOK'
    BY <2>1, <2>2, SlotChange DEF Begin, TypeInv
  <2>4. QED
    BY <1>2, <2>3 DEF StartVerifyAndActivate, TypeInv, TypeOK, SlotsOK
<1>3. CASE StartManualActivate(p)
  <2> DEFINE c == [NoCall EXCEPT !.phase = "manual", !.via = "manual"]
  <2>1. Begin(p, c)
    BY <1>3 DEF StartManualActivate
  <2>2. GoodCall(c)
    <3>1. "manual" \in Phases /\ "manual" \in Vias
      BY <1>0 DEF Phases, Vias, Maybe
    <3>2. c \in Calls
      BY <1>0, <3>1, Zenon DEF Calls
    <3>3. c.phase = "manual" /\ c.via = "manual"
      BY <1>0 DEF Calls
    <3> HIDE DEF c
    <3>4. QED
      BY <3>2, <3>3 DEF GoodCall
  <2>3. SlotsOK'
    BY <2>1, <2>2, SlotChange DEF Begin, TypeInv
  <2>4. QED
    BY <1>3, <2>3 DEF StartManualActivate, TypeInv, TypeOK, SlotsOK
<1>4. ASSUME NEW plan \in Plans, StartSwitchPlan(p, plan)
      PROVE  TypeInv'
  <2> DEFINE phase == IF sub.pending = None THEN "create" ELSE "void"
             c == [NoCall EXCEPT !.phase = phase, !.via = "switch",
                               !.saw = SubMandates]
  <2>0. /\ SubMandates.current \in Mandates
        /\ phase = "create" \/ (phase = "void" /\ SubMandates.pending \in Mandates)
    BY <1>4 DEF StartSwitchPlan, SubMandates, TypeInv, TypeOK, Rows, Maybe
  <2>1. Begin(p, c)
    BY <1>4 DEF StartSwitchPlan
  <2> HIDE DEF phase
  <2>2. GoodCall(c)
    <3>1. phase \in Phases /\ "switch" \in Vias
      BY <1>0, <2>0 DEF Phases, Vias, Maybe
    <3>2. c \in Calls
      BY <1>0, <2>0, <3>1, Zenon DEF Calls
    <3>3. c.phase = phase /\ c.via = "switch" /\ c.saw = SubMandates
      BY <1>0 DEF Calls
    <3> HIDE DEF c
    <3>4. QED
      BY <2>0, <3>2, <3>3 DEF GoodCall
  <2>3. SlotsOK'
    BY <2>1, <2>2, SlotChange DEF Begin, TypeInv
  <2>4. QED
    BY <1>4, <2>3 DEF StartSwitchPlan, TypeInv, TypeOK, SlotsOK
<1>5. ASSUME NEW m \in Mandates, NEW plan \in Plans,
             StartSwitchPlanVerify(p, m, plan)
      PROVE  TypeInv'
  <2> DEFINE phase == IF plan > sub.plan THEN "cancelOld" ELSE "end"
             c == [NoCall EXCEPT !.phase = phase, !.via = "verify", !.m = m,
                               !.plan = plan, !.saw = SubMandates]
  <2>0. /\ SubMandates.current \in Mandates
        /\ phase = "cancelOld" \/ phase = "end"
        /\ plan \in Maybe(Plans)
    BY <1>5 DEF StartSwitchPlanVerify, SubMandates, TypeInv, TypeOK, Rows, Maybe
  <2>1. Begin(p, c)
    BY <1>5 DEF StartSwitchPlanVerify
  <2> HIDE DEF phase
  <2>2. GoodCall(c)
    <3>1. phase \in Phases /\ "verify" \in Vias /\ m \in Maybe(Mandates)
      BY <1>0, <2>0 DEF Phases, Vias, Maybe
    <3>2. c \in Calls
      BY <1>0, <2>0, <3>1, Zenon DEF Calls
    <3>3. c.phase = phase /\ c.via = "verify" /\ c.m = m /\ c.saw = SubMandates
      BY <1>0 DEF Calls
    <3> HIDE DEF c
    <3>4. QED
      BY <2>0, <3>2, <3>3 DEF GoodCall
  <2>3. SlotsOK'
    BY <2>1, <2>2, SlotChange DEF Begin, TypeInv
  <2>4. mandate' \in MandateType
    BY <1>5 DEF StartSwitchPlanVerify, TypeInv, TypeOK
  <2>5. QED
    BY <1>5, <2>3, <2>4 DEF StartSwitchPlanVerify, TypeInv, TypeOK, SlotsOK
<1>6. CASE StartCancellation(p)
  <2> DEFINE phase == IF sub.pending = None THEN "end" ELSE "void"
             c == [NoCall EXCEPT !.phase = phase, !.via = "cancel",
                               !.saw = SubMandates]
  <2>0. /\ SubMandates.current \in Mandates
        /\ phase = "end" \/ (phase = "void" /\ SubMandates.pending \in Mandates)
    BY <1>6 DEF StartCancellation, SubMandates, TypeInv, TypeOK, Rows, Maybe
  <2>1. Begin(p, c)
    BY <1>6 DEF StartCancellation
  <2> HIDE DEF phase
  <2>2. GoodCall(c)
    <3>1. phase \in Phases /\ "cancel" \in Vias
      BY <1>0, <2>0 DEF Phases, Vias, Maybe
    <3>2. c \in Calls
      BY <1>0, <2>0, <3>1, Zenon DEF Calls
    <3>3. c.phase = phase /\ c.via = "cancel" /\ c.saw = SubMandates
      BY <1>0 DEF Calls
    <3> HIDE DEF c
    <3>4. QED
      BY <2>0, <3>2, <3>3 DEF GoodCall
  <2>3. SlotsOK'
    BY <2>1, <2>2, SlotChange DEF Begin, TypeInv
  <2>4. QED
    BY <1>6, <2>3 DEF StartCancellation, TypeInv, TypeOK, SlotsOK
<1>7. ASSUME NEW e \in Events, ReceiveWebhook(p, e)
      PROVE  TypeInv'
  <2> DEFINE c == [NoCall EXCEPT !.phase = "lookup", !.via = "webhook",
                               !.kind = e[1], !.m = e[2]]
  <2>0. e[1] \in AllKinds /\ e[2] \in Mandates
    BY DEF Events
  <2>1. Begin(p, c)
    BY <1>7 DEF ReceiveWebhook
  <2>2. GoodCall(c)
    <3>1. "lookup" \in Phases /\ "webhook" \in Vias /\ e[2] \in Maybe(Mandates)
      BY <1>0, <2>0 DEF Phases, Vias, Maybe
    <3>2. c \in Calls
      BY <1>0, <2>0, <3>1, Zenon DEF Calls
    <3>3. c.phase = "lookup" /\ c.via = "webhook" /\ c.m = e[2]
      BY <1>0 DEF Calls
    <3> HIDE DEF c
    <3>4. QED
      BY <2>0, <3>2, <3>3 DEF GoodCall
  <2>3. SlotsOK'
    BY <2>1, <2>2, SlotChange DEF Begin, TypeInv
  <2>4. QED
    BY <1>7, <2>3 DEF ReceiveWebhook, TypeInv, TypeOK, SlotsOK
<1>8. QED
  BY <1>1, <1>2, <1>3, <1>4, <1>5, <1>6, <1>7 DEF Start

\* A phase of its own: what a call on its way from one phase to another needs.
LEMMA MovesOn ==
  ASSUME SlotsOK, NEW p \in Procs, NEW phase \in Phases, Goto(p, phase),
         \/ phase \in {"reset", "setCancel"}
         \/ /\ phase \in {"reconcile", "halt", "complete", "cancelled",
                          "deactivate", "processed"}
            /\ call[p].via = "webhook"
         \/ phase \in {"apply", "schedule"} /\ call[p].via = "verify"
         \/ phase = "end" /\ call[p].via = "cancel"
         \/ phase \in {"unwind", "create"} /\ call[p].via \in {"switch", "cancel"}
  PROVE  SlotsOK'
<1> DEFINE c == [call[p] EXCEPT !.phase = phase]
<1>1. /\ c \in Calls /\ c.phase = phase /\ c.via = call[p].via
      /\ c.m = call[p].m /\ c.i = call[p].i /\ c.saw = call[p].saw
  BY GotoFields
<1>2. GoodCall(call[p])
  BY DEF SlotsOK
<1> HIDE DEF c
<1>3. GoodCall(c)
  BY <1>1, <1>2 DEF GoodCall
<1>4. QED
  BY <1>3, GotoChange DEF c

\* What Razorpay does to one mandate is typed.
LEMMA MandateIsTyped ==
  ASSUME TypeOK, NEW m \in Mandates, NEW state \in MandateStates,
         mandate' = [mandate EXCEPT ![m].state = state]
  PROVE  mandate' \in MandateType
BY DEF TypeOK, MandateType

\* So is what it announces.
LEMMA SentIsTyped ==
  ASSUME TypeOK, NEW m \in Mandates, NEW kind \in AllKinds, Announce(kind, m)
  PROVE  sent' \subseteq Events
BY DEF TypeOK, Announce, Events

\* Razorpay refuses, or cancels at once, and the call ends or moves on.
LEMMA CancelNowTypes ==
  ASSUME TypeInv, NEW p \in Procs, NEW m \in Mandates, NEW phase \in Phases,
         (CancelNow(m) /\ Goto(p, phase)) \/ Refused(p, m),
         \/ phase = "unwind" /\ call[p].via \in {"switch", "cancel"}
         \/ phase = "apply" /\ call[p].via = "verify"
  PROVE  /\ SlotsOK' /\ sent' \subseteq Events
         /\ mandate' \in MandateType
<1>1. CASE CancelNow(m) /\ Goto(p, phase)
  <2>1. SlotsOK'
    BY <1>1, MovesOn DEF TypeInv
  <2>2. sent' \subseteq Events
    BY <1>1, SentIsTyped DEF CancelNow, TypeInv, AllKinds
  <2>3. mandate' = [mandate EXCEPT ![m].state = "dead"]
        /\ "dead" \in MandateStates
    BY <1>1 DEF CancelNow, MandateStates
  <2>4. QED
    BY <2>1, <2>2, <2>3, MandateIsTyped DEF TypeInv
<1>2. CASE Refused(p, m)
  <2>1. SlotsOK'
    BY <1>2, ReturnChange DEF Refused, TypeInv
  <2>2. QED
    BY <1>2, <2>1 DEF Refused, world, TypeInv, TypeOK, MandateType
<1>3. QED
  BY <1>1, <1>2

\* Every later step of a call.
LEMMA ContinueTypeInv ==
  ASSUME TypeInv, NEW p \in Procs, Continue(p)
  PROVE  TypeInv'
<1> USE DEF bounds, tables, world, In, MandateType
<1>0. /\ GoodCall(call[p]) /\ call[p] \in Calls /\ SlotsOK
      /\ TypeOK /\ sub \in Rows
  BY DEF TypeInv, SlotsOK, GoodCall, TypeOK
<1>1. CASE UpdateInviteRazorpaySubscription(p)
  <2>1. call[p].m \in Mandates /\ call[p].i \in Invites
    BY <1>0, <1>1 DEF UpdateInviteRazorpaySubscription, GoodCall
  <2>2. invite' \in [Invites -> [state : InviteStates, plan : Maybe(Plans),
                                 m : Maybe(Mandates)]]
    BY <1>1, <2>1 DEF UpdateInviteRazorpaySubscription, TypeInv, TypeOK, Maybe
  <2>3. mandate' \in MandateType
    BY <1>0, <1>1, <2>1, MandateIsTyped
    DEF UpdateInviteRazorpaySubscription, MandateStates
  <2>4. SlotsOK'
    BY <1>0, <1>1, ReturnChange DEF UpdateInviteRazorpaySubscription
  <2>5. QED
    BY <1>0, <1>1, <2>2, <2>3, <2>4
    DEF UpdateInviteRazorpaySubscription, TypeInv, TypeOK, SlotsOK
<1>2. CASE ActivateFromInvite(p)
  <2>1. call[p].m \in Mandates /\ call[p].i \in Invites
    BY <1>0, <1>2 DEF ActivateFromInvite, GoodCall
  <2>2. invite' \in [Invites -> [state : InviteStates, plan : Maybe(Plans),
                                 m : Maybe(Mandates)]]
    BY <1>2, <2>1 DEF ActivateFromInvite, TypeInv, TypeOK, InviteStates
  <2>3. sub' \in Rows
    BY <1>0, <1>2, <2>1, Zenon DEF ActivateFromInvite, Rows, RowStatuses, Maybe
  <2>4. SlotsOK'
    BY <1>0, <1>2, MovesOn DEF ActivateFromInvite, Phases
  <2>5. QED
    BY <1>0, <1>2, <2>2, <2>3, <2>4
    DEF ActivateFromInvite, TypeInv, TypeOK, SlotsOK, TenantStatuses
<1>3. CASE ManualActivate(p)
  <2>1. sub' \in Rows
    BY <1>0, <1>3 DEF ManualActivate, Rows, RowStatuses
  <2>2. SlotsOK'
    BY <1>0, <1>3, MovesOn DEF ManualActivate, Phases
  <2>3. QED
    BY <1>0, <1>3, <2>1, <2>2
    DEF ManualActivate, TypeInv, TypeOK, SlotsOK, TenantStatuses
<1>4. CASE ResetForPlanChange(p)
  <2>1. SlotsOK'
    BY <1>0, <1>4, MovesOn, ReturnChange DEF ResetForPlanChange, Phases
  <2>2. QED
    BY <1>0, <1>4, <2>1 DEF ResetForPlanChange, TypeInv, TypeOK, SlotsOK
<1>5. CASE Void(p)
  <2>1. call[p].saw.pending \in Mandates /\ call[p].via \in {"switch", "cancel"}
    BY <1>0, <1>5 DEF Void, GoodCall
  <2>2. /\ SlotsOK' /\ sent' \subseteq Events
        /\ mandate' \in MandateType
    BY <1>5, <2>1, CancelNowTypes DEF Void, Phases
  <2>3. QED
    BY <1>0, <1>5, <2>2 DEF Void, TypeInv, TypeOK, SlotsOK
<1>6. CASE UnwindPendingPlanChange(p)
  <2>1. sub' \in Rows
    BY <1>0, <1>6, Zenon DEF UnwindPendingPlanChange, Rows, Maybe
  <2>2. call[p].via \in {"switch", "cancel"}
    BY <1>0, <1>6 DEF UnwindPendingPlanChange, GoodCall
  <2>3. SlotsOK'
    BY <1>0, <1>6, <2>2, MovesOn DEF UnwindPendingPlanChange, Phases
  <2>4. QED
    BY <1>0, <1>6, <2>1, <2>3 DEF UnwindPendingPlanChange, TypeInv, TypeOK, SlotsOK
<1>7. ASSUME NEW m \in Mandates, CreateReplacement(p, m) PROVE TypeInv'
  <2>1. mandate' \in MandateType
    BY <1>0, <1>7 DEF CreateReplacement, Create, TypeOK, MandateStates, Uses
  <2>2. SlotsOK'
    BY <1>0, <1>7, ReturnChange DEF CreateReplacement
  <2>3. QED
    BY <1>0, <1>7, <2>1, <2>2 DEF CreateReplacement, TypeInv, TypeOK, SlotsOK
<1>8. CASE CancelOldMandate(p)
  <2>1. call[p].saw.current \in Mandates /\ call[p].via = "verify"
    BY <1>0, <1>8 DEF CancelOldMandate, GoodCall
  <2>2. /\ SlotsOK' /\ sent' \subseteq Events
        /\ mandate' \in MandateType
    BY <1>8, <2>1, CancelNowTypes DEF CancelOldMandate, Phases
  <2>3. QED
    BY <1>0, <1>8, <2>2 DEF CancelOldMandate, TypeInv, TypeOK, SlotsOK
<1>9. CASE ApplyImmediatePlanChange(p)
  <2>1. call[p].m \in Mandates /\ call[p].plan \in Maybe(Plans)
    BY <1>0, <1>9 DEF ApplyImmediatePlanChange, GoodCall, Calls
  <2>2. sub' \in Rows
    BY <1>0, <1>9, <2>1, Zenon DEF ApplyImmediatePlanChange, Rows, Maybe
  <2>3. SlotsOK'
    BY <1>0, <1>9, MovesOn DEF ApplyImmediatePlanChange, Phases
  <2>4. QED
    BY <1>0, <1>9, <2>2, <2>3 DEF ApplyImmediatePlanChange, TypeInv, TypeOK, SlotsOK
<1>10. CASE CancelAtCycleEnd(p)
  <2>1. call[p].saw.current \in Mandates /\ call[p].via \in {"verify", "cancel"}
    BY <1>0, <1>10 DEF CancelAtCycleEnd, GoodCall
  <2>2. CASE Refused(p, call[p].saw.current)
    <3>1. SlotsOK'
      BY <1>0, <2>2, ReturnChange DEF Refused
    <3>2. QED
      BY <1>0, <1>10, <2>2, <3>1 DEF CancelAtCycleEnd, Refused, TypeInv, TypeOK, SlotsOK
  <2>3. CASE ~Refused(p, call[p].saw.current)
    <3>1. mandate' \in MandateType
      BY <1>0, <1>10, <2>1, <2>3, MandateIsTyped DEF CancelAtCycleEnd, MandateStates
    <3>2. SlotsOK'
      BY <1>0, <1>10, <2>3, MovesOn DEF CancelAtCycleEnd, Phases
    <3>3. QED
      BY <1>0, <1>10, <2>3, <3>1, <3>2 DEF CancelAtCycleEnd, TypeInv, TypeOK, SlotsOK
  <2>4. QED
    BY <2>2, <2>3
<1>11. CASE ScheduleDowngrade(p)
  <2>1. call[p].m \in Mandates /\ call[p].plan \in Maybe(Plans)
    BY <1>0, <1>11 DEF ScheduleDowngrade, GoodCall, Calls
  <2>2. sub' \in Rows
    BY <1>0, <1>11, <2>1, Zenon DEF ScheduleDowngrade, Rows, Maybe
  <2>3. SlotsOK'
    BY <1>0, <1>11, ReturnChange DEF ScheduleDowngrade
  <2>4. QED
    BY <1>0, <1>11, <2>2, <2>3 DEF ScheduleDowngrade, TypeInv, TypeOK, SlotsOK
<1>12. CASE SetCancelAtPeriodEnd(p)
  <2>1. sub' \in Rows
    BY <1>0, <1>12 DEF SetCancelAtPeriodEnd, Rows
  <2>2. SlotsOK'
    BY <1>0, <1>12, ReturnChange DEF SetCancelAtPeriodEnd
  <2>3. QED
    BY <1>0, <1>12, <2>1, <2>2 DEF SetCancelAtPeriodEnd, TypeInv, TypeOK, SlotsOK
<1>13. CASE LookupSubscription(p)
  <2>1. call[p].via = "webhook" /\ call[p].kind \in AllKinds
    BY <1>0, <1>13 DEF LookupSubscription, GoodCall, Calls
  <2>2. Handling(call[p].kind) \in {"reconcile", "halt", "complete", "cancelled"}
    BY <2>1 DEF Handling, AllKinds
  <2>3. SlotsOK'
    BY <1>0, <1>13, <2>1, <2>2, MovesOn DEF LookupSubscription, Phases
  <2>4. QED
    BY <1>0, <1>13, <2>3 DEF LookupSubscription, TypeInv, TypeOK, SlotsOK
<1>14. CASE ReconcileActivated(p)
  <2>1. sub' \in Rows
    BY <1>0, <1>14 DEF ReconcileActivated, Rows, RowStatuses
  <2>2. call[p].via = "webhook"
    BY <1>0, <1>14 DEF ReconcileActivated, GoodCall
  <2>3. SlotsOK'
    BY <1>0, <1>14, <2>2, MovesOn DEF ReconcileActivated, Phases
  <2>4. QED
    BY <1>0, <1>14, <2>1, <2>3
    DEF ReconcileActivated, TypeInv, TypeOK, SlotsOK, TenantStatuses
<1>15. CASE HaltSubscriptionAndSuspendTenant(p)
  <2>1. sub' \in Rows
    BY <1>0, <1>15 DEF HaltSubscriptionAndSuspendTenant, Rows, RowStatuses
  <2>2. call[p].via = "webhook"
    BY <1>0, <1>15 DEF HaltSubscriptionAndSuspendTenant, GoodCall
  <2>3. SlotsOK'
    BY <1>0, <1>15, <2>2, MovesOn DEF HaltSubscriptionAndSuspendTenant, Phases
  <2>4. QED
    BY <1>0, <1>15, <2>1, <2>3
    DEF HaltSubscriptionAndSuspendTenant, TypeInv, TypeOK, SlotsOK, TenantStatuses
<1>16. CASE Deactivate(p)
  <2>1. sub' \in Rows
    BY <1>0, <1>16, Zenon DEF Deactivate, Rows, RowStatuses
  <2>2. call[p].via = "webhook"
    BY <1>0, <1>16 DEF Deactivate, GoodCall
  <2>3. SlotsOK'
    BY <1>0, <1>16, <2>2, MovesOn DEF Deactivate, Phases
  <2>4. QED
    BY <1>0, <1>16, <2>1, <2>3
    DEF Deactivate, TypeInv, TypeOK, SlotsOK, TenantStatuses
<1>17. CASE MarkCancelled(p)
  <2>1. call[p].via = "webhook" /\ call[p].m \in Mandates
    BY <1>0, <1>17 DEF MarkCancelled, GoodCall
  <2>2. CASE Goto(p, "deactivate")
    <3>1. SlotsOK'
      BY <1>0, <2>1, <2>2, MovesOn DEF Phases
    <3>2. QED
      BY <1>0, <1>17, <3>1 DEF MarkCancelled, TypeInv, TypeOK, SlotsOK
  <2>3. CASE ~Goto(p, "deactivate")
    <3> DEFINE c == [call[p] EXCEPT !.phase = "handoff", !.saw = SubMandates]
    <3>1. sub.pending # None /\ call' = [call EXCEPT ![p] = c]
      BY <1>0, <1>17, <2>3 DEF MarkCancelled, SlotsOK
    <3>2. SubMandates \in MandateColumns /\ SubMandates.pending \in Mandates
      BY <1>0, <3>1, SeenIsTyped DEF SubMandates, Rows, Maybe
    <3>3. c \in Calls
      <4>1. "handoff" \in Phases
        BY DEF Phases
      <4>2. QED
        BY <1>0, <3>2, <4>1, Zenon DEF Calls
    <3>4. c.phase = "handoff" /\ c.via = call[p].via /\ c.m = call[p].m
          /\ c.saw = SubMandates
      BY <1>0 DEF Calls
    <3> HIDE DEF c
    <3>5. GoodCall(c)
      BY <2>1, <3>2, <3>3, <3>4 DEF GoodCall
    <3>6. SlotsOK'
      BY <1>0, <3>1, <3>5, SlotChange
    <3>7. QED
      BY <1>0, <1>17, <3>6 DEF MarkCancelled, TypeInv, TypeOK, SlotsOK
  <2>4. QED
    BY <2>2, <2>3
<1>18. CASE FinalizeScheduledPlanChange(p)
  <2>1. /\ call[p].saw.pending \in Mandates /\ call[p].via = "webhook"
        /\ call[p].saw.scheduled \in Maybe(Plans)
    BY <1>0, <1>18 DEF FinalizeScheduledPlanChange, GoodCall, Calls, MandateColumns
  <2>2. sub' \in Rows
    BY <1>0, <1>18, <2>1, Zenon DEF FinalizeScheduledPlanChange, Rows, Maybe
  <2>3. SlotsOK'
    BY <1>0, <1>18, <2>1, MovesOn DEF FinalizeScheduledPlanChange, Phases
  <2>4. QED
    BY <1>0, <1>18, <2>2, <2>3
    DEF FinalizeScheduledPlanChange, TypeInv, TypeOK, SlotsOK
<1>19. CASE MarkWebhookProcessed(p)
  <2>1. call[p].via = "webhook" /\ call[p].m \in Mandates
        /\ call[p].kind \in AllKinds
    BY <1>0, <1>19 DEF MarkWebhookProcessed, GoodCall, Calls
  <2>2. processed' \subseteq Events
    BY <1>0, <1>19, <2>1 DEF MarkWebhookProcessed, Delivered, Events, TypeOK
  <2>3. SlotsOK'
    BY <1>0, <1>19, ReturnChange DEF MarkWebhookProcessed
  <2>4. QED
    BY <1>0, <1>19, <2>2, <2>3 DEF MarkWebhookProcessed, TypeInv, TypeOK, SlotsOK
<1>20. CASE ReadRow(p)
  <2>1. call[p].via = "webhook" /\ call[p].m \in Mandates
    BY <1>0, <1>20 DEF ReadRow, GoodCall
  <2>2. CASE Goto(p, "processed")
    <3>1. SlotsOK'
      BY <1>0, <2>1, <2>2, MovesOn DEF Phases
    <3>2. QED
      BY <1>0, <1>20, <3>1 DEF ReadRow, TypeInv, TypeOK, SlotsOK
  <2>3. CASE ~Goto(p, "processed")
    <3> DEFINE c == [call[p] EXCEPT !.phase = "reconcileWrite", !.read = sub.status]
    <3>1. call' = [call EXCEPT ![p] = c]
      BY <1>0, <1>20, <2>3 DEF ReadRow, SlotsOK
    <3>2. c \in Calls
      <4>1. "reconcileWrite" \in Phases /\ sub.status \in RowStatuses
        BY <1>0 DEF Phases, Rows
      <4>2. QED
        BY <1>0, <4>1, Zenon DEF Calls
    <3>3. c.phase = "reconcileWrite" /\ c.via = call[p].via /\ c.m = call[p].m
      BY <1>0 DEF Calls
    <3> HIDE DEF c
    <3>4. GoodCall(c)
      BY <2>1, <3>2, <3>3 DEF GoodCall
    <3>5. SlotsOK'
      BY <1>0, <3>1, <3>4, SlotChange
    <3>6. QED
      BY <1>0, <1>20, <3>5 DEF ReadRow, TypeInv, TypeOK, SlotsOK
  <2>4. QED
    BY <2>2, <2>3
<1>21. QED
  BY <1>1, <1>2, <1>3, <1>4, <1>5, <1>6, <1>7, <1>8, <1>9, <1>10, <1>11,
     <1>12, <1>13, <1>14, <1>15, <1>16, <1>17, <1>18, <1>19, <1>20 DEF Continue

\* Every step keeps the types.
LEMMA TypeInvStep == TypeInv /\ [Next]_vars => TypeInv'
<1> USE DEF bounds, tables, world, MandateType
<1> SUFFICES ASSUME TypeInv, [Next]_vars PROVE TypeInv'
  OBVIOUS
<1>0. SlotsOK /\ TypeOK
  BY DEF TypeInv
<1>1. ASSUME NEW p \in Procs, Start(p) \/ Continue(p) PROVE TypeInv'
  BY <1>1, StartTypeInv, ContinueTypeInv
<1>2. ASSUME NEW p \in Procs, Throw(p) \/ Die(p) PROVE TypeInv'
  <2>1. SlotsOK'
    BY <1>0, <1>2, ReturnChange DEF Throw, Die
  <2>2. QED
    BY <1>0, <1>2, <2>1, BoundsAssumption DEF Throw, Die, TypeInv, TypeOK, SlotsOK
<1>3. ASSUME NEW i \in Invites, NEW plan \in Plans, CreateInvite(i, plan)
      PROVE  TypeInv'
  <2>1. sub' \in Rows
    BY <1>0, <1>3, Zenon DEF CreateInvite, TypeOK, Rows, RowStatuses, Maybe
  <2>2. invite' \in [Invites -> [state : InviteStates, plan : Maybe(Plans),
                                 m : Maybe(Mandates)]]
    BY <1>0, <1>3 DEF CreateInvite, TypeOK, InviteStates, Maybe
  <2>3. QED
    BY <1>0, <1>3, <2>1, <2>2 DEF CreateInvite, Request, TypeInv, TypeOK, SlotsOK
<1>4. ASSUME NEW m \in Mandates, Razorpay(m) PROVE TypeInv'
  <2>1. PICK state \in MandateStates, kind \in AllKinds :
          /\ mandate' = [mandate EXCEPT ![m].state = state]
          /\ Announce(kind, m) /\ UNCHANGED <<tables, call, bounds>>
    <3>1. CASE Authorise(m) \/ CycleEnds(m) \/ Completes(m)
      BY <3>1 DEF Authorise, CycleEnds, Completes, Becomes, MandateStates, AllKinds
    <3>2. CASE ChargesFail(m)
      BY <3>2 DEF ChargesFail, Becomes, MandateStates, AllKinds
    <3>3. QED
      BY <1>4, <3>1, <3>2 DEF Razorpay
  <2>2. mandate' \in MandateType
    BY <1>0, <2>1, MandateIsTyped
  <2>3. sent' \subseteq Events
    BY <1>0, <2>1, SentIsTyped
  <2>4. QED
    BY <1>0, <2>1, <2>2, <2>3 DEF TypeInv, TypeOK, SlotsOK
<1>5. CASE UNCHANGED vars
  BY <1>0, <1>5 DEF vars, TypeInv, TypeOK, SlotsOK
<1>6. QED
  BY <1>1, <1>2, <1>3, <1>4, <1>5 DEF Next

\* Every variable keeps its type: whatever handlers, events and faults overlap,
\* a mandate is where a mandate belongs and a plan where a plan does.
THEOREM TypeCorrect == Spec => []TypeOK
<1>1. TypeInv => TypeOK
  BY DEF TypeInv
<1>2. QED
  BY InitTypeInv, TypeInvStep, <1>1, PTL DEF Spec

-----------------------------------------------------------------------------
\* The shop and its subscription. Every handler that writes the one writes the
\* other in the same transaction, so that no order of them can part the two.

\* What a step can do to the two.
LEMMA StatusWrites ==
  ASSUME TypeInv, [Next]_vars
  PROVE  \/ sub'.status = sub.status /\ UNCHANGED <<tenant, comped>>
         \/ sub'.status = "PENDING_PAYMENT" /\ UNCHANGED <<tenant, comped>>
         \/ sub'.status = "PAST_DUE" /\ tenant' = "SUSPENDED"
         \/ sub'.status = "CANCELLED" /\ tenant' = "INACTIVE"
         \/ /\ tenant' = "ACTIVE" /\ comped'
            /\ sub'.status = sub.status
               \/ (sub.status = "PENDING_PAYMENT" /\ sub'.status = "ACTIVE")
         \/ /\ sub'.status = "ACTIVE" /\ tenant' = "ACTIVE"
            /\ \E p \in Procs : ActivateFromInvite(p) \/ ReconcileActivated(p)
<1> USE DEF bounds, tables, world
<1>0. sub \in Rows
  BY DEF TypeInv, TypeOK
<1>1. ASSUME NEW p \in Procs, Start(p)
      PROVE  UNCHANGED <<sub, tenant, comped>>
  BY <1>1 DEF Start, GetInviteDetails, StartVerifyAndActivate,
     StartManualActivate, StartSwitchPlan, StartSwitchPlanVerify,
     StartCancellation, ReceiveWebhook
<1>2. ASSUME NEW p \in Procs,
             \/ UpdateInviteRazorpaySubscription(p) \/ ResetForPlanChange(p)
             \/ Void(p) \/ (\E m \in Mandates : CreateReplacement(p, m))
             \/ CancelOldMandate(p) \/ CancelAtCycleEnd(p)
             \/ LookupSubscription(p) \/ ReadRow(p) \/ MarkCancelled(p)
             \/ MarkWebhookProcessed(p) \/ Throw(p) \/ Die(p)
      PROVE  UNCHANGED <<sub, tenant, comped>>
  BY <1>2 DEF UpdateInviteRazorpaySubscription, ResetForPlanChange, Void,
     CreateReplacement, CancelOldMandate, CancelAtCycleEnd, LookupSubscription,
     ReadRow, MarkCancelled, MarkWebhookProcessed, Throw, Die
<1>3. ASSUME NEW p \in Procs,
             \/ UnwindPendingPlanChange(p) \/ ApplyImmediatePlanChange(p)
             \/ ScheduleDowngrade(p) \/ SetCancelAtPeriodEnd(p)
             \/ FinalizeScheduledPlanChange(p)
      PROVE  sub'.status = sub.status /\ UNCHANGED <<tenant, comped>>
  BY <1>0, <1>3 DEF UnwindPendingPlanChange, ApplyImmediatePlanChange,
     ScheduleDowngrade, SetCancelAtPeriodEnd, FinalizeScheduledPlanChange, Rows
<1>4. ASSUME NEW p \in Procs, ActivateFromInvite(p)
      PROVE  sub'.status = "ACTIVE" /\ tenant' = "ACTIVE"
  BY <1>0, <1>4 DEF ActivateFromInvite, Rows
<1>5. ASSUME NEW p \in Procs, ManualActivate(p)
      PROVE  /\ tenant' = "ACTIVE" /\ comped'
             /\ sub'.status = sub.status
                \/ (sub.status = "PENDING_PAYMENT" /\ sub'.status = "ACTIVE")
  BY <1>0, <1>5 DEF ManualActivate, Rows
<1>6. ASSUME NEW p \in Procs, ReconcileActivated(p)
      PROVE  sub'.status = "ACTIVE" /\ tenant' = "ACTIVE"
  BY <1>0, <1>6 DEF ReconcileActivated, Rows
<1>7. ASSUME NEW p \in Procs, HaltSubscriptionAndSuspendTenant(p)
      PROVE  sub'.status = "PAST_DUE" /\ tenant' = "SUSPENDED"
  BY <1>0, <1>7 DEF HaltSubscriptionAndSuspendTenant, Rows
<1>8. ASSUME NEW p \in Procs, Deactivate(p)
      PROVE  sub'.status = "CANCELLED" /\ tenant' = "INACTIVE"
  BY <1>0, <1>8 DEF Deactivate, Rows
<1>9. ASSUME NEW i \in Invites, NEW plan \in Plans, CreateInvite(i, plan)
      PROVE  sub'.status = "PENDING_PAYMENT" /\ UNCHANGED <<tenant, comped>>
  BY <1>0, <1>9 DEF CreateInvite, Rows
<1>10. ASSUME NEW m \in Mandates, Razorpay(m)
       PROVE  UNCHANGED <<sub, tenant, comped>>
  BY <1>10 DEF Razorpay, Authorise, ChargesFail, CycleEnds, Completes, Becomes
<1>11. CASE UNCHANGED vars
  BY <1>11 DEF vars
<1>12. CASE Next
  <2>1. CASE \E p \in Procs : Start(p) \/ Throw(p) \/ Die(p)
    BY <1>1, <1>2, <2>1
  <2>2. CASE \E p \in Procs : Continue(p)
    BY <1>2, <1>3, <1>4, <1>5, <1>6, <1>7, <1>8, <2>2 DEF Continue
  <2>3. QED
    BY <1>9, <1>10, <1>12, <2>1, <2>2 DEF Next
<1>13. QED
  BY <1>11, <1>12

\* Every step keeps them together.
LEMMA StatusesStep == TypeInv /\ StatusesAgree /\ [Next]_vars => StatusesAgree'
BY StatusWrites DEF StatusesAgree

\* A paid-up plan is an open shop, a failed or an ended one a closed shop.
THEOREM StatusesAlwaysAgree == Spec => []StatusesAgree
<1>1. Init => StatusesAgree
  BY DEF Init, NoRow, StatusesAgree
<1>2. QED
  BY InitTypeInv, TypeInvStep, StatusesStep, <1>1, PTL DEF Spec

-----------------------------------------------------------------------------
\* Authorisations. Whatever is written into the row was authorised when the
\* call that writes it began, and no mandate loses its authorisation: the one
\* state that is written back, when its page is shown, is written by the only
\* call that knows the mandate.

\* What the call in a slot relies on.
SlotInv(p) ==
  /\ In(p, "saveInvite") => /\ mandate[call[p].m].state = "created"
                            /\ mandate[call[p].m].use = "invite"
  /\ In(p, "activate") => /\ Authorised(call[p].m)
                          /\ mandate[call[p].m].use = "invite"
                          /\ invite[call[p].i].state # "none"
  /\ call[p].via = "verify" => /\ Authorised(call[p].m)
                               /\ call[p].plan \in mandate[call[p].m].asked
  /\ call[p].saw.current # None => Authorised(call[p].saw.current)
  /\ call[p].saw.pending # None => Authorised(call[p].saw.pending)
  /\ In(p, "handoff") =>
       call[p].saw.scheduled \in mandate[call[p].saw.pending].asked
  /\ \/ call[p].via = "verify"
     \/ call[p].phase \in {"reconcile", "reconcileWrite", "handoff"}
     => sub.current # None
  /\ In(p, "reconcileWrite") => call[p].read = "PENDING_PAYMENT" /\ Reinvited

\* The phases in which a call relies on more than the field via tells.
Tied == {"saveInvite", "activate", "handoff", "reconcile", "reconcileWrite"}

Apart ==
  \A p, q \in Procs :
    In(p, "saveInvite") /\ In(q, "saveInvite") /\ p # q => call[p].m # call[q].m

Started == {i \in Invites : invite[i].state # "none"}

RowInv ==
  /\ sub.current # None => Authorised(sub.current) /\ Started # {}
  /\ sub.pending # None => /\ Authorised(sub.pending) /\ sub.current # None
                           /\ sub.scheduled \in mandate[sub.pending].asked
  /\ sub.status = "ACTIVE" /\ ~comped => sub.current # None
  /\ sub.status = "PENDING_PAYMENT" /\ sub.current # None => Reinvited

InviteInv ==
  \A i \in Invites :
    invite[i].m # None => /\ mandate[invite[i].m].use = "invite"
                          /\ mandate[invite[i].m].state # "none"

AuthInv == /\ \A p \in Procs : SlotInv(p)
           /\ Apart /\ RowInv /\ InviteInv /\ SwitchesAreWhole

\* At the start nothing is authorised and nothing depends on it.
LEMMA InitAuthInv == Init => AuthInv
BY DEF Init, AuthInv, SlotInv, Apart, RowInv, InviteInv, SwitchesAreWhole, In,
       NoCall, NoRow, NoMandates

\* What time does not undo: a mandate keeps its use and the plans asked with it
\* and does not lose an authorisation, and a page that is not shown yet is only
\* shown by p.
Forward ==
  \A m \in Mandates :
    /\ mandate[m].asked \subseteq mandate'[m].asked
    /\ mandate[m].state # "none" => /\ mandate'[m].use = mandate[m].use
                                    /\ mandate'[m].state # "none"
    /\ Authorised(m) => Authorised(m)'

Hidden(p) ==
  \A m \in Mandates :
    mandate[m].state = "created" =>
      \/ mandate'[m] = mandate[m]
      \/ In(p, "saveInvite") /\ m = call[p].m

\* A mandate that is left alone goes forward.
LEMMA SameMandates ==
  ASSUME NEW p \in Procs, mandate' = mandate
  PROVE  Forward /\ Hidden(p)
BY DEF Forward, Hidden, Authorised

\* So does one that is created,
LEMMA CreateForward ==
  ASSUME TypeOK, NEW p \in Procs, NEW m \in Mandates, NEW use, NEW state,
         Create(m, use, state)
  PROVE  Forward /\ Hidden(p)
BY DEF TypeOK, Create, Forward, Hidden, Authorised

\* and one that is authorised already and ends or will end.
LEMMA EndForward ==
  ASSUME TypeOK, NEW p \in Procs, NEW m \in Mandates,
         Authorised(m) \/ mandate[m].state = "shown",
         NEW state \in {"authorised", "ending", "dead"},
         mandate' = [mandate EXCEPT ![m].state = state]
  PROVE  Forward /\ Hidden(p)
BY DEF TypeOK, Forward, Hidden, Authorised

\* A second invite is not taken back.
LEMMA ReinvitedStays ==
  ASSUME Reinvited,
         \A i \in Invites : invite[i].state # "none" => invite'[i].state # "none"
  PROVE  Reinvited'
BY DEF Reinvited

\* A slot that does not change relies on nothing that a step undoes.
LEMMA SlotKept ==
  ASSUME TypeInv, Forward, NEW p \in Procs, NEW q \in Procs, SlotInv(q),
         call'[q] = call[q],
         In(q, "saveInvite") => mandate'[call[q].m] = mandate[call[q].m],
         sub.current # None => sub'.current # None,
         \A i \in Invites : invite[i].state # "none" => invite'[i].state # "none"
  PROVE  SlotInv(q)'
<1>1. GoodCall(call[q]) /\ call[q] \in Calls
      /\ \A m \in Mandates : Authorised(m) => mandate[m].state # "none"
  BY DEF TypeInv, SlotsOK, GoodCall, Authorised
<1>2. /\ call[q].saw.current \in Maybe(Mandates)
      /\ call[q].saw.pending \in Maybe(Mandates)
  BY <1>1 DEF Calls, MandateColumns
<1>3. /\ In(q, "saveInvite") => call[q].m \in Mandates
      /\ In(q, "activate") => call[q].m \in Mandates /\ call[q].i \in Invites
      /\ call[q].via = "verify" => call[q].m \in Mandates
      /\ In(q, "handoff") => call[q].saw.pending \in Mandates
  BY <1>1 DEF GoodCall, In
<1>4. In(q, "handoff") =>
        call[q].saw.scheduled \in mandate'[call[q].saw.pending].asked
  BY <1>1, <1>3, NoneAssumption DEF SlotInv, Forward
<1>5. In(q, "activate") => /\ Authorised(call[q].m)'
                           /\ mandate'[call[q].m].use = "invite"
                           /\ invite'[call[q].i].state # "none"
  BY <1>1, <1>3 DEF SlotInv, Forward, Authorised
<1>6. call[q].via = "verify" => /\ Authorised(call[q].m)'
                                /\ call[q].plan \in mandate'[call[q].m].asked
  BY <1>1, <1>3 DEF SlotInv, Forward, Authorised
<1>7. /\ call[q].saw.current # None => Authorised(call[q].saw.current)'
      /\ call[q].saw.pending # None => Authorised(call[q].saw.pending)'
  BY <1>1, <1>2 DEF SlotInv, Forward, Maybe, Authorised
<1>8. In(q, "reconcileWrite") => Reinvited'
  BY ReinvitedStays DEF SlotInv
<1>9. QED
  BY <1>4, <1>5, <1>6, <1>7, <1>8 DEF SlotInv, In, Authorised

\* Neither does the row, while it keeps its mandates and its plan.
LEMMA RowKept ==
  ASSUME TypeInv, RowInv, SwitchesAreWhole, Forward,
         sub'.current = sub.current, sub'.pending = sub.pending,
         sub'.scheduled = sub.scheduled, sub'.plan = sub.plan,
         \A i \in Invites : invite'[i].state = "none" <=> invite[i].state = "none",
         sub'.status = "ACTIVE" /\ ~comped' => sub.current # None,
         sub'.status = "PENDING_PAYMENT" => sub.status = "PENDING_PAYMENT"
  PROVE  RowInv' /\ SwitchesAreWhole'
<1>1. /\ sub.current \in Maybe(Mandates) /\ sub.pending \in Maybe(Mandates)
      /\ \A m \in Mandates : Authorised(m) => mandate[m].state # "none"
  BY DEF TypeInv, TypeOK, Rows, Authorised
<1>2. /\ sub.current # None => Authorised(sub.current)'
      /\ sub.pending # None => /\ Authorised(sub.pending)'
                               /\ sub.scheduled \in mandate'[sub.pending].asked
  BY <1>1 DEF RowInv, Forward, Maybe
<1>3. sub.current # None =>
        /\ mandate[sub.current].asked \subseteq mandate'[sub.current].asked
        /\ mandate'[sub.current].use = mandate[sub.current].use
  BY <1>1 DEF RowInv, Forward, Maybe
<1>a. Started' = Started /\ (Reinvited => Reinvited')
  BY ReinvitedStays DEF Started
<1>4. RowInv'
  BY <1>2, <1>a DEF RowInv, Authorised
<1>5. SwitchesAreWhole'
  BY <1>3, <1>a DEF SwitchesAreWhole
<1>6. QED
  BY <1>4, <1>5

\* A step of one call, which shows no page, keeps the invariant when that call
\* and the row do.
LEMMA AuthStep ==
  ASSUME TypeInv, AuthInv, NEW p \in Procs, Forward, Hidden(p),
         \A q \in Procs \ {p} : call'[q] = call[q],
         ~In(p, "saveInvite")', SlotInv(p)', RowInv', SwitchesAreWhole',
         sub.current # None => sub'.current # None,
         \A i \in Invites : /\ invite'[i].m = invite[i].m
                            /\ invite[i].state # "none" => invite'[i].state # "none"
  PROVE  AuthInv'
<1>1. \A q \in Procs : GoodCall(call[q]) /\ SlotInv(q)
  BY DEF TypeInv, SlotsOK, AuthInv
<1>2. ASSUME NEW q \in Procs \ {p} PROVE SlotInv(q)'
  <2>1. In(q, "saveInvite") => mandate'[call[q].m] = mandate[call[q].m]
    <3> SUFFICES ASSUME In(q, "saveInvite")
                 PROVE  mandate'[call[q].m] = mandate[call[q].m]
      OBVIOUS
    <3>1. call[q].m \in Mandates /\ mandate[call[q].m].state = "created"
      BY <1>1 DEF GoodCall, SlotInv, In
    <3>2. ~(In(p, "saveInvite") /\ call[q].m = call[p].m)
      BY DEF AuthInv, Apart
    <3>3. QED
      BY <3>1, <3>2 DEF Hidden
  <2>2. QED
    BY <1>1, <2>1, SlotKept
<1>3. Apart'
  BY DEF AuthInv, Apart, In
<1>4. InviteInv'
  BY DEF AuthInv, InviteInv, Forward, TypeInv, TypeOK, Maybe
<1>5. QED
  BY <1>2, <1>3, <1>4 DEF AuthInv

\* A call that moves on, or ends, and leaves the row's mandates as they are.
LEMMA AuthMoves ==
  ASSUME TypeInv, AuthInv, NEW p \in Procs, Forward, Hidden(p),
         \/ Return(p)
         \/ \E phase \in Phases \ Tied :
              Goto(p, phase),
         RowInv', SwitchesAreWhole', sub.current # None => sub'.current # None,
         \A i \in Invites : /\ invite'[i].m = invite[i].m
                            /\ invite[i].state # "none" => invite'[i].state # "none"
  PROVE  AuthInv'
<1>1. /\ \A q \in Procs \ {p} : call'[q] = call[q]
      /\ \/ call'[p] = NoCall
         \/ /\ ~(call'[p].phase \in Tied)
            /\ call'[p].via = call[p].via /\ call'[p].m = call[p].m
            /\ call'[p].saw = call[p].saw /\ call'[p].plan = call[p].plan
  BY DEF TypeInv, SlotsOK, Return, Goto, Calls
<1>2. SlotInv(p)'
  <2>1. CASE call'[p] = NoCall
    BY <2>1 DEF SlotInv, In, NoCall, NoMandates
  <2>2. CASE call'[p] # NoCall
    <3> DEFINE Live == {"authorised", "ending", "dead"}
    <3>1. /\ GoodCall(call[p]) /\ SlotInv(p)
          /\ call[p].saw.current \in Maybe(Mandates)
          /\ call[p].saw.pending \in Maybe(Mandates)
      BY DEF TypeInv, SlotsOK, AuthInv, GoodCall, Calls, MandateColumns
    <3>2. call[p].via = "verify" => /\ mandate'[call[p].m].state \in Live
                                    /\ call[p].plan \in mandate'[call[p].m].asked
                                    /\ sub'.current # None
      BY <3>1 DEF GoodCall, SlotInv, Forward, Authorised
    <3>3. /\ call[p].saw.current # None => mandate'[call[p].saw.current].state \in Live
          /\ call[p].saw.pending # None => mandate'[call[p].saw.pending].state \in Live
      BY <3>1 DEF SlotInv, Forward, Maybe, Authorised
    <3>4. QED
      BY <1>1, <2>2, <3>2, <3>3 DEF SlotInv, In, Authorised, Tied
  <2>3. QED
    BY <2>1, <2>2
<1>3. ~In(p, "saveInvite")'
  BY <1>1 DEF In, NoCall, Tied
<1>4. QED
  BY <1>1, <1>2, <1>3, AuthStep

\* A call that begins with what the row says.
LEMMA AuthBegins ==
  ASSUME TypeInv, AuthInv, NEW p \in Procs, NEW c, Begin(p, c),
         UNCHANGED tables, Forward, Hidden(p), c.phase \notin Tied,
         c.saw = SubMandates \/ c.saw = NoMandates,
         c.via = "verify" => /\ Authorised(c.m)' /\ c.plan \in mandate'[c.m].asked
                             /\ sub.current # None
  PROVE  AuthInv'
<1>1. /\ \A q \in Procs \ {p} : call'[q] = call[q]
      /\ call'[p] = c
  BY DEF TypeInv, SlotsOK, Begin
<1>2. RowInv' /\ SwitchesAreWhole'
  BY RowKept DEF AuthInv, RowInv, tables
<1>3. SlotInv(p)'
  <2>1. /\ sub.current \in Maybe(Mandates) /\ sub.pending \in Maybe(Mandates)
        /\ sub.current # None => Authorised(sub.current)
        /\ sub.pending # None => Authorised(sub.pending)
    BY DEF AuthInv, RowInv, TypeInv, TypeOK, Rows
  <2>2. /\ c.saw.current # None => Authorised(c.saw.current)'
        /\ c.saw.pending # None => Authorised(c.saw.pending)'
    BY <2>1 DEF SubMandates, NoMandates, Forward, Maybe
  <2>3. QED
    BY <1>1, <2>2 DEF SlotInv, In, Authorised, tables, Tied
<1>4. QED
  BY <1>1, <1>2, <1>3, AuthStep DEF tables, In, Tied

\* The first step of every call keeps the invariant.
LEMMA StartAuthInv ==
  ASSUME TypeInv, AuthInv, NEW p \in Procs, Start(p)
  PROVE  AuthInv'
<1> USE DEF bounds, world, Request
<1>0. /\ NoCall \in Calls /\ SubMandates \in MandateColumns
      /\ call \in [Procs -> Calls] /\ TypeOK
  BY RestIsGood, SeenIsTyped DEF TypeInv, GoodCall, SlotsOK
<1>1. ASSUME NEW i \in Invites, NEW m \in Mandates, GetInviteDetails(p, i, m)
      PROVE  AuthInv'
  <2> DEFINE c == [NoCall EXCEPT !.phase = "saveInvite", !.via = "invite",
                                 !.m = m, !.i = i]
  <2>1. /\ c.phase = "saveInvite" /\ c.via = "invite" /\ c.m = m
        /\ c.saw = NoMandates
    BY <1>0 DEF NoCall
  <2>2. /\ Begin(p, c) /\ Create(m, "invite", "created")
        /\ UNCHANGED <<tables, sent, bounds>>
    BY <1>1 DEF GetInviteDetails
  <2> HIDE DEF c
  <2>3. /\ call'[p] = c /\ \A q \in Procs \ {p} : call'[q] = call[q]
        /\ mandate[m].state = "none" /\ mandate'[m].state = "created"
        /\ mandate'[m].use = "invite"
        /\ \A x \in Mandates \ {m} : mandate'[x] = mandate[x]
    BY <1>0, <2>2 DEF Begin, Create, TypeOK
  <2>4. Forward /\ Hidden(p)
    BY <1>0, <2>2, CreateForward
  <2>5. SlotInv(p)'
    BY <2>1, <2>3 DEF SlotInv, In, NoMandates
  <2>6. ASSUME NEW q \in Procs \ {p}
        PROVE  /\ SlotInv(q)'
               /\ In(q, "saveInvite") => call[q].m # m
    <3>1. SlotInv(q) /\ GoodCall(call[q])
      BY DEF AuthInv, TypeInv, SlotsOK
    <3>2. In(q, "saveInvite") =>
            call[q].m # m /\ mandate'[call[q].m] = mandate[call[q].m]
      BY <2>3, <3>1 DEF SlotInv, GoodCall, In
    <3>3. QED
      BY <2>2, <2>3, <2>4, <3>1, <3>2, SlotKept DEF tables
  <2>7. Apart'
    BY <2>1, <2>3, <2>6 DEF AuthInv, Apart, In
  <2>8. RowInv' /\ SwitchesAreWhole'
    BY <2>2, <2>4, RowKept DEF AuthInv, RowInv, tables, Started
  <2>9. InviteInv'
    BY <1>0, <2>2, <2>4 DEF AuthInv, InviteInv, Forward, TypeOK, Maybe, tables
  <2>10. QED
    BY <2>5, <2>6, <2>7, <2>8, <2>9 DEF AuthInv
<1>2. ASSUME NEW i \in Invites, StartVerifyAndActivate(p, i)
      PROVE  AuthInv'
  <2> DEFINE c == [NoCall EXCEPT !.phase = "activate", !.via = "activate",
                                 !.m = invite[i].m, !.i = i]
  <2>1. /\ c.phase = "activate" /\ c.via = "activate" /\ c.m = invite[i].m
        /\ c.i = i /\ c.saw = NoMandates
    BY <1>0 DEF NoCall
  <2>2. /\ Begin(p, c) /\ UNCHANGED <<tables, mandate>>
        /\ invite[i].state = "open" /\ Authorised(invite[i].m)
        /\ mandate[invite[i].m].use = "invite"
    BY <1>2 DEF StartVerifyAndActivate, AuthInv, InviteInv
  <2> HIDE DEF c
  <2>3. /\ call'[p] = c /\ \A q \in Procs \ {p} : call'[q] = call[q]
    BY <1>0, <2>2 DEF Begin
  <2>4. Forward /\ Hidden(p)
    BY <2>2, SameMandates
  <2>5. SlotInv(p)'
    BY <2>1, <2>2, <2>3 DEF SlotInv, In, NoMandates, Authorised, tables
  <2>6. RowInv' /\ SwitchesAreWhole'
    BY <2>2, <2>4, RowKept DEF AuthInv, RowInv, tables, Started
  <2>7. QED
    BY <2>1, <2>2, <2>3, <2>4, <2>5, <2>6, AuthStep DEF tables, In
<1>3. CASE StartManualActivate(p)
  <2> DEFINE c == [NoCall EXCEPT !.phase = "manual", !.via = "manual"]
  <2>1. c.phase = "manual" /\ c.via = "manual" /\ c.saw = NoMandates
    BY <1>0 DEF NoCall
  <2>2. Begin(p, c) /\ UNCHANGED <<tables, mandate>>
    BY <1>3 DEF StartManualActivate
  <2> HIDE DEF c
  <2>3. Forward /\ Hidden(p)
    BY <2>2, SameMandates
  <2>4. QED
    BY <2>1, <2>2, <2>3, AuthBegins DEF Tied
<1>4. ASSUME NEW plan \in Plans, StartSwitchPlan(p, plan)
      PROVE  AuthInv'
  <2> DEFINE phase == IF sub.pending = None THEN "create" ELSE "void"
             c == [NoCall EXCEPT !.phase = phase, !.via = "switch",
                                 !.saw = SubMandates]
  <2>1. c.phase \in {"create", "void"} /\ c.via = "switch" /\ c.saw = SubMandates
    BY <1>0 DEF Calls
  <2>2. Begin(p, c) /\ UNCHANGED <<tables, mandate>>
    BY <1>4 DEF StartSwitchPlan
  <2> HIDE DEF c
  <2>3. Forward /\ Hidden(p)
    BY <2>2, SameMandates
  <2>4. QED
    BY <2>1, <2>2, <2>3, AuthBegins DEF Tied
<1>5. ASSUME NEW m \in Mandates, NEW plan \in Plans,
             StartSwitchPlanVerify(p, m, plan)
      PROVE  AuthInv'
  <2> DEFINE phase == IF plan > sub.plan THEN "cancelOld" ELSE "end"
             c == [NoCall EXCEPT !.phase = phase, !.via = "verify", !.m = m,
                                 !.plan = plan, !.saw = SubMandates]
  <2>0. phase \in {"cancelOld", "end"}
    OBVIOUS
  <2>1. /\ c.phase = phase /\ c.via = "verify" /\ c.m = m
        /\ c.plan = plan /\ c.saw = SubMandates
    BY <1>0 DEF Calls
  <2>2. /\ Begin(p, c) /\ UNCHANGED tables
        /\ Authorised(m) /\ sub.current # None
        /\ mandate' = [mandate EXCEPT ![m].asked = @ \cup {plan}]
    BY <1>5 DEF StartSwitchPlanVerify
  <2> HIDE DEF c, phase
  <2>3. Forward /\ Hidden(p) /\ plan \in mandate'[m].asked
    BY <1>0, <2>2 DEF TypeOK, Forward, Hidden, Authorised
  <2>4. Authorised(m)'
    BY <2>2, <2>3 DEF Forward
  <2>5. QED
    BY <2>0, <2>1, <2>2, <2>3, <2>4, AuthBegins DEF Tied
<1>6. CASE StartCancellation(p)
  <2> DEFINE phase == IF sub.pending = None THEN "end" ELSE "void"
             c == [NoCall EXCEPT !.phase = phase, !.via = "cancel",
                                 !.saw = SubMandates]
  <2>1. c.phase \in {"end", "void"} /\ c.via = "cancel" /\ c.saw = SubMandates
    BY <1>0 DEF Calls
  <2>2. Begin(p, c) /\ UNCHANGED <<tables, mandate>>
    BY <1>6 DEF StartCancellation
  <2> HIDE DEF c
  <2>3. Forward /\ Hidden(p)
    BY <2>2, SameMandates
  <2>4. QED
    BY <2>1, <2>2, <2>3, AuthBegins DEF Tied
<1>7. ASSUME NEW e \in Events, ReceiveWebhook(p, e)
      PROVE  AuthInv'
  <2> DEFINE c == [NoCall EXCEPT !.phase = "lookup", !.via = "webhook",
                                 !.kind = e[1], !.m = e[2]]
  <2>1. c.phase = "lookup" /\ c.via = "webhook" /\ c.saw = NoMandates
    BY <1>0 DEF NoCall
  <2>2. Begin(p, c) /\ UNCHANGED <<tables, mandate>>
    BY <1>7 DEF ReceiveWebhook
  <2> HIDE DEF c
  <2>3. Forward /\ Hidden(p)
    BY <2>2, SameMandates
  <2>4. QED
    BY <2>1, <2>2, <2>3, AuthBegins DEF Tied
<1>8. QED
  BY <1>1, <1>2, <1>3, <1>4, <1>5, <1>6, <1>7 DEF Start

\* Steps that change neither the row nor a mandate.
LEMMA AuthIdles ==
  ASSUME TypeInv, AuthInv, NEW p \in Procs, UNCHANGED <<sub, invite, mandate>>,
         comped => comped',
         \/ Return(p)
         \/ \E phase \in Phases \ Tied :
              Goto(p, phase)
  PROVE  AuthInv'
<1>1. Forward /\ Hidden(p)
  BY SameMandates
<1>2. RowInv' /\ SwitchesAreWhole'
  BY <1>1, RowKept DEF AuthInv, RowInv, Started
<1>3. QED
  BY <1>1, <1>2, AuthMoves

\* Steps that only end a mandate that is authorised.
LEMMA AuthEnds ==
  ASSUME TypeInv, AuthInv, NEW p \in Procs, NEW m \in Mandates, Authorised(m),
         NEW state \in {"authorised", "ending", "dead"},
         mandate' = [mandate EXCEPT ![m].state = state],
         UNCHANGED <<sub, invite, comped>>,
         \E phase \in Phases \ Tied :
           Goto(p, phase)
  PROVE  AuthInv'
<1>1. Forward /\ Hidden(p)
  BY EndForward DEF TypeInv
<1>2. RowInv' /\ SwitchesAreWhole'
  BY <1>1, RowKept DEF AuthInv, RowInv, Started
<1>3. QED
  BY <1>1, <1>2, AuthMoves

\* Steps that write the row of a tenant whose invites and mandates stay.
LEMMA AuthWrites ==
  ASSUME TypeInv, AuthInv, NEW p \in Procs, mandate' = mandate,
         \A i \in Invites : /\ invite'[i].m = invite[i].m
                            /\ invite[i].state # "none" => invite'[i].state # "none",
         RowInv', SwitchesAreWhole', sub.current # None => sub'.current # None,
         \/ Return(p)
         \/ \E phase \in Phases \ Tied :
              Goto(p, phase)
  PROVE  AuthInv'
<1>1. Forward /\ Hidden(p)
  BY SameMandates
<1>2. QED
  BY <1>1, AuthMoves

\* Every later step of a call keeps the invariant.
LEMMA ContinueAuthInv ==
  ASSUME TypeInv, AuthInv, NEW p \in Procs, Continue(p)
  PROVE  AuthInv'
<1> USE DEF bounds, tables, world, In
<1> DEFINE Calm == Phases \ Tied
<1>0. /\ GoodCall(call[p]) /\ call[p] \in Calls /\ SlotInv(p)
      /\ TypeOK /\ sub \in Rows /\ call \in [Procs -> Calls]
      /\ {"reset", "unwind", "create", "end", "apply", "schedule", "setCancel",
          "halt", "complete", "cancelled", "deactivate", "processed"} \subseteq Calm
  BY DEF TypeInv, SlotsOK, GoodCall, TypeOK, AuthInv, Phases, Tied
<1> HIDE DEF Calm
<1>a. \A phase \in Calm :
        phase \in Phases \ Tied
  BY DEF Calm
<1>1. CASE UpdateInviteRazorpaySubscription(p)
  <2> DEFINE m == call[p].m  i == call[p].i
  <2>1. /\ m \in Mandates /\ i \in Invites /\ mandate[m].state = "created"
        /\ mandate[m].use = "invite"
    BY <1>0, <1>1 DEF UpdateInviteRazorpaySubscription, GoodCall, SlotInv
  <2>2. /\ invite' = [invite EXCEPT ![i].m = m]
        /\ mandate' = [mandate EXCEPT ![m].state = "shown"]
        /\ Return(p) /\ UNCHANGED <<sub, comped>> /\ call[p].phase = "saveInvite"
    BY <1>1 DEF UpdateInviteRazorpaySubscription
  <2> HIDE DEF m, i
  <2>3. Forward
    BY <1>0, <2>1, <2>2 DEF Forward, Authorised, TypeOK
  <2>4. \A x \in Invites : /\ invite'[x].state = invite[x].state
                           /\ invite'[x].m = IF x = i THEN m ELSE invite[x].m
    BY <1>0, <2>1, <2>2 DEF TypeOK
  <2>5. RowInv' /\ SwitchesAreWhole'
    BY <2>2, <2>3, <2>4, RowKept DEF AuthInv, RowInv, Started
  <2>6. InviteInv'
    BY <1>0, <2>1, <2>3, <2>4 DEF AuthInv, InviteInv, Forward, TypeOK, Maybe
  <2>7. /\ call'[p] = NoCall
        /\ \A q \in Procs \ {p} : call'[q] = call[q]
    BY <1>0, <2>2 DEF Return
  <2>8. \A q \in Procs \ {p} : SlotInv(q)'
    <3> SUFFICES ASSUME NEW q \in Procs \ {p} PROVE SlotInv(q)'
      OBVIOUS
    <3>1. SlotInv(q) /\ GoodCall(call[q])
      BY DEF AuthInv, TypeInv, SlotsOK
    <3>2. In(q, "saveInvite") => mandate'[call[q].m] = mandate[call[q].m]
      <4>1. In(q, "saveInvite") => call[q].m # m /\ call[q].m \in Mandates
        BY <2>2, <3>1 DEF AuthInv, Apart, m, GoodCall
      <4>2. QED
        BY <1>0, <2>2, <4>1 DEF TypeOK
    <3>3. QED
      BY <2>2, <2>3, <2>4, <2>7, <3>1, <3>2, SlotKept
  <2>9. SlotInv(p)'
    BY <2>7 DEF SlotInv, NoCall, NoMandates
  <2>10. Apart'
    BY <2>7 DEF AuthInv, Apart, NoCall
  <2>11. QED
    BY <2>5, <2>6, <2>8, <2>9, <2>10 DEF AuthInv
<1>2. CASE ActivateFromInvite(p)
  <2> DEFINE m == call[p].m  i == call[p].i
  <2>1. /\ m \in Mandates /\ i \in Invites /\ Authorised(m)
        /\ mandate[m].use = "invite" /\ invite[i].state # "none"
    BY <1>0, <1>2 DEF ActivateFromInvite, GoodCall, SlotInv
  <2>2. /\ invite' = [invite EXCEPT ![i].state = "used"]
        /\ sub' = [sub EXCEPT !.status = "ACTIVE", !.current = m]
        /\ Goto(p, "reset") /\ UNCHANGED <<mandate, comped>>
    BY <1>2 DEF ActivateFromInvite
  <2> HIDE DEF m, i
  <2>3. \A x \in Invites : /\ invite'[x].m = invite[x].m
                           /\ invite[x].state # "none" => invite'[x].state # "none"
                           /\ x = i => invite'[x].state = "used"
    BY <1>0, <2>1, <2>2 DEF TypeOK
  <2>4. /\ sub'.current = m /\ sub'.pending = sub.pending
        /\ sub'.scheduled = sub.scheduled
    BY <1>0, <2>2 DEF Rows
  <2>5. m # None
    BY <2>1, NoneAssumption
  <2>6. RowInv'
    BY <2>1, <2>2, <2>3, <2>4, <2>5 DEF AuthInv, RowInv, Authorised, Started
  <2>7. SwitchesAreWhole'
    BY <2>1, <2>2, <2>4 DEF SwitchesAreWhole
  <2>8. QED
    BY <1>0, <1>a, <2>2, <2>3, <2>4, <2>5, <2>6, <2>7, AuthWrites
<1>3. CASE ManualActivate(p)
  <2>1. /\ sub'.current = sub.current /\ sub'.pending = sub.pending
        /\ sub'.scheduled = sub.scheduled /\ sub'.plan = sub.plan
        /\ sub'.status \in {sub.status, "ACTIVE"}
        /\ UNCHANGED <<invite, mandate>> /\ comped' = TRUE
        /\ Goto(p, "reset")
    BY <1>0, <1>3 DEF ManualActivate, Rows
  <2>2. RowInv' /\ SwitchesAreWhole'
    BY <2>1, SameMandates, RowKept DEF AuthInv, Started
  <2>3. QED
    BY <1>0, <1>a, <2>1, <2>2, AuthWrites
<1>4. CASE ResetForPlanChange(p)
  <2>1. UNCHANGED <<sub, invite, mandate, comped>>
        /\ (Goto(p, "processed") \/ Return(p))
    BY <1>4 DEF ResetForPlanChange
  <2>2. QED
    BY <1>0, <1>a, <2>1, AuthIdles
<1>5. CASE Void(p)
  <2>1. call[p].saw.pending \in Mandates /\ Authorised(call[p].saw.pending)
    BY <1>0, <1>5, NoneAssumption DEF Void, GoodCall, SlotInv
  <2>2. CASE Refused(p, call[p].saw.pending)
    BY <1>5, <2>2, AuthIdles DEF Void, Refused
  <2>3. CASE ~Refused(p, call[p].saw.pending)
    BY <1>0, <1>a, <1>5, <2>1, <2>3, AuthEnds DEF Void, CancelNow
  <2>4. QED
    BY <2>2, <2>3
<1>6. CASE UnwindPendingPlanChange(p)
  <2>1. /\ sub'.current = sub.current /\ sub'.pending = None
        /\ sub'.plan = sub.plan /\ sub'.status = sub.status
        /\ UNCHANGED <<invite, mandate, comped>>
        /\ Goto(p, "create") \/ Goto(p, "end")
    BY <1>0, <1>6 DEF UnwindPendingPlanChange, Rows
  <2>2. RowInv' /\ SwitchesAreWhole'
    BY <2>1 DEF AuthInv, RowInv, SwitchesAreWhole, Authorised, Started, Reinvited
  <2>3. QED
    BY <1>0, <1>a, <2>1, <2>2, AuthWrites
<1>7. ASSUME NEW m \in Mandates, CreateReplacement(p, m) PROVE AuthInv'
  <2>1. Forward /\ Hidden(p)
    BY <1>0, <1>7, CreateForward DEF CreateReplacement
  <2>2. UNCHANGED <<sub, invite, comped>> /\ Return(p)
    BY <1>7 DEF CreateReplacement
  <2>3. RowInv' /\ SwitchesAreWhole'
    BY <2>1, <2>2, RowKept DEF AuthInv, RowInv, Started
  <2>4. QED
    BY <2>1, <2>2, <2>3, AuthMoves
<1>8. CASE CancelOldMandate(p)
  <2>1. call[p].saw.current \in Mandates /\ Authorised(call[p].saw.current)
    BY <1>0, <1>8, NoneAssumption DEF CancelOldMandate, GoodCall, SlotInv
  <2>2. CASE Refused(p, call[p].saw.current)
    BY <1>8, <2>2, AuthIdles DEF CancelOldMandate, Refused
  <2>3. CASE ~Refused(p, call[p].saw.current)
    BY <1>0, <1>a, <1>8, <2>1, <2>3, AuthEnds DEF CancelOldMandate, CancelNow
  <2>4. QED
    BY <2>2, <2>3
<1>9. CASE ApplyImmediatePlanChange(p)
  <2> DEFINE m == call[p].m
  <2>1. /\ m \in Mandates /\ Authorised(m) /\ call[p].plan \in mandate[m].asked
        /\ sub.current # None
    BY <1>0, <1>9 DEF ApplyImmediatePlanChange, GoodCall, SlotInv
  <2>2. /\ sub'.current = m /\ sub'.pending = None
        /\ sub'.plan \in mandate[m].asked /\ sub'.status = sub.status
        /\ UNCHANGED <<invite, mandate, comped>> /\ Goto(p, "reset")
    BY <1>0, <1>9, <2>1 DEF ApplyImmediatePlanChange, Rows
  <2>3. m # None
    BY <2>1, NoneAssumption
  <2> HIDE DEF m
  <2>4. RowInv' /\ SwitchesAreWhole'
    BY <2>1, <2>2, <2>3
    DEF AuthInv, RowInv, SwitchesAreWhole, Authorised, Started, Reinvited
  <2>5. QED
    BY <1>0, <1>a, <2>2, <2>3, <2>4, AuthWrites
<1>10. CASE CancelAtCycleEnd(p)
  <2>1. call[p].saw.current \in Mandates /\ Authorised(call[p].saw.current)
    BY <1>0, <1>10, NoneAssumption DEF CancelAtCycleEnd, GoodCall, SlotInv
  <2>2. CASE Refused(p, call[p].saw.current)
    BY <1>10, <2>2, AuthIdles DEF CancelAtCycleEnd, Refused
  <2>3. CASE ~Refused(p, call[p].saw.current)
    BY <1>0, <1>a, <1>10, <2>1, <2>3, AuthEnds DEF CancelAtCycleEnd
  <2>4. QED
    BY <2>2, <2>3
<1>11. CASE ScheduleDowngrade(p)
  <2> DEFINE m == call[p].m
  <2>1. /\ m \in Mandates /\ Authorised(m) /\ call[p].plan \in mandate[m].asked
        /\ sub.current # None
    BY <1>0, <1>11 DEF ScheduleDowngrade, GoodCall, SlotInv
  <2>2. /\ sub'.current = sub.current /\ sub'.pending = m
        /\ sub'.scheduled \in mandate[m].asked /\ sub'.plan = sub.plan
        /\ sub'.status = sub.status
        /\ UNCHANGED <<invite, mandate, comped>> /\ Return(p)
    BY <1>0, <1>11, <2>1 DEF ScheduleDowngrade, Rows
  <2> HIDE DEF m
  <2>3. RowInv' /\ SwitchesAreWhole'
    BY <2>1, <2>2 DEF AuthInv, RowInv, SwitchesAreWhole, Authorised, Started, Reinvited
  <2>4. QED
    BY <2>2, <2>3, AuthWrites
<1>12. CASE SetCancelAtPeriodEnd(p)
  <2>1. /\ sub'.current = sub.current /\ sub'.pending = sub.pending
        /\ sub'.scheduled = sub.scheduled /\ sub'.plan = sub.plan
        /\ sub'.status = sub.status
        /\ UNCHANGED <<invite, mandate, comped>> /\ Return(p)
    BY <1>0, <1>12 DEF SetCancelAtPeriodEnd, Rows
  <2>2. RowInv' /\ SwitchesAreWhole'
    BY <2>1, SameMandates, RowKept DEF AuthInv, RowInv, Started
  <2>3. QED
    BY <2>1, <2>2, AuthWrites
<1>13. CASE LookupSubscription(p)
  <2>1. UNCHANGED <<sub, invite, mandate, comped>>
    BY <1>13 DEF LookupSubscription
  <2>2. CASE Goto(p, "reconcile")
    <3>0. call[p].kind \in AllKinds /\ call[p].m \in Mandates
      BY <1>0, <1>13 DEF LookupSubscription, GoodCall, Calls
    <3>1. /\ call'[p].phase = "reconcile" /\ call'[p].via = call[p].via
          /\ call'[p].saw = call[p].saw /\ call'[p].m = call[p].m
          /\ call'[p].plan = call[p].plan
          /\ \A q \in Procs \ {p} : call'[q] = call[q]
      BY <1>0, <2>2 DEF Goto, Calls
    <3>2. call[p].m \in {sub.current, sub.pending}
      <4>1. call'[p].phase # "processed"
        BY <3>1
      <4>2. Goto(p, "processed") => call'[p].phase = "processed"
        BY <1>0 DEF Goto, Calls
      <4>3. QED
        BY <1>13, <4>1, <4>2 DEF LookupSubscription
    <3>3. sub.current # None
      BY <3>0, <3>2, NoneAssumption DEF AuthInv, RowInv
    <3>4. SlotInv(p)'
      BY <1>0, <2>1, <3>1, <3>3 DEF SlotInv, Authorised
    <3>5. Forward /\ Hidden(p)
      BY <2>1, SameMandates
    <3>6. RowInv' /\ SwitchesAreWhole'
      BY <2>1, <3>5, RowKept DEF AuthInv, RowInv, Started
    <3>7. QED
      BY <2>1, <3>1, <3>4, <3>5, <3>6, AuthStep
  <2>3. CASE ~Goto(p, "reconcile")
    <3>0. call[p].kind \in AllKinds
      BY <1>0 DEF Calls
    <3>1. Handling(call[p].kind) \in {"reconcile", "halt", "complete", "cancelled"}
      BY <3>0 DEF Handling, AllKinds
    <3>2. \E phase \in Calm : Goto(p, phase)
      BY <1>0, <1>13, <2>3, <3>1 DEF LookupSubscription
    <3>3. QED
      BY <1>a, <2>1, <3>2, AuthIdles
  <2>4. QED
    BY <2>2, <2>3
<1>14. CASE ReconcileActivated(p)
  <2>1. /\ sub'.current = sub.current /\ sub'.pending = sub.pending
        /\ sub'.scheduled = sub.scheduled /\ sub'.plan = sub.plan
        /\ sub'.status = "ACTIVE"
        /\ UNCHANGED <<invite, mandate, comped>> /\ Goto(p, "processed")
    BY <1>0, <1>14 DEF ReconcileActivated, Rows
  <2>2. sub.current # None
    BY <1>0, <1>14 DEF ReconcileActivated, SlotInv
  <2>3. RowInv' /\ SwitchesAreWhole'
    BY <2>1, <2>2, SameMandates, RowKept DEF AuthInv, Started
  <2>4. QED
    BY <1>0, <1>a, <2>1, <2>3, AuthWrites
<1>15. CASE HaltSubscriptionAndSuspendTenant(p) \/ Deactivate(p)
  <2>1. /\ sub'.current = sub.current /\ sub'.pending = sub.pending
        /\ sub'.scheduled = sub.scheduled /\ sub'.plan = sub.plan
        /\ sub'.status \in {"PAST_DUE", "CANCELLED"}
        /\ UNCHANGED <<invite, mandate, comped>> /\ Goto(p, "processed")
    BY <1>0, <1>15 DEF HaltSubscriptionAndSuspendTenant, Deactivate, Rows
  <2>2. RowInv' /\ SwitchesAreWhole'
    BY <2>1, SameMandates, RowKept DEF AuthInv, Started
  <2>3. QED
    BY <1>0, <1>a, <2>1, <2>2, AuthWrites
<1>16. CASE MarkCancelled(p)
  <2>1. UNCHANGED <<sub, invite, mandate, comped>>
    BY <1>16 DEF MarkCancelled
  <2>2. CASE Goto(p, "deactivate")
    BY <1>0, <1>a, <2>1, <2>2, AuthIdles
  <2>3. CASE ~Goto(p, "deactivate")
    <3> DEFINE c == [call[p] EXCEPT !.phase = "handoff", !.saw = SubMandates]
    <3>1. /\ sub.pending # None
          /\ call' = [call EXCEPT ![p] = c]
      BY <1>0, <1>16, <2>3 DEF MarkCancelled
    <3>2. c.phase = "handoff" /\ c.via = call[p].via /\ c.saw = SubMandates
      BY <1>0 DEF Calls
    <3>3. call[p].via = "webhook"
      BY <1>0, <1>16 DEF MarkCancelled, GoodCall
    <3> HIDE DEF c
    <3>4. call'[p] = c /\ \A q \in Procs \ {p} : call'[q] = call[q]
      BY <1>0, <3>1
    <3>5. SlotInv(p)'
      BY <2>1, <3>1, <3>2, <3>3, <3>4
      DEF SlotInv, AuthInv, RowInv, SubMandates, Authorised
    <3>6. Forward /\ Hidden(p)
      BY <2>1, SameMandates
    <3>7. RowInv' /\ SwitchesAreWhole'
      BY <2>1, <3>6, RowKept DEF AuthInv, RowInv, Started
    <3>8. QED
      BY <2>1, <3>2, <3>4, <3>5, <3>6, <3>7, AuthStep
  <2>4. QED
    BY <2>2, <2>3
<1>17. CASE FinalizeScheduledPlanChange(p)
  <2> DEFINE m == call[p].saw.pending
  <2>1. /\ m \in Mandates /\ m # None /\ sub.current # None
        /\ call[p].saw.scheduled \in mandate[m].asked /\ Authorised(m)
    BY <1>0, <1>17, NoneAssumption DEF FinalizeScheduledPlanChange, GoodCall, SlotInv
  <2>2. /\ sub'.current = m /\ sub'.pending = None
        /\ sub'.plan \in mandate[m].asked /\ sub'.status = sub.status
        /\ UNCHANGED <<invite, mandate, comped>> /\ Goto(p, "reset")
    BY <1>0, <1>17, <2>1 DEF FinalizeScheduledPlanChange, Rows
  <2> HIDE DEF m
  <2>3. RowInv' /\ SwitchesAreWhole'
    BY <2>1, <2>2 DEF AuthInv, RowInv, SwitchesAreWhole, Authorised, Started, Reinvited
  <2>4. QED
    BY <1>0, <1>a, <2>1, <2>2, <2>3, AuthWrites
<1>18. CASE MarkWebhookProcessed(p)
  BY <1>18, AuthIdles DEF MarkWebhookProcessed
<1>19. CASE ReadRow(p)
  <2>1. UNCHANGED <<sub, invite, mandate, comped>>
    BY <1>19 DEF ReadRow
  <2>2. CASE Goto(p, "processed")
    BY <1>0, <1>a, <2>1, <2>2, AuthIdles
  <2>3. CASE ~Goto(p, "processed")
    <3> DEFINE c == [call[p] EXCEPT !.phase = "reconcileWrite", !.read = sub.status]
    <3>1. sub.status = "PENDING_PAYMENT" /\ call' = [call EXCEPT ![p] = c]
      BY <1>0, <1>19, <2>3 DEF ReadRow
    <3>2. /\ c.phase = "reconcileWrite" /\ c.via = call[p].via
          /\ c.saw = call[p].saw /\ c.read = "PENDING_PAYMENT"
      BY <1>0, <3>1 DEF Calls
    <3>3. call[p].via = "webhook" /\ sub.current # None
      BY <1>0, <1>19 DEF ReadRow, GoodCall, SlotInv
    <3> HIDE DEF c
    <3>4. call'[p] = c /\ \A q \in Procs \ {p} : call'[q] = call[q]
      BY <1>0, <3>1
    <3>5. Reinvited'
      BY <2>1, <3>1, <3>3, ReinvitedStays DEF AuthInv, RowInv
    <3>6. SlotInv(p)'
      BY <1>0, <2>1, <3>2, <3>3, <3>4, <3>5 DEF SlotInv, Authorised
    <3>7. Forward /\ Hidden(p)
      BY <2>1, SameMandates
    <3>8. RowInv' /\ SwitchesAreWhole'
      BY <2>1, <3>7, RowKept DEF AuthInv, RowInv
    <3>9. QED
      BY <2>1, <3>2, <3>4, <3>6, <3>7, <3>8, AuthStep
  <2>4. QED
    BY <2>2, <2>3
<1>20. QED
  BY <1>1, <1>2, <1>3, <1>4, <1>5, <1>6, <1>7, <1>8, <1>9, <1>10, <1>11,
     <1>12, <1>13, <1>14, <1>15, <1>16, <1>17, <1>18, <1>19 DEF Continue

\* Every step keeps the invariant.
LEMMA AuthInvStep == TypeInv /\ AuthInv /\ [Next]_vars => AuthInv'
<1> USE DEF bounds, tables, world
<1> SUFFICES ASSUME TypeInv, AuthInv, [Next]_vars PROVE AuthInv'
  OBVIOUS
<1>0. TypeOK /\ sub \in Rows
  BY DEF TypeInv, TypeOK
<1>1. ASSUME NEW p \in Procs, Start(p) \/ Continue(p) PROVE AuthInv'
  BY <1>1, StartAuthInv, ContinueAuthInv
<1>2. ASSUME NEW p \in Procs, Throw(p) \/ Die(p) PROVE AuthInv'
  BY <1>2, AuthIdles DEF Throw, Die
<1>3. ASSUME NEW i \in Invites, NEW plan \in Plans, CreateInvite(i, plan)
      PROVE  AuthInv'
  <2>1. /\ sub'.current = sub.current /\ sub'.pending = sub.pending
        /\ sub'.scheduled = sub.scheduled /\ sub'.status = "PENDING_PAYMENT"
        /\ UNCHANGED <<mandate, call, comped>>
    BY <1>0, <1>3 DEF CreateInvite, Rows
  <2>2. /\ invite[i].state = "none" /\ invite'[i].state = "open"
        /\ invite'[i].m = None
        /\ \A x \in Invites \ {i} : invite'[x] = invite[x]
    BY <1>0, <1>3 DEF CreateInvite, TypeOK
  <2>3. \A x \in Invites : invite[x].state # "none" => invite'[x].state # "none"
    BY <2>2
  <2>4. Forward
    BY <2>1 DEF Forward, Authorised
  <2>5. \A q \in Procs : SlotInv(q)'
    BY <2>1, <2>3, <2>4, SlotKept DEF AuthInv
  <2>6. Apart' /\ InviteInv'
    BY <2>1, <2>2 DEF AuthInv, Apart, InviteInv, In
  <2>7. i \in Started' /\ Started \subseteq Started' /\ i \notin Started
    BY <2>2, <2>3 DEF Started
  <2>a. Started # {} => Reinvited'
    BY <2>2, <2>3 DEF Started, Reinvited
  <2>8. RowInv'
    BY <2>1, <2>7, <2>a DEF AuthInv, RowInv, Authorised
  <2>9. SwitchesAreWhole'
    BY <2>1, <2>a DEF AuthInv, RowInv, SwitchesAreWhole
  <2>10. QED
    BY <2>5, <2>6, <2>8, <2>9 DEF AuthInv
<1>4. ASSUME NEW m \in Mandates, Razorpay(m) PROVE AuthInv'
  <2>1. PICK state \in {"authorised", "ending", "dead"} :
          /\ mandate' = [mandate EXCEPT ![m].state = state]
          /\ UNCHANGED <<sub, invite, comped, call>>
          /\ Authorised(m) \/ mandate[m].state = "shown"
    <3>1. CASE Authorise(m) \/ CycleEnds(m) \/ Completes(m)
      BY <3>1 DEF Authorise, CycleEnds, Completes, Becomes, Authorised
    <3>2. CASE ChargesFail(m)
      BY <3>2 DEF ChargesFail, Becomes, Authorised
    <3>3. QED
      BY <1>4, <3>1, <3>2 DEF Razorpay
  <2>2. ASSUME NEW p \in Procs PROVE Forward /\ Hidden(p)
    BY <1>0, <2>1, EndForward
  <2>3. Forward
    BY <1>0, <2>1 DEF Forward, Authorised, TypeOK
  <2>4. \A q \in Procs : SlotInv(q)'
    <3> SUFFICES ASSUME NEW q \in Procs PROVE SlotInv(q)'
      OBVIOUS
    <3>1. SlotInv(q) /\ GoodCall(call[q])
      BY DEF AuthInv, TypeInv, SlotsOK
    <3>2. In(q, "saveInvite") => mandate'[call[q].m] = mandate[call[q].m]
      BY <1>0, <2>1, <3>1 DEF SlotInv, GoodCall, In, TypeOK, Authorised
    <3>3. QED
      BY <2>1, <2>3, <3>1, <3>2, SlotKept
  <2>5. RowInv' /\ SwitchesAreWhole'
    BY <2>1, <2>3, RowKept DEF AuthInv, RowInv, Started
  <2>6. Apart' /\ InviteInv'
    BY <1>0, <2>1, <2>3 DEF AuthInv, Apart, InviteInv, In, Forward, TypeOK, Maybe
  <2>7. QED
    BY <2>4, <2>5, <2>6 DEF AuthInv
<1>5. CASE UNCHANGED vars
  <2>1. UNCHANGED <<sub, invite, mandate, call, comped>>
    BY <1>5 DEF vars
  <2>2. QED
    BY <2>1 DEF AuthInv, SlotInv, Apart, RowInv, InviteInv, SwitchesAreWhole,
       Authorised, In, Started, Reinvited
<1>6. QED
  BY <1>1, <1>2, <1>3, <1>4, <1>5 DEF Next

\* Nobody's plan is active and no mandate takes over that its owner did not
\* authorise, whatever pages, submits, events and handoffs overlap.
THEOREM OnlyAuthorisedMandates == Spec => []ActiveIsAuthorised
<1>1. AuthInv => ActiveIsAuthorised
  BY DEF AuthInv, RowInv, ActiveIsAuthorised
<1>2. QED
  BY InitTypeInv, TypeInvStep, InitAuthInv, AuthInvStep, <1>1, PTL DEF Spec

\* A tenant invited once that pays the mandate of a switch has a plan that was
\* submitted with that mandate, however submits, voids and handoffs overlap.
THEOREM SwitchesTakeEffectWhole == Spec => []SwitchesAreWhole
<1>1. AuthInv => SwitchesAreWhole
  BY DEF AuthInv
<1>2. QED
  BY InitTypeInv, TypeInvStep, InitAuthInv, AuthInvStep, <1>1, PTL DEF Spec

\* What failed or ended is ACTIVE again because its owner paid an invite; an
\* event does it only after a second invite, and only when its transaction read
\* PENDING_PAYMENT before the end and wrote after it.
THEOREM NothingIsResurrected == Spec => LateEventsResurrectNothing
<1> DEFINE Revival ==
      sub.status \in {"PAST_DUE", "CANCELLED"} /\ sub'.status = "ACTIVE" =>
        \E p \in Procs :
          \/ In(p, "activate") /\ Authorised(call[p].m)
          \/ /\ In(p, "reconcileWrite") /\ call[p].read = "PENDING_PAYMENT"
             /\ Reinvited
<1>1. TypeInv /\ AuthInv /\ [Next]_vars => [Revival]_vars
  <2> SUFFICES ASSUME TypeInv, AuthInv, [Next]_vars PROVE Revival
    OBVIOUS
  <2>1. CASE \E p \in Procs : ActivateFromInvite(p)
    BY <2>1 DEF ActivateFromInvite, AuthInv, SlotInv
  <2>2. CASE \E p \in Procs : ReconcileActivated(p)
    BY <2>2 DEF ReconcileActivated, AuthInv, SlotInv
  <2>3. CASE ~\E p \in Procs : ActivateFromInvite(p) \/ ReconcileActivated(p)
    BY <2>3, StatusWrites
  <2>4. QED
    BY <2>1, <2>2, <2>3
<1>2. QED
  BY InitTypeInv, TypeInvStep, InitAuthInv, AuthInvStep, <1>1, PTL
  DEF Spec, LateEventsResurrectNothing
=============================================================================
