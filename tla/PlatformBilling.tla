-------------------------- MODULE PlatformBilling --------------------------
(***************************************************************************)
(* What one tenant pays the platform: its platform subscription, the       *)
(* activation invites sent to it, the mandates (Razorpay subscriptions)    *)
(* its owner authorises, and the webhooks Razorpay sends about them.       *)
(*                                                                         *)
(* A plan change never edits a mandate: the owner authorises a new one. An *)
(* upgrade ends the old mandate at once, a downgrade at its cycle's end,   *)
(* when the cancelled event of the old one hands over to the new one. Each *)
(* handler is a call in a slot of Procs, and each await that changes       *)
(* something, or reads what another may change, is a step.                 *)
(***************************************************************************)
EXTENDS Naturals, FiniteSets

CONSTANTS
  Procs,        \* slots for calls in flight: the bound on concurrency
  Handlers,     \* the handlers that are called in this instance
  Mandates,     \* bound: Razorpay subscriptions that can be created
  Invites,      \* bound: activation invites that can be sent
  Plans,        \* plans and one-off deals, each named by its price
  Kinds,        \* webhook events Razorpay is configured to send
  MaxRequests,  \* bound: requests of the owner and the platform's staff
  MaxEvents,    \* bound: webhook events that ever reach the server
  MaxFaults,    \* bound: thrown errors and calls that die with their server
  None          \* no mandate, no plan, no invite

AllHandlers == {"manual", "switch", "cancel"}
AllKinds == {"activated", "halted", "cancelled", "completed"}
RowStatuses == {"NONE", "PENDING_PAYMENT", "ACTIVE", "PAST_DUE", "CANCELLED"}
TenantStatuses == {"ACTIVE", "INACTIVE", "SUSPENDED"}
MandateStates == {"none", "created", "shown", "authorised", "ending", "dead"}
InviteStates == {"none", "open", "used"}
Uses == {"invite", "switch"}

ASSUME PlansAssumption == Plans \subseteq Nat
ASSUME NoneAssumption == None \notin Mandates \cup Plans \cup Invites
ASSUME HandlersAssumption == Handlers \subseteq AllHandlers /\ Kinds \subseteq AllKinds
ASSUME BoundsAssumption == /\ MaxRequests \in Nat /\ MaxEvents \in Nat
                           /\ MaxFaults \in Nat

Events == AllKinds \X Mandates
Maybe(S) == S \cup {None}

\* "NONE" is the tenant without a row.
Rows == [status : RowStatuses, plan : Maybe(Plans), current : Maybe(Mandates),
         pending : Maybe(Mandates), scheduled : Maybe(Plans),
         cancelAtEnd : BOOLEAN]

MandateColumns == [current : Maybe(Mandates), pending : Maybe(Mandates),
                   scheduled : Maybe(Plans)]

VARIABLES
  sub,        \* the tenant's platform subscription row
  tenant,     \* tenants.status
  invite,     \* the activation invites
  mandate,    \* Razorpay's subscriptions; asked is the history of the plans
              \* that switchPlanVerify was called for with it
  sent,       \* <<kind, mandate>> of the events Razorpay has to deliver
  processed,  \* the events whose webhook record is PROCESSED
  comped,     \* history: the tenant was activated by hand once
  call,       \* call[p]: the call running in slot p
  requests, faults

bounds == <<requests, faults>>
world == <<mandate, sent>>
tables == <<sub, tenant, invite, processed, comped>>
vars == <<tables, world, call, bounds>>

-----------------------------------------------------------------------------
\* Calls in flight.

Phases == {"idle", "saveInvite", "activate", "manual", "reset",
           "void", "unwind", "create",                     \* switchPlan
           "cancelOld", "apply", "end", "schedule",        \* switchPlanVerify
           "setCancel",                                    \* scheduleCancellation
           "lookup", "reconcile", "reconcileWrite", "halt", "complete",
           "cancelled", "handoff", "deactivate", "processed"}  \* handleWebhook
Vias == {"none", "invite", "activate", "manual", "switch", "verify", "cancel",
         "webhook"}

NoRow == [status |-> "NONE", plan |-> None, current |-> None,
          pending |-> None, scheduled |-> None, cancelAtEnd |-> FALSE]
NoMandates == [current |-> None, pending |-> None, scheduled |-> None]
NoCall == [phase |-> "idle", via |-> "none", m |-> None, plan |-> None,
           i |-> None, kind |-> "cancelled", saw |-> NoMandates,
           read |-> "NONE"]

\* m: the mandate, i: the invite, plan: the target, saw: what the row said of
\* mandates, read: the row's status as a reconciliation read it.
Calls == [phase : Phases, via : Vias, m : Maybe(Mandates), plan : Maybe(Plans),
          i : Maybe(Invites), kind : AllKinds, saw : MandateColumns,
          read : RowStatuses]

SubMandates == [current |-> sub.current, pending |-> sub.pending,
                scheduled |-> sub.scheduled]

Idle(p) == call[p].phase = "idle"
In(p, phase) == call[p].phase = phase
Request == requests < MaxRequests /\ requests' = requests + 1
Begin(p, c) == Idle(p) /\ call' = [call EXCEPT ![p] = c]
Goto(p, phase) == call' = [call EXCEPT ![p].phase = phase]
Return(p) == call' = [call EXCEPT ![p] = NoCall]

Authorised(m) == mandate[m].state \in {"authorised", "ending", "dead"}

\* Razorpay announces what became of a mandate; the event may never arrive.
Announce(kind, m) ==
  \/ UNCHANGED sent
  \/ /\ kind \in Kinds /\ Cardinality(sent) < MaxEvents
     /\ sent' = sent \cup {<<kind, m>>}

\* createPlanAndSubscription. What it was created for is Razorpay's to know:
\* no later step of the platform asks.
Create(m, use, state) ==
  /\ mandate[m].state = "none"
  /\ mandate' = [mandate EXCEPT ![m].state = state, ![m].use = use]

\* cancelSubscriptionNow and cancelAtCycleEnd: Razorpay refuses a mandate that
\* has ended, and the client turns its answer into an error.
CancelNow(m) ==
  /\ mandate[m].state # "dead"
  /\ mandate' = [mandate EXCEPT ![m].state = "dead"]
  /\ Announce("cancelled", m)

Refused(p, m) ==
  /\ mandate[m].state = "dead"
  /\ Return(p)
  /\ UNCHANGED world

-----------------------------------------------------------------------------
\* Activation: by invite, or by hand.

\* One transaction, decided on nothing it read. A re-invite changes the plan of
\* a running subscription at once and leaves its mandate.
CreateInvite(i, plan) ==
  /\ Request
  /\ invite[i].state = "none"
  /\ invite' = [invite EXCEPT ![i] = [state |-> "open", plan |-> plan,
                                      m |-> None]]
  /\ sub' = [sub EXCEPT !.status = "PENDING_PAYMENT", !.plan = plan]
  /\ UNCHANGED <<tenant, processed, comped, world, call, faults>>

\* The read of the invite and Razorpay's answer: nobody can see between them.
GetInviteDetails(p, i, m) ==
  /\ invite[i].state = "open" /\ invite[i].m = None
  /\ Create(m, "invite", "created")
  /\ Begin(p, [NoCall EXCEPT !.phase = "saveInvite", !.via = "invite",
                             !.m = m, !.i = i])
  /\ UNCHANGED <<tables, sent, bounds>>

UpdateInviteRazorpaySubscription(p) ==
  /\ In(p, "saveInvite")
  /\ invite' = [invite EXCEPT ![call[p].i].m = call[p].m]
  /\ mandate' = [mandate EXCEPT ![call[p].m].state = "shown"]
  /\ Return(p)
  /\ UNCHANGED <<sub, tenant, processed, comped, sent, bounds>>

\* Bug: the payment's signature is not verified.
StartVerifyAndActivateUnsigned(p, i) ==
  /\ invite[i].state = "open" /\ invite[i].m # None
  /\ Request /\ Begin(p, [NoCall EXCEPT !.phase = "activate", !.via = "activate",
                             !.m = invite[i].m, !.i = i])
  /\ UNCHANGED <<tables, world, faults>>

\* The signature is valid when the owner authorised the mandate.
StartVerifyAndActivate(p, i) ==
  /\ invite[i].state = "open" /\ invite[i].m # None
  /\ Authorised(invite[i].m)
  /\ Request /\ Begin(p, [NoCall EXCEPT !.phase = "activate", !.via = "activate",
                             !.m = invite[i].m, !.i = i])
  /\ UNCHANGED <<tables, world, faults>>

ActivateFromInvite(p) ==
  /\ In(p, "activate")
  /\ sub' = [sub EXCEPT !.status = "ACTIVE", !.current = call[p].m]
  /\ tenant' = "ACTIVE"
  /\ invite' = [invite EXCEPT ![call[p].i].state = "used"]
  /\ Goto(p, "reset")
  /\ UNCHANGED <<processed, comped, world, bounds>>

StartManualActivate(p) ==
  /\ sub.status \in {"NONE", "PENDING_PAYMENT"}
  /\ Request /\ Begin(p, [NoCall EXCEPT !.phase = "manual", !.via = "manual"])
  /\ UNCHANGED <<tables, world, faults>>

\* One step: it writes the tenant first and so locks its row, and every handler
\* that ends or activates the subscription needs that row too.
ManualActivate(p) ==
  /\ In(p, "manual")
  /\ tenant' = "ACTIVE"
  /\ sub' = IF sub.status = "PENDING_PAYMENT"
              THEN [sub EXCEPT !.status = "ACTIVE"] ELSE sub
  /\ comped' = TRUE
  /\ Goto(p, "reset")
  /\ UNCHANGED <<invite, processed, world, bounds>>

\* TenantLimitsService.resetForPlanChange: what it resets is in UsageLimits.
ResetForPlanChange(p) ==
  /\ In(p, "reset")
  /\ IF call[p].via = "webhook" THEN Goto(p, "processed") ELSE Return(p)
  /\ UNCHANGED <<tables, world, bounds>>

-----------------------------------------------------------------------------
\* Switching and cancelling.

StartSwitchPlan(p, plan) ==
  /\ sub.status = "ACTIVE" /\ sub.current # None
  /\ ~sub.cancelAtEnd
  /\ plan # sub.plan
  /\ Begin(p, [NoCall EXCEPT
                 !.phase = IF sub.pending = None THEN "create" ELSE "void",
                 !.via = "switch", !.saw = SubMandates])
  /\ UNCHANGED <<tables, world, bounds>>

\* voidPendingReplacement.
Void(p) ==
  /\ In(p, "void")
  /\ \/ CancelNow(call[p].saw.pending) /\ Goto(p, "unwind")
     \/ Refused(p, call[p].saw.pending)
  /\ UNCHANGED <<tables, bounds>>

UnwindPendingPlanChange(p) ==
  /\ In(p, "unwind")
  /\ sub' = [sub EXCEPT !.scheduled = None, !.pending = None]
  /\ Goto(p, IF call[p].via = "switch" THEN "create" ELSE "end")
  /\ UNCHANGED <<tenant, invite, processed, comped, world, bounds>>

CreateReplacement(p, m) ==
  /\ In(p, "create")
  /\ Create(m, "switch", "shown")
  /\ Return(p)
  /\ UNCHANGED <<tables, sent, bounds>>

\* The plan and the mandate are two fields of the request, and the signature
\* covers only the mandate and its payment: any mandate the owner authorised is
\* taken for any plan. Neither the row's status nor an earlier submit is looked at.
StartSwitchPlanVerify(p, m, plan) ==
  /\ sub.current # None
  /\ Authorised(m)
  /\ Request /\ Begin(p, [NoCall EXCEPT
                 !.phase = IF plan > sub.plan THEN "cancelOld" ELSE "end",
                 !.via = "verify", !.m = m, !.plan = plan,
                 !.saw = SubMandates])
  /\ mandate' = [mandate EXCEPT ![m].asked = @ \cup {plan}]
  /\ UNCHANGED <<tables, sent, faults>>

CancelOldMandate(p) ==
  /\ In(p, "cancelOld")
  /\ \/ CancelNow(call[p].saw.current) /\ Goto(p, "apply")
     \/ Refused(p, call[p].saw.current)
  /\ UNCHANGED <<tables, bounds>>

ApplyImmediatePlanChange(p) ==
  /\ In(p, "apply")
  /\ sub' = [sub EXCEPT !.plan = call[p].plan, !.current = call[p].m,
                        !.pending = None, !.scheduled = None]
  /\ Goto(p, "reset")
  /\ UNCHANGED <<tenant, invite, processed, comped, world, bounds>>

CancelAtCycleEnd(p) ==
  /\ In(p, "end")
  /\ \/ /\ mandate[call[p].saw.current].state # "dead"
        /\ mandate' = [mandate EXCEPT ![call[p].saw.current].state = "ending"]
        /\ Goto(p, IF call[p].via = "verify" THEN "schedule" ELSE "setCancel")
        /\ UNCHANGED sent
     \/ Refused(p, call[p].saw.current)
  /\ UNCHANGED <<tables, bounds>>

\* Bug: the arguments are swapped.
ScheduleDowngradeSwapped(p) ==
  /\ In(p, "schedule")
  /\ sub' = [sub EXCEPT !.scheduled = call[p].m, !.pending = call[p].plan]
  /\ Return(p)
  /\ UNCHANGED <<tenant, invite, processed, comped, world, bounds>>

ScheduleDowngrade(p) ==
  /\ In(p, "schedule")
  /\ sub' = [sub EXCEPT !.scheduled = call[p].plan, !.pending = call[p].m]
  /\ Return(p)
  /\ UNCHANGED <<tenant, invite, processed, comped, world, bounds>>

StartCancellation(p) ==
  /\ sub.current # None
  /\ ~sub.cancelAtEnd
  /\ Request /\ Begin(p, [NoCall EXCEPT
                 !.phase = IF sub.pending = None THEN "end" ELSE "void",
                 !.via = "cancel", !.saw = SubMandates])
  /\ UNCHANGED <<tables, world, faults>>

SetCancelAtPeriodEnd(p) ==
  /\ In(p, "setCancel")
  /\ sub' = [sub EXCEPT !.cancelAtEnd = TRUE]
  /\ Return(p)
  /\ UNCHANGED <<tenant, invite, processed, comped, world, bounds>>

-----------------------------------------------------------------------------
\* Webhooks. The record is found or created in the step that receives the
\* event: of two deliveries at once the later adopts the earlier's record. A
\* record that is PENDING or FAILED is treated as one that does not exist.

ReceiveWebhook(p, e) ==
  /\ e \in sent \ processed
  /\ Begin(p, [NoCall EXCEPT !.phase = "lookup", !.via = "webhook",
                             !.kind = e[1], !.m = e[2]])
  /\ UNCHANGED <<tables, world, bounds>>

Delivered(p) == <<call[p].kind, call[p].m>>

Handling(kind) == CASE kind = "activated" -> "reconcile"
                    [] kind = "halted" -> "halt"
                    [] kind = "completed" -> "complete"
                    [] kind = "cancelled" -> "cancelled"

\* findSubscriptionByRazorpayId: the current mandate or the pending one. The
\* writes below are keyed by the tenant and look at neither.
LookupSubscription(p) ==
  /\ In(p, "lookup")
  /\ Goto(p, IF call[p].m \in {sub.current, sub.pending}
               THEN Handling(call[p].kind) ELSE "processed")
  /\ UNCHANGED <<tables, world, bounds>>

\* Bug: the row's status is not looked at.
ReadRowAlways(p) ==
  /\ In(p, "reconcile")
  /\ call' = [call EXCEPT ![p].phase = "reconcileWrite", ![p].read = sub.status]
  /\ UNCHANGED <<tables, world, bounds>>

\* reconcileActivated reads the row and then writes it with no condition, in a
\* transaction at READ COMMITTED: others commit between the two. Once it has
\* written the row it holds its lock, so that the tenant is written with it.
ReadRow(p) ==
  /\ In(p, "reconcile")
  /\ IF sub.status = "PENDING_PAYMENT"
       THEN call' = [call EXCEPT ![p].phase = "reconcileWrite",
                                 ![p].read = sub.status]
       ELSE Goto(p, "processed")
  /\ UNCHANGED <<tables, world, bounds>>

ReconcileActivated(p) ==
  /\ In(p, "reconcileWrite")
  /\ sub' = [sub EXCEPT !.status = "ACTIVE"]
  /\ tenant' = "ACTIVE"
  /\ Goto(p, "processed")
  /\ UNCHANGED <<invite, processed, comped, world, bounds>>

\* Bug: the tenant is left running.
HaltSubscriptionOnly(p) ==
  /\ In(p, "halt")
  /\ sub' = [sub EXCEPT !.status = "PAST_DUE"]
  /\ Goto(p, "processed")
  /\ UNCHANGED <<tenant, invite, processed, comped, world, bounds>>

HaltSubscriptionAndSuspendTenant(p) ==
  /\ In(p, "halt")
  /\ sub' = [sub EXCEPT !.status = "PAST_DUE"]
  /\ tenant' = "SUSPENDED"
  /\ Goto(p, "processed")
  /\ UNCHANGED <<invite, processed, comped, world, bounds>>

\* markCompleted, and the transaction at the end of markCancelled.
Deactivate(p) ==
  /\ In(p, "complete") \/ In(p, "deactivate")
  /\ sub' = [sub EXCEPT !.status = "CANCELLED", !.cancelAtEnd = FALSE]
  /\ tenant' = "INACTIVE"
  /\ Goto(p, "processed")
  /\ UNCHANGED <<invite, processed, comped, world, bounds>>

\* markCancelled reads the row again: with a replacement pending, this is
\* taken to be the end of the mandate it replaces.
MarkCancelled(p) ==
  /\ In(p, "cancelled")
  /\ IF sub.pending # None /\ sub.scheduled # None
       THEN call' = [call EXCEPT ![p].phase = "handoff", ![p].saw = SubMandates]
       ELSE Goto(p, "deactivate")
  /\ UNCHANGED <<tables, world, bounds>>

\* Bug: the plan stays behind.
FinalizeMandateOnly(p) ==
  /\ In(p, "handoff")
  /\ sub' = [sub EXCEPT !.current = call[p].saw.pending,
                        !.pending = None, !.scheduled = None]
  /\ Goto(p, "reset")
  /\ UNCHANGED <<tenant, invite, processed, comped, world, bounds>>

FinalizeScheduledPlanChange(p) ==
  /\ In(p, "handoff")
  /\ sub' = [sub EXCEPT !.plan = call[p].saw.scheduled,
                        !.current = call[p].saw.pending,
                        !.pending = None, !.scheduled = None]
  /\ Goto(p, "reset")
  /\ UNCHANGED <<tenant, invite, processed, comped, world, bounds>>

MarkWebhookProcessed(p) ==
  /\ In(p, "processed")
  /\ processed' = processed \cup {Delivered(p)}
  /\ Return(p)
  /\ UNCHANGED <<sub, tenant, invite, comped, world, bounds>>

-----------------------------------------------------------------------------
\* Faults, and the world outside.

\* Only handleWebhook catches what it throws.
Throw(p) ==
  /\ ~Idle(p) /\ faults < MaxFaults
  /\ faults' = faults + 1
  /\ processed' = IF call[p].via = "webhook"
                    THEN processed \ {Delivered(p)} ELSE processed
  /\ Return(p)
  /\ UNCHANGED <<sub, tenant, invite, comped, world, requests>>

Die(p) ==
  /\ ~Idle(p) /\ faults < MaxFaults
  /\ faults' = faults + 1
  /\ Return(p)
  /\ UNCHANGED <<tables, world, requests>>

\* What becomes of a mandate at Razorpay. A failed charge leaves it alive.
Becomes(m, from, to, kind) ==
  /\ mandate[m].state \in from
  /\ mandate' = [mandate EXCEPT ![m].state = to]
  /\ Announce(kind, m)
  /\ UNCHANGED <<tables, call, bounds>>

Authorise(m) == Becomes(m, {"shown"}, "authorised", "activated")
CycleEnds(m) == Becomes(m, {"ending"}, "dead", "cancelled")
Completes(m) == Becomes(m, {"authorised"}, "dead", "completed")
ChargesFail(m) == \E state \in {"authorised", "ending"} :
                    Becomes(m, {state}, state, "halted")

-----------------------------------------------------------------------------
\* PlatformRepository.createTenantWithOwner: no plan yet, open for business.
Init ==
  /\ sub = NoRow
  /\ tenant = "ACTIVE"
  /\ invite = [i \in Invites |-> [state |-> "none", plan |-> None, m |-> None]]
  /\ mandate = [m \in Mandates |-> [state |-> "none", use |-> "invite",
                                    asked |-> {}]]
  /\ sent = {}
  /\ processed = {}
  /\ comped = FALSE
  /\ call = [p \in Procs |-> NoCall]
  /\ requests = 0 /\ faults = 0

Start(p) ==
  \/ \E i \in Invites : \/ \E m \in Mandates : GetInviteDetails(p, i, m)
                        \/ StartVerifyAndActivate(p, i)
  \/ "manual" \in Handlers /\ StartManualActivate(p)
  \/ "switch" \in Handlers /\ \E plan \in Plans : StartSwitchPlan(p, plan)
  \/ \E m \in Mandates, plan \in Plans : StartSwitchPlanVerify(p, m, plan)
  \/ "cancel" \in Handlers /\ StartCancellation(p)
  \/ \E e \in Events : ReceiveWebhook(p, e)

Continue(p) ==
  \/ UpdateInviteRazorpaySubscription(p) \/ ActivateFromInvite(p)
  \/ ManualActivate(p) \/ ResetForPlanChange(p)
  \/ Void(p) \/ UnwindPendingPlanChange(p)
  \/ \E m \in Mandates : CreateReplacement(p, m)
  \/ CancelOldMandate(p) \/ ApplyImmediatePlanChange(p)
  \/ CancelAtCycleEnd(p) \/ ScheduleDowngrade(p) \/ SetCancelAtPeriodEnd(p)
  \/ LookupSubscription(p) \/ ReadRow(p) \/ ReconcileActivated(p)
  \/ HaltSubscriptionAndSuspendTenant(p) \/ Deactivate(p)
  \/ MarkCancelled(p) \/ FinalizeScheduledPlanChange(p)
  \/ MarkWebhookProcessed(p)

Razorpay(m) == Authorise(m) \/ ChargesFail(m) \/ CycleEnds(m) \/ Completes(m)

Next ==
  \/ \E i \in Invites, plan \in Plans : CreateInvite(i, plan)
  \/ \E p \in Procs : Start(p) \/ Continue(p) \/ Throw(p) \/ Die(p)
  \/ \E m \in Mandates : Razorpay(m)

Spec == Init /\ [][Next]_vars

-----------------------------------------------------------------------------
\* Properties.

\* Every variable has its type.
TypeOK ==
  /\ sub \in Rows
  /\ tenant \in TenantStatuses
  /\ invite \in [Invites -> [state : InviteStates, plan : Maybe(Plans),
                             m : Maybe(Mandates)]]
  /\ mandate \in [Mandates -> [state : MandateStates, use : Uses,
                               asked : SUBSET Plans]]
  /\ sent \subseteq Events
  /\ processed \subseteq Events
  /\ comped \in BOOLEAN
  /\ call \in [Procs -> Calls]
  /\ requests \in Nat /\ faults \in Nat

\* The platform and the shop agree: a paid-up plan means an open shop, a
\* failed or ended plan a closed one, whatever handlers, late events and
\* faults overlap. manualActivate's unconditional write of the tenant is the
\* exception: its check can be stale.
StatusesAgree ==
  /\ sub.status = "ACTIVE" => tenant = "ACTIVE"
  /\ sub.status = "PAST_DUE" => comped \/ tenant = "SUSPENDED"
  /\ sub.status = "CANCELLED" => comped \/ tenant = "INACTIVE"

\* Nobody's plan is active, and no mandate takes over, without an owner who
\* authorised that mandate: not by a webhook for the pending mandate, not by a
\* handoff, not by an invite whose page was opened twice.
ActiveIsAuthorised ==
  /\ sub.status = "ACTIVE" /\ ~comped => sub.current # None
  /\ sub.current # None => Authorised(sub.current)
  /\ sub.pending # None => Authorised(sub.pending)

\* The tenant got a second invite.
Reinvited == \E i, j \in Invites : /\ i # j
                                   /\ invite[i].state # "none"
                                   /\ invite[j].state # "none"

\* A switch takes effect as a whole: a tenant invited once, whose mandate was
\* made for a switch, has a plan that was submitted together with that mandate,
\* however upgrades, downgrades, voids and handoffs overlap or stop half-way.
\* Never the plan of one submit and the mandate of another. A re-invite is left
\* out: it replaces the plan alone.
SwitchesAreWhole ==
  /\ sub.current # None
  /\ mandate[sub.current].use = "switch"
  => Reinvited \/ sub.plan \in mandate[sub.current].asked

\* reconcileActivated's comment: "a stray/late webhook can never resurrect a
\* subscription that moved on for a real reason since". So far it holds: what
\* failed or ended is ACTIVE again because its owner paid an invite. Only for a
\* tenant invited again can an event do it, one whose transaction read
\* PENDING_PAYMENT before the end and missed it; never one taken up later.
LateEventsResurrectNothing ==
  [][sub.status \in {"PAST_DUE", "CANCELLED"} /\ sub'.status = "ACTIVE" =>
       \E p \in Procs :
         \/ In(p, "activate") /\ Authorised(call[p].m)
         \/ /\ In(p, "reconcileWrite") /\ call[p].read = "PENDING_PAYMENT"
            /\ Reinvited]_vars
=============================================================================
