------------------------- MODULE MCPlatformBilling -------------------------
(* Small instances of PlatformBilling for TLC. *)
EXTENDS PlatformBilling, TLC

\* Slots, mandates and invites are interchangeable.
Symmetry == Permutations(Procs) \cup Permutations(Mandates)
            \cup Permutations(Invites)

\* Later starts, so that the bounds are spent on what follows: what a few steps
\* of Next lead to, with no call in flight and nothing yet sent.
OneInvite(i, row) ==
  invite = [x \in Invites |->
              IF x = i THEN row ELSE [state |-> "none", plan |-> None, m |-> None]]
OneMandate(m, state) ==
  mandate = [x \in Mandates |-> [state |-> IF x = m THEN state ELSE "none",
                                 use |-> "invite", asked |-> {}]]
AtRest == /\ tenant = "ACTIVE" /\ comped = FALSE
          /\ sent = {} /\ processed = {}
          /\ call = [p \in Procs |-> NoCall]

\* The tenant has its invite; the faults are spent.
Invited ==
  /\ \E i \in Invites, plan \in Plans :
       /\ OneInvite(i, [state |-> "open", plan |-> plan, m |-> None])
       /\ OneMandate(None, "none")
       /\ sub = [NoRow EXCEPT !.status = "PENDING_PAYMENT", !.plan = plan]
  /\ AtRest
  /\ requests = 0 /\ faults = MaxFaults

\* It paid and is served; the faults, or one request, are spent.
Served ==
  /\ \E i \in Invites, m \in Mandates, plan \in Plans :
       /\ OneInvite(i, [state |-> "used", plan |-> plan, m |-> m])
       /\ OneMandate(m, "authorised")
       /\ sub = [NoRow EXCEPT !.status = "ACTIVE", !.plan = plan, !.current = m]
  /\ AtRest
  /\ \/ requests = 0 /\ faults = MaxFaults
     \/ requests = 1 /\ faults = 0

MCSpec == (Init \/ Invited \/ Served) /\ [][Next]_vars
=============================================================================
