-------------------------- MODULE MCOrderPlacement --------------------------
(* Small instances of OrderPlacement for TLC. *)
EXTENDS OrderPlacement, TLC

\* Slots and orders are interchangeable.
Symmetry == Permutations(Procs) \cup Permutations(Orders)

\* A later start, so that the bound on requests is spent on what follows: an
\* online order is paid for and may be refunded; the faults are spent.
PaidOnce ==
  \E o \in Orders :
    /\ order = [x \in Orders |->
         IF x = o THEN [NoOrder EXCEPT !.status = "CONFIRMED", !.kind = "online",
                                       !.plates = MaxPlates, !.paid = TRUE,
                                       !.held = TRUE, !.today = TRUE]
                  ELSE NoOrder]
    /\ table = [t \in Tables |-> "active"]
    /\ entry = [e \in Parties |-> [status |-> "WAITING", order |-> None]]
    /\ night = FALSE /\ reopened = 0
    /\ call = [p \in Procs |-> NoCall]
    /\ requests = MaxRequests - 3 /\ faults = MaxFaults

\* Both days: from nothing, and from a state a few steps of Next lead to.
MCSpec == (Init \/ PaidOnce) /\ [][Next]_vars
=============================================================================
