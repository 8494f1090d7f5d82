---------------------------- MODULE MCUsageLimits ---------------------------
(* A small instance of UsageLimits for TLC: the first month has four of the *)
(* five orders that the plan allows.                                        *)
EXTENDS UsageLimits, TLC

PlanOf(orders, subscribers) ==
  [k \in PlanKinds |-> IF k = "order" THEN orders ELSE subscribers]

MCFirstPlan == PlanOf(5, 1)
MCPlans == {MCFirstPlan, PlanOf(None, None)}
MCOverrides == {None, 1}
MCEarlier == [k \in Kinds |-> IF k = "order" THEN 4 ELSE 0]
MCCouponUses == [total |-> 2, perUser |-> 1]

\* Slots and rows are interchangeable.
Symmetry == Permutations(Procs) \cup Permutations(Items)
=============================================================================
