------------------------- MODULE MCSubscriptionDays -------------------------
(* Small instances of SubscriptionDays for TLC. *)
EXTENDS SubscriptionDays, TLC

\* The slots are interchangeable.
Slots == Permutations(Procs)
=============================================================================
