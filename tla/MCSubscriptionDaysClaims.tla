---------------------- MODULE MCSubscriptionDaysClaims ----------------------
(* Small instances of SubscriptionDaysClaims for TLC. *)
EXTENDS SubscriptionDaysClaims
=============================================================================
