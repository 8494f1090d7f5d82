----------------------- MODULE MCSubscriptionPayment -----------------------
(* Small instances of SubscriptionPayment for TLC. *)
EXTENDS SubscriptionPayment
=============================================================================
