-------------------- MODULE MCSubscriptionPaymentClaims --------------------
(* Small instances of SubscriptionPaymentClaims for TLC. *)
EXTENDS SubscriptionPaymentClaims
=============================================================================
