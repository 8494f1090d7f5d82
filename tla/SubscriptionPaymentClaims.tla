--------------------- MODULE SubscriptionPaymentClaims ---------------------
(***************************************************************************)
(* What the documentation says of a plan's payment and the code, as        *)
(* SubscriptionPayment models it, does not keep.                           *)
(***************************************************************************)
EXTENDS SubscriptionPayment

\* docs/razorpay-webhooks.md:63, of the payment-check job: "a business without
\* a webhook never ends up paid but pending". Refuted by an error between the
\* flip of the invoice and the activation of the plan: every later attempt, the
\* job's among them, finds the invoice PAID and stops there.
PaidNeverStaysPending ==
  razorpay = "captured" ~> (sub.status # "PENDING_PAYMENT" \/ aged)
=============================================================================
