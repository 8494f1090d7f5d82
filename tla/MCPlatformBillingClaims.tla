--------------------- MODULE MCPlatformBillingClaims ---------------------
(* The claim about cancellations, on a small instance. *)
EXTENDS PlatformBillingClaims
=============================================================================
