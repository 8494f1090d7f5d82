----------------------- MODULE PlatformBillingClaims -----------------------
(***************************************************************************)
(* What a comment says of a tenant's platform subscription and the code,   *)
(* as PlatformBilling models it, does not keep.                            *)
(***************************************************************************)
EXTENDS PlatformBilling

\* platform-billing.repository.ts:299-300, of the cancelled event with nothing
\* pending: "a real cancellation (SUPER_ADMIN's `scheduleCancellation` reaching
\* its cycle-end)". Refuted by an upgrade, which ends the old mandate itself:
\* its event, handled before the new mandate is saved, shuts the paying tenant.
CancelledOnlyAsScheduled ==
  [][sub.status = "ACTIVE" /\ sub'.status = "CANCELLED" =>
       sub.cancelAtEnd]_vars
=============================================================================
