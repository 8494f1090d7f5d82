----------------------- MODULE SubscriptionDaysClaims -----------------------
(***************************************************************************)
(* What a comment says of a plan's days and the code, as SubscriptionDays  *)
(* models it, does not keep.                                               *)
(***************************************************************************)
EXTENDS SubscriptionDays

\* subscription-materialization.service.ts:192-193: "a closed day is already
\* compensated on its own and must not be banked twice". Refuted by a skip
\* whose banking steps over a closed day: the materializer compensates it
\* again on arrival, and more deliveries go out than were sold.
ClosedDaysAreBankedOnce == Cardinality(DeliveredDays) <= Duration
=============================================================================
