---------------------- MODULE MCPaymentReconciliation ----------------------
(* Small instances of PaymentReconciliation for TLC. *)
EXTENDS PaymentReconciliation
=============================================================================
