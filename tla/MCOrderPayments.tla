-------------------------- MODULE MCOrderPayments --------------------------
(* Small instances of OrderPayments for TLC. *)
EXTENDS OrderPayments, TLC

\* The slots are interchangeable (safety runs only).
Slots == Permutations(Procs)
=============================================================================
