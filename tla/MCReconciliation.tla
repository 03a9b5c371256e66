--------------------------- MODULE MCReconciliation ---------------------------
(* A small instance of Reconciliation for TLC. *)
EXTENDS Reconciliation
=============================================================================
