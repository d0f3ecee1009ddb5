--------------------------- MODULE MCReconciliation ---------------------------
(* Reconciliation with one order and a position of up to two lots. *)
EXTENDS Reconciliation, TLC

CONSTANT o1
=============================================================================
