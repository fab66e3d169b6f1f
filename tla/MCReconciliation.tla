------------------------- MODULE MCReconciliation -------------------------
(* A small instance of Reconciliation for TLC: a daily task and a request. *)
EXTENDS Reconciliation

CONSTANTS daily, manual

MCRetries == [w \in Workers |-> IF w = daily THEN 1 ELSE 0]
=============================================================================
