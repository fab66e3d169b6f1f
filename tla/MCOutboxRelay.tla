--------------------------- MODULE MCOutboxRelay ---------------------------
(* Small instances of OutboxRelay for TLC. *)
EXTENDS OutboxRelay

(* A ledger event and a subscription event of an organization; the middle  *)
(* row is a reconciliation event, whose partition key is the run's UUID.   *)
MCEventTypeOf == [r \in Rows |-> CASE r = 1 -> "ledger"
                                   [] r = 2 -> "reconciliation"
                                   [] OTHER -> "subscription"]
MCPartitionKeyOf == [r \in Rows |-> IF r = 2 THEN "run-uuid" ELSE "1"]
=============================================================================
