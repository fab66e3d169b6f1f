---------------------- MODULE MCSubscriptionLifecycle ----------------------
(* Small instances of SubscriptionLifecycle for TLC. *)
EXTENDS SubscriptionLifecycle

CONSTANTS s1, paid1, paid2, failed1, failed2, other1, stray1, p1, p2

(* Payments and failures of one subscription, an event type without a      *)
(* handler, and a payment whose payload names no known subscription.       *)
MCEventType == [e \in Events |-> CASE e \in {paid1, paid2, stray1} -> "invoice.paid"
                                   [] e \in {failed1, failed2} -> "invoice.payment_failed"
                                   [] OTHER -> "other"]
MCEventSub == [e \in Events |-> IF e = stray1 THEN NoSub ELSE s1]

(* A cheaper and a dearer plan. *)
MCPlanPrice == [p \in {p1, p2} |-> IF p = p1 THEN 1 ELSE 2]
=============================================================================
