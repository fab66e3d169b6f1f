--------------------------- MODULE EventDelivery ---------------------------
(***************************************************************************)
(* What the transactional outbox promises about domain events (ADR-001,    *)
(* ADR-004), with no relay, batch, lock, retry or crash in sight:          *)
(*                                                                         *)
(*   - an accepted event stays accepted;                                   *)
(*   - an event is settled only after the broker has a copy of it          *)
(*     (at-least-once: further copies may follow);                         *)
(*   - an event that cannot be delivered is parked, where it stays until   *)
(*     an operator puts it back among the waiting ones.                    *)
(*                                                                         *)
(* OutboxRelay implements this specification.                              *)
(***************************************************************************)
CONSTANT Events

VARIABLES stage,   \* where every event stands
          copies   \* the events the broker has at least one copy of

evars == <<stage, copies>>

Stages == {"unknown", "waiting", "settled", "parked"}

Init == /\ stage = [e \in Events |-> "unknown"]
        /\ copies = {}

(* A business transaction that emits e commits. *)
Accept(e) == /\ stage[e] = "unknown"
             /\ stage' = [stage EXCEPT ![e] = "waiting"]
             /\ UNCHANGED copies

(* The broker takes a copy; only a waiting event is ever sent. *)
Send(e) == /\ stage[e] = "waiting"
           /\ copies' = copies \cup {e}
           /\ UNCHANGED stage

(* One relay transaction settles the events S and parks the events P. *)
Resolve(S, P) ==
  /\ \A e \in S \cup P : stage[e] = "waiting"
  /\ S \subseteq copies
  /\ stage' = [e \in Events |-> CASE e \in P -> "parked"
                                  [] e \in S \ P -> "settled"
                                  [] OTHER -> stage[e]]
  /\ UNCHANGED copies

(* An operator returns the parked events P to the queue. *)
Requeue(P) ==
  /\ \A e \in P : stage[e] = "parked"
  /\ stage' = [e \in Events |-> IF e \in P THEN "waiting" ELSE stage[e]]
  /\ UNCHANGED copies

Next == \/ \E e \in Events : Accept(e) \/ Send(e)
        \/ \E S, P \in SUBSET Events : Resolve(S, P)
        \/ \E P \in SUBSET Events : Requeue(P)

Spec == Init /\ [][Next]_evars
=============================================================================
