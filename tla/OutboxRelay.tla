---------------------------- MODULE OutboxRelay ----------------------------
(***************************************************************************)
(* The transactional outbox and its relay: OutboxService.enqueue, the      *)
(* poll_and_publish loop run by several replicas, the outbox_dead_letters  *)
(* table and the operator's DLQ replay.                                    *)
(*                                                                         *)
(* PostgreSQL runs at READ COMMITTED.  outbox and dlq hold what is         *)
(* committed; a relay's uncommitted changes are in batch (the rows its     *)
(* transaction has locked) and outcome (what it has decided about them).   *)
(* Kafka is not transactional: a copy sent by a transaction that rolls     *)
(* back stays delivered.                                                   *)
(*                                                                         *)
(* Rows is ordered by created_at.  A row stands for its idempotency key    *)
(* and its id, so a second INSERT of it meets ON CONFLICT DO NOTHING.      *)
(***************************************************************************)
EXTENDS Integers, Sequences, FiniteSets

CONSTANTS
  NRows,          \* number of outbox rows the producers may insert
  Relays,         \* relay replicas
  Operators,      \* operators running the DLQ replay command
  EventTypeOf,    \* event type (its family) of every row
  PartitionKeyOf, \* partition key of every row
  Organizations,  \* partition keys that are ids of existing organizations
  KafkaOutcomes,  \* what may become of one send_and_wait
  MaxAttempts,    \* settings.outbox_max_attempts
  BatchSize,      \* settings.outbox_batch_size
  MaxReplays,     \* bound: how often one row is replayed
  MaxCrashes      \* bound: how often a relay or operator transaction aborts

Rows == 1..NRows

EventTypes == {"subscription", "subscription.access", "invoice", "ledger",
               "reconciliation", "entitlement", "dunning", "usage"}

Topics == {"billing.subscription.events", "billing.invoice.events",
           "billing.ledger.events", "billing.reconciliation.events",
           "billing.entitlement.events", "billing.dlq"}

ASSUME NRowsAssumption == NRows \in Nat
ASSUME EventTypeAssumption == EventTypeOf \in [Rows -> EventTypes]
ASSUME KafkaAssumption == KafkaOutcomes \subseteq {"ack", "lost", "late"}
ASSUME MaxAttemptsAssumption == MaxAttempts \in Nat \ {0}
ASSUME BatchSizeAssumption == BatchSize \in Nat \ {0}
ASSUME BoundsAssumption == MaxReplays \in Nat /\ MaxCrashes \in Nat

VARIABLES
  outbox,    \* row -> state (published_at) and publish_attempts
  dlq,       \* row -> its dead letters, oldest first, "open" or "replayed"
  batch,     \* relay -> rows locked by its open transaction
  outcome,   \* relay -> row -> uncommitted outcome of this poll
  replaying, \* operator -> dead letters locked by its open transaction
  delivered, \* messages Kafka has stored
  crashes    \* transactions aborted so far (bounds the model)

vars == <<outbox, dlq, batch, outcome, replaying, delivered, crashes>>

-----------------------------------------------------------------------------

DLQ_TOPIC == "billing.dlq"

(* The later branch for subscription.access_* is never reached: the first  *)
(* prefix test already matches it.                                         *)
ResolveTopic(t) ==
  CASE t \in {"subscription", "subscription.access"} -> "billing.subscription.events"
    [] t = "invoice"        -> "billing.invoice.events"
    [] t = "ledger"         -> "billing.ledger.events"
    [] t = "reconciliation" -> "billing.reconciliation.events"
    [] t = "entitlement"    -> "billing.entitlement.events"
    [] OTHER                -> DLQ_TOPIC

(* The envelope's event_id and the Kafka key are functions of the row id,  *)
(* so a message is known by its topic and its row.                         *)
Envelope(topic, r) == <<topic, r>>

OwnMessage(r) == Envelope(ResolveTopic(EventTypeOf[r]), r)

(* _load_org_public_ids: only a partition key that is an organization's id *)
(* is resolved.                                                            *)
OrgFound(r) == PartitionKeyOf[r] \in Organizations

(* send_and_wait with acks=all: acknowledged, failed without a trace, or   *)
(* stored although the producer raised (a timeout before the answer).      *)
PublishEnvelope(m, o) ==
  IF o \in {"ack", "late"} THEN delivered \cup {m} ELSE delivered

-----------------------------------------------------------------------------

Absent == [state |-> "absent", attempts |-> 0]

Init ==
  /\ outbox = [r \in Rows |-> Absent]
  /\ dlq = [r \in Rows |-> << >>]
  /\ batch = [w \in Relays |-> {}]
  /\ outcome = [w \in Relays |-> [r \in Rows |-> "none"]]
  /\ replaying = [o \in Operators |-> {}]
  /\ delivered = {}
  /\ crashes = 0

(* Mutant: the conflict is resolved by an update that resets the row. *)
MutantEnqueueUpsert(r) ==
  /\ outbox' = [outbox EXCEPT ![r] = [state |-> "pending", attempts |-> 0]]
  /\ UNCHANGED <<dlq, batch, outcome, replaying, delivered, crashes>>

(* OutboxService.enqueue, at the commit of the business transaction that   *)
(* called it: INSERT ... ON CONFLICT (idempotency_key) DO NOTHING.  The    *)
(* created_at order is not the commit order: any row may come next.        *)
Enqueue(r) ==
  /\ outbox' = IF outbox[r].state = "absent"
               THEN [outbox EXCEPT ![r] = [state |-> "pending", attempts |-> 0]]
               ELSE outbox
  /\ UNCHANGED <<dlq, batch, outcome, replaying, delivered, crashes>>

(* Mutant: rows are claimed without FOR UPDATE SKIP LOCKED. *)
MutantNoRowLock(r) == FALSE

Locked(r) == \E w \in Relays : r \in batch[w]

Claimable ==
  {r \in Rows : /\ outbox[r].state = "pending"
                /\ outbox[r].attempts < MaxAttempts
                /\ ~Locked(r)}

(* ORDER BY created_at LIMIT n over a set of rows. *)
Oldest(S, n) == {r \in S : Cardinality({q \in S : q < r}) < n}

(* claim_outbox_batch: SELECT ... FOR UPDATE SKIP LOCKED.  With nothing to *)
(* claim the poll returns 0 and changes nothing.                           *)
Claim(w) ==
  /\ batch[w] = {}
  /\ Claimable # {}
  /\ batch' = [batch EXCEPT ![w] = Oldest(Claimable, BatchSize)]
  /\ UNCHANGED <<outbox, dlq, outcome, replaying, delivered, crashes>>

(* The row the loop over the claimed batch has come to. *)
IsNext(w, r) ==
  /\ r \in batch[w]
  /\ outcome[w][r] = "none"
  /\ \A q \in batch[w] : q < r => outcome[w][q] # "none"

(* publish_attempts += 1, and the decision to dead-letter. *)
AfterFailure(r) ==
  IF outbox[r].attempts + 1 >= MaxAttempts THEN "dead" ELSE "retry"

(* The envelope sent to billing.dlq after a row was dead-lettered is best  *)
(* effort: its failure is suppressed.                                      *)
BestEffortDlqPublish(r, sent, o) ==
  IF AfterFailure(r) = "dead" /\ o \in {"ack", "late"}
  THEN sent \cup {Envelope(DLQ_TOPIC, r)} ELSE sent

(* No organization for the partition key: counts as a failed attempt, and  *)
(* nothing is sent to the row's own topic.                                 *)
OrgMissing(w, r, o) ==
  /\ IsNext(w, r)
  /\ ~OrgFound(r)
  /\ outcome' = [outcome EXCEPT ![w][r] = AfterFailure(r)]
  /\ delivered' = BestEffortDlqPublish(r, delivered, o)
  /\ UNCHANGED <<outbox, dlq, batch, replaying, crashes>>

(* send_and_wait returned: published_at is set. *)
PublishOk(w, r) ==
  /\ IsNext(w, r)
  /\ OrgFound(r)
  /\ "ack" \in KafkaOutcomes
  /\ delivered' = PublishEnvelope(OwnMessage(r), "ack")
  /\ outcome' = [outcome EXCEPT ![w][r] = "published"]
  /\ UNCHANGED <<outbox, dlq, batch, replaying, crashes>>

(* send_and_wait raised, with or without Kafka having stored the message. *)
PublishFailed(w, r, o, o2) ==
  /\ IsNext(w, r)
  /\ OrgFound(r)
  /\ o # "ack"
  /\ delivered' = BestEffortDlqPublish(r, PublishEnvelope(OwnMessage(r), o), o2)
  /\ outcome' = [outcome EXCEPT ![w][r] = AfterFailure(r)]
  /\ UNCHANGED <<outbox, dlq, batch, replaying, crashes>>

(* Mutant: publish_attempts is not incremented after a failure. *)
MutantFlushedNoCount(row, o) ==
  CASE o = "published" -> [row EXCEPT !.state = "published"]
    [] o = "dead"      -> [state |-> "published", attempts |-> row.attempts + 1]
    [] OTHER           -> row

(* The UPDATE of a processed row; _move_to_dead_letter marks it published. *)
Flushed(row, o) ==
  CASE o = "published" -> [row EXCEPT !.state = "published"]
    [] o = "dead"      -> [state |-> "published", attempts |-> row.attempts + 1]
    [] o = "retry"     -> [row EXCEPT !.attempts = @ + 1]
    [] OTHER           -> row

(* Mutant: the poisoned row is marked published, no dead letter is kept. *)
MutantNoDeadLetter(w) == {}

DeadLettered(w) == {r \in batch[w] : outcome[w][r] = "dead"}

EndPoll(w) ==
  /\ batch' = [batch EXCEPT ![w] = {}]
  /\ outcome' = [outcome EXCEPT ![w] = [r \in Rows |-> "none"]]

(* session.begin() exits: row updates, new dead letters and the release of *)
(* the row locks become visible together.                                  *)
CommitPoll(w) ==
  /\ batch[w] # {}
  /\ \A r \in batch[w] : outcome[w][r] # "none"
  /\ outbox' = [r \in Rows |-> IF r \in batch[w]
                               THEN Flushed(outbox[r], outcome[w][r])
                               ELSE outbox[r]]
  /\ dlq' = [r \in Rows |-> IF r \in DeadLettered(w)
                            THEN Append(dlq[r], "open") ELSE dlq[r]]
  /\ EndPoll(w)
  /\ UNCHANGED <<replaying, delivered, crashes>>

(* The relay dies, or the database or an exception aborts its transaction: *)
(* everything but Kafka is as before the poll.                             *)
CrashPoll(w) ==
  /\ batch[w] # {}
  /\ crashes < MaxCrashes
  /\ crashes' = crashes + 1
  /\ EndPoll(w)
  /\ UNCHANGED <<outbox, dlq, replaying, delivered>>

-----------------------------------------------------------------------------

DeadLetterIds == {d \in Rows \X (1..MaxReplays) : d[2] <= Len(dlq[d[1]])}

(* replay_dead_letters, up to its SELECT ... FOR UPDATE, which waits for   *)
(* another operator's lock on any of the dead letters.                     *)
ReplayLock(p, ids) ==
  /\ replaying[p] = {}
  /\ ids # {}
  /\ \A q \in Operators : ids \cap replaying[q] = {}
  /\ replaying' = [replaying EXCEPT ![p] = ids]
  /\ UNCHANGED <<outbox, dlq, batch, outcome, delivered, crashes>>

(* Mutant: dead letters that were already replayed are replayed again. *)
MutantReplayAgain(p) == replaying[p]

(* Dead letters of the request not already replayed, and their rows. *)
ToReplay(p) == {d \in replaying[p] : dlq[d[1]][d[2]] = "open"}
RowsToReset(p) == {d[1] : d \in ToReplay(p)}

(* The rest of replay_dead_letters: the UPDATE of an outbox row waits for  *)
(* a relay's lock on it; already replayed dead letters are left alone.     *)
ReplayCommit(p) ==
  /\ replaying[p] # {}
  /\ \A r \in RowsToReset(p) : ~Locked(r)
  /\ outbox' = [r \in Rows |-> IF r \in RowsToReset(p)
                               THEN [state |-> "pending", attempts |-> 0]
                               ELSE outbox[r]]
  /\ dlq' = [r \in Rows |-> [i \in DOMAIN dlq[r] |->
                IF <<r, i>> \in replaying[p] THEN "replayed" ELSE dlq[r][i]]]
  /\ replaying' = [replaying EXCEPT ![p] = {}]
  /\ UNCHANGED <<batch, outcome, delivered, crashes>>

(* --dry-run, or the command dies before its commit. *)
ReplayRollback(p) ==
  /\ replaying[p] # {}
  /\ crashes < MaxCrashes
  /\ crashes' = crashes + 1
  /\ replaying' = [replaying EXCEPT ![p] = {}]
  /\ UNCHANGED <<outbox, dlq, batch, outcome, delivered>>

-----------------------------------------------------------------------------

Publish(w) ==
  \E r \in Rows : \/ \E o \in KafkaOutcomes : OrgMissing(w, r, o)
                  \/ PublishOk(w, r)
                  \/ \E o, o2 \in KafkaOutcomes : PublishFailed(w, r, o, o2)

RelayStep(w) == Claim(w) \/ Publish(w) \/ CommitPoll(w)

Next ==
  \/ \E r \in Rows : Enqueue(r)
  \/ \E w \in Relays : RelayStep(w) \/ CrashPoll(w)
  \/ \E p \in Operators : \/ \E ids \in SUBSET DeadLetterIds : ReplayLock(p, ids)
                          \/ ReplayCommit(p)
                          \/ ReplayRollback(p)

Spec == Init /\ [][Next]_vars

(* A relay polls every second for as long as it runs (_relay_loop), and a  *)
(* send ends: send_and_wait has a request timeout.                         *)
FairSpec == Spec /\ \A w \in Relays : WF_vars(RelayStep(w))

-----------------------------------------------------------------------------

RowStates == {"absent", "pending", "published"}
Outcomes == {"none", "published", "retry", "dead"}

TypeOK ==
  /\ outbox \in [Rows -> [state : RowStates, attempts : 0..MaxAttempts]]
  /\ dlq \in [Rows -> Seq({"open", "replayed"})]
  /\ batch \in [Relays -> SUBSET Rows]
  /\ outcome \in [Relays -> [Rows -> Outcomes]]
  /\ replaying \in [Operators -> SUBSET (Rows \X (1..MaxReplays))]
  /\ delivered \in SUBSET (Topics \X Rows)
  /\ crashes \in 0..MaxCrashes

HasOpenDeadLetter(r) == \E i \in DOMAIN dlq[r] : dlq[r][i] = "open"

(* No event is lost: a row that no relay will look at again (published_at  *)
(* set) is in Kafka on the topic resolve_topic gives it, or is an open     *)
(* dead letter, whatever crashed in between (ADR-001 at-least-once).       *)
NoEventLost ==
  \A r \in Rows : outbox[r].state = "published"
    => OwnMessage(r) \in delivered \/ HasOpenDeadLetter(r)

(* A row has at most one open dead letter, its latest, and while it is     *)
(* open the row is neither claimable nor in a relay's hands: replaying it  *)
(* cannot collide with a publish, and cannot be done twice.                *)
OpenDeadLetterParksRow ==
  \A r \in Rows : \A i \in DOMAIN dlq[r] : dlq[r][i] = "open"
    => /\ i = Len(dlq[r])
       /\ outbox[r].state = "published"
       /\ ~Locked(r)

(* A published row goes back to pending only by the replay of a dead       *)
(* letter that was open, and a replayed dead letter stays replayed.        *)
RequeueOnlyByReplay ==
  [][\A r \in Rows :
       /\ outbox[r].state = "published" /\ outbox'[r].state # "published"
          => \E i \in DOMAIN dlq[r] : dlq[r][i] = "open" /\ dlq'[r][i] = "replayed"
       /\ \A i \in DOMAIN dlq[r] : /\ i \in DOMAIN dlq'[r]
                                   /\ dlq[r][i] = "replayed" => dlq'[r][i] = "replayed"]_vars

(* Every row that waits is settled: published, or dead-lettered once the   *)
(* attempts are used up.  Older poisoned rows, crashes and the other       *)
(* replica's locks only delay it.                                          *)
EveryRowSettles ==
  \A r \in Rows : outbox[r].state = "pending" ~> outbox[r].state = "published"

-----------------------------------------------------------------------------

(* Refinement mapping: an event is settled when published with no open     *)
(* dead letter, parked while its dead letter is open.                      *)
EventStage ==
  [r \in Rows |-> CASE outbox[r].state = "absent"  -> "unknown"
                    [] outbox[r].state = "pending" -> "waiting"
                    [] OTHER -> IF HasOpenDeadLetter(r) THEN "parked" ELSE "settled"]

BrokerCopies == {r \in Rows : OwnMessage(r) \in delivered}

Delivery == INSTANCE EventDelivery
              WITH Events <- Rows, stage <- EventStage, copies <- BrokerCopies

(* The relay implements the abstract event delivery: no crash, race        *)
(* between replicas or replay takes an event from one stage to another in  *)
(* a way the abstract specification does not allow.                        *)
ImplementsDelivery == Delivery!Spec
=============================================================================
