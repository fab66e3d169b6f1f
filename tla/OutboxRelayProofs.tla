------------------------- MODULE OutboxRelayProofs -------------------------
(***************************************************************************)
(* Theorems about OutboxRelay, for any number of rows, relay replicas and  *)
(* operators, any batch size and attempt limit, and a Kafka that may       *)
(* acknowledge, lose or store-and-time-out every send.                     *)
(***************************************************************************)
EXTENDS OutboxRelay, TLAPS

(* The rows a relay holds are pending, below the limit, and held by it     *)
(* alone.                                                                  *)
BatchHeld ==
  \A w \in Relays : \A r \in batch[w] :
    /\ outbox[r].state = "pending"
    /\ outbox[r].attempts < MaxAttempts
    /\ \A v \in Relays : r \in batch[v] => v = w

(* An uncommitted outcome belongs to a held row, and says what happened.   *)
OutcomeJustified ==
  \A w \in Relays : \A r \in Rows :
    /\ outcome[w][r] # "none" => r \in batch[w]
    /\ outcome[w][r] = "published" => OwnMessage(r) \in delivered
    /\ outcome[w][r] = "retry" => outbox[r].attempts + 1 < MaxAttempts

(* An operator's locked dead letters exist. *)
ReplayIdsExist ==
  \A p \in Operators : \A d \in replaying[p] : d[2] \in DOMAIN dlq[d[1]]

(* A row that waits can be claimed: none is left unpublished with its      *)
(* attempts used up, where claim_outbox_batch would pass over it for ever. *)
NoRowStranded ==
  \A r \in Rows : outbox[r].state = "pending" => outbox[r].attempts < MaxAttempts

IInv == /\ TypeOK
        /\ BatchHeld
        /\ OutcomeJustified
        /\ ReplayIdsExist
        /\ NoEventLost
        /\ OpenDeadLetterParksRow
        /\ NoRowStranded

-----------------------------------------------------------------------------

(* LIMIT only drops rows. *)
LEMMA OldestSubset == ASSUME NEW S, NEW n PROVE Oldest(S, n) \subseteq S
BY DEF Oldest

(* resolve_topic returns one of the six topics. *)
LEMMA TopicType == \A r \in Rows : ResolveTopic(EventTypeOf[r]) \in Topics
BY EventTypeAssumption DEF ResolveTopic, DLQ_TOPIC, Topics

(* What a processed row's UPDATE writes stays within the type. *)
LEMMA FlushedType ==
  ASSUME NEW row \in [state : RowStates, attempts : 0..MaxAttempts],
         NEW o \in Outcomes, row.attempts < MaxAttempts
  PROVE  Flushed(row, o) \in [state : RowStates, attempts : 0..MaxAttempts]
BY MaxAttemptsAssumption DEF Flushed, RowStates, Outcomes

(* What a send adds to Kafka is a message about the row, on one of the     *)
(* topics; nothing is taken away.                                          *)
LEMMA SendType ==
  ASSUME NEW r \in Rows, NEW o, NEW o2, delivered \in SUBSET (Topics \X Rows)
  PROVE  /\ PublishEnvelope(OwnMessage(r), o) \in SUBSET (Topics \X Rows)
         /\ delivered \subseteq PublishEnvelope(OwnMessage(r), o)
         /\ BestEffortDlqPublish(r, delivered, o2) \in SUBSET (Topics \X Rows)
         /\ delivered \subseteq BestEffortDlqPublish(r, delivered, o2)
         /\ BestEffortDlqPublish(r, PublishEnvelope(OwnMessage(r), o), o2)
              \in SUBSET (Topics \X Rows)
         /\ delivered \subseteq
              BestEffortDlqPublish(r, PublishEnvelope(OwnMessage(r), o), o2)
<1>1. OwnMessage(r) \in Topics \X Rows
  BY TopicType DEF OwnMessage, Envelope
<1>2. Envelope(DLQ_TOPIC, r) \in Topics \X Rows
  BY DEF Envelope, DLQ_TOPIC, Topics
<1> QED BY <1>1, <1>2 DEF PublishEnvelope, BestEffortDlqPublish

-----------------------------------------------------------------------------

LEMMA InitIInv == Init => IInv
BY NRowsAssumption, MaxAttemptsAssumption, BoundsAssumption
   DEF Init, IInv, TypeOK, BatchHeld, OutcomeJustified, ReplayIdsExist,
       NoEventLost, OpenDeadLetterParksRow, NoRowStranded, Absent,
       RowStates, Outcomes, HasOpenDeadLetter, Locked

LEMMA EnqueueIInv == ASSUME IInv, NEW r \in Rows, Enqueue(r) PROVE IInv'
<1> USE MaxAttemptsAssumption
<1> USE DEF IInv, Enqueue, TypeOK, RowStates
<1>1. TypeOK' OBVIOUS
<1>2. BatchHeld' BY DEF BatchHeld
<1>3. OutcomeJustified' BY DEF OutcomeJustified, BatchHeld
<1>4. ReplayIdsExist' BY DEF ReplayIdsExist
<1>5. NoEventLost' BY DEF NoEventLost, HasOpenDeadLetter
<1>6. OpenDeadLetterParksRow' BY DEF OpenDeadLetterParksRow, Locked
<1>7. NoRowStranded' BY DEF NoRowStranded
<1> QED BY <1>1, <1>2, <1>3, <1>4, <1>5, <1>6, <1>7

LEMMA ClaimIInv == ASSUME IInv, NEW w \in Relays, Claim(w) PROVE IInv'
<1> DEFINE B == Oldest(Claimable, BatchSize)
<1>1. B \subseteq Claimable BY OldestSubset
<1> HIDE DEF B
<1>2. batch' = [batch EXCEPT ![w] = B]
  BY DEF Claim, B
<1>3. B \subseteq Rows BY <1>1 DEF Claimable
<1>4. UNCHANGED <<outbox, dlq, outcome, replaying, delivered, crashes>>
  BY DEF Claim
<1>5. batch \in [Relays -> SUBSET Rows] BY DEF IInv, TypeOK
<1>6. \A r \in B : /\ outbox[r].state = "pending"
                   /\ outbox[r].attempts < MaxAttempts
                   /\ \A v \in Relays : r \notin batch[v]
  BY <1>1 DEF Claimable, Locked
<1>7. TypeOK' BY <1>2, <1>3, <1>4, <1>5 DEF IInv, TypeOK
<1>8. BatchHeld' BY <1>2, <1>4, <1>5, <1>6 DEF IInv, BatchHeld
<1>9. OutcomeJustified'
  <2>1. batch[w] = {} BY DEF Claim
  <2> QED BY <2>1, <1>2, <1>4, <1>5 DEF IInv, OutcomeJustified
<1>10. OpenDeadLetterParksRow'
  BY <1>2, <1>4, <1>5, <1>6 DEF IInv, OpenDeadLetterParksRow, Locked
<1> QED BY <1>4, <1>7, <1>8, <1>9, <1>10
        DEF IInv, ReplayIdsExist, NoEventLost, NoRowStranded, HasOpenDeadLetter

(* OrgMissing, PublishOk and PublishFailed change one uncommitted outcome  *)
(* and add to what Kafka has.                                              *)
LEMMA PublishEffect ==
  ASSUME IInv, NEW w \in Relays, Publish(w)
  PROVE  /\ \E r \in batch[w], o \in {"published", "retry", "dead"} :
              /\ outcome' = [outcome EXCEPT ![w][r] = o]
              /\ o = "published" => OwnMessage(r) \in delivered'
              /\ o = "retry" => outbox[r].attempts + 1 < MaxAttempts
         /\ delivered \subseteq delivered'
         /\ delivered' \in SUBSET (Topics \X Rows)
         /\ UNCHANGED <<outbox, dlq, batch, replaying, crashes>>
<1>0. /\ delivered \in SUBSET (Topics \X Rows)
      /\ \A r \in Rows : outbox[r].attempts \in Nat
  BY MaxAttemptsAssumption DEF IInv, TypeOK
<1>1. PICK r \in Rows : \/ \E o \in KafkaOutcomes : OrgMissing(w, r, o)
                        \/ PublishOk(w, r)
                        \/ \E o, o2 \in KafkaOutcomes : PublishFailed(w, r, o, o2)
  BY DEF Publish
<1>2. /\ AfterFailure(r) \in {"retry", "dead"}
      /\ AfterFailure(r) = "retry" => outbox[r].attempts + 1 < MaxAttempts
  BY <1>0, MaxAttemptsAssumption DEF AfterFailure
<1>3. r \in batch[w] BY <1>1 DEF OrgMissing, PublishOk, PublishFailed, IsNext
<1>4. CASE \E o \in KafkaOutcomes : OrgMissing(w, r, o)
  BY <1>0, <1>2, <1>3, <1>4, SendType DEF OrgMissing
<1>5. CASE PublishOk(w, r)
  <2>1. OwnMessage(r) \in delivered' BY <1>5 DEF PublishOk, PublishEnvelope
  <2> QED BY <1>0, <1>3, <1>5, <2>1, SendType DEF PublishOk
<1>6. CASE \E o, o2 \in KafkaOutcomes : PublishFailed(w, r, o, o2)
  BY <1>0, <1>2, <1>3, <1>6, SendType DEF PublishFailed
<1> QED BY <1>1, <1>4, <1>5, <1>6

LEMMA PublishIInv == ASSUME IInv, NEW w \in Relays, Publish(w) PROVE IInv'
<1>1. PICK r \in batch[w], o \in {"published", "retry", "dead"} :
        /\ outcome' = [outcome EXCEPT ![w][r] = o]
        /\ o = "published" => OwnMessage(r) \in delivered'
        /\ o = "retry" => outbox[r].attempts + 1 < MaxAttempts
  BY PublishEffect
<1>2. /\ delivered \subseteq delivered'
      /\ delivered' \in SUBSET (Topics \X Rows)
      /\ UNCHANGED <<outbox, dlq, batch, replaying, crashes>>
  BY PublishEffect
<1>3. r \in Rows BY <1>1 DEF IInv, TypeOK
<1>4. TypeOK' BY <1>1, <1>2, <1>3 DEF IInv, TypeOK, Outcomes
<1>5. OutcomeJustified'
  <2>1. outcome \in [Relays -> [Rows -> Outcomes]] BY DEF IInv, TypeOK
  <2>2. \A q \in Rows : OwnMessage(q)' = OwnMessage(q)
    BY DEF OwnMessage
  <2> SUFFICES ASSUME NEW v \in Relays, NEW q \in Rows
               PROVE /\ outcome'[v][q] # "none" => q \in batch[v]
                     /\ outcome'[v][q] = "published" => OwnMessage(q) \in delivered'
                     /\ outcome'[v][q] = "retry" => outbox[q].attempts + 1 < MaxAttempts
    BY <1>2, <2>2 DEF OutcomeJustified
  <2>3. CASE v = w /\ q = r BY <1>1, <1>3, <2>1, <2>3
  <2>4. CASE ~(v = w /\ q = r)
    <3>1. outcome'[v][q] = outcome[v][q] BY <1>1, <1>3, <2>1, <2>4
    <3> QED BY <3>1, <1>2 DEF IInv, OutcomeJustified
  <2> QED BY <2>3, <2>4
<1>6. NoEventLost' BY <1>2 DEF IInv, NoEventLost, HasOpenDeadLetter, OwnMessage
<1> QED BY <1>2, <1>4, <1>5, <1>6
        DEF IInv, BatchHeld, ReplayIdsExist, OpenDeadLetterParksRow, Locked,
            NoRowStranded

LEMMA CommitPollIInv == ASSUME IInv, NEW w \in Relays, CommitPoll(w) PROVE IInv'
<1> USE MaxAttemptsAssumption
<1>0. TypeOK BY DEF IInv
<1>1. /\ outbox' = [r \in Rows |-> IF r \in batch[w]
                                   THEN Flushed(outbox[r], outcome[w][r])
                                   ELSE outbox[r]]
      /\ dlq' = [r \in Rows |-> IF r \in DeadLettered(w)
                                THEN Append(dlq[r], "open") ELSE dlq[r]]
      /\ batch' = [batch EXCEPT ![w] = {}]
      /\ outcome' = [outcome EXCEPT ![w] = [r \in Rows |-> "none"]]
      /\ UNCHANGED <<replaying, delivered, crashes>>
      /\ \A r \in batch[w] : outcome[w][r] # "none"
  BY DEF CommitPoll, EndPoll
<1>2. batch[w] \subseteq Rows BY <1>0 DEF TypeOK
<1>3. \A r \in batch[w] : /\ outbox[r].state = "pending"
                          /\ outbox[r].attempts < MaxAttempts
                          /\ \A i \in DOMAIN dlq[r] : dlq[r][i] # "open"
  BY <1>2 DEF IInv, BatchHeld, OpenDeadLetterParksRow, Locked
<1>4. \A r \in Rows \ batch[w] : outbox'[r] = outbox[r] /\ dlq'[r] = dlq[r]
  BY <1>1 DEF DeadLettered
<1>5. \A r \in batch[w] :
        \/ /\ outcome[w][r] = "published"
           /\ outbox'[r] = [outbox[r] EXCEPT !.state = "published"]
           /\ dlq'[r] = dlq[r]
        \/ /\ outcome[w][r] = "retry"
           /\ outbox'[r] = [outbox[r] EXCEPT !.attempts = @ + 1]
           /\ dlq'[r] = dlq[r]
        \/ /\ outcome[w][r] = "dead"
           /\ outbox'[r].state = "published"
           /\ dlq'[r] = Append(dlq[r], "open")
  BY <1>0, <1>1, <1>2 DEF TypeOK, Outcomes, Flushed, DeadLettered
<1>6. TypeOK'
  <2>1. outbox' \in [Rows -> [state : RowStates, attempts : 0..MaxAttempts]]
    BY <1>0, <1>1, <1>2, <1>3, FlushedType DEF TypeOK
  <2>2. dlq' \in [Rows -> Seq({"open", "replayed"})]
    BY <1>0, <1>1, <1>2 DEF TypeOK
  <2>3. batch' \in [Relays -> SUBSET Rows] /\ outcome' \in [Relays -> [Rows -> Outcomes]]
    BY <1>0, <1>1 DEF TypeOK, Outcomes
  <2> QED BY <1>0, <1>1, <2>1, <2>2, <2>3 DEF TypeOK
<1>7. \A v \in Relays : batch'[v] = IF v = w THEN {} ELSE batch[v]
  BY <1>0, <1>1 DEF TypeOK
<1>8. \A v \in Relays \ {w} : \A r \in batch[v] : r \in Rows \ batch[w]
  BY <1>0, <1>2 DEF IInv, BatchHeld, TypeOK
<1>9. BatchHeld' BY <1>4, <1>7, <1>8 DEF IInv, BatchHeld
<1>10. OutcomeJustified'
  <2> SUFFICES ASSUME NEW v \in Relays, NEW r \in Rows
               PROVE /\ outcome'[v][r] # "none" => r \in batch'[v]
                     /\ outcome'[v][r] = "published" => OwnMessage(r) \in delivered'
                     /\ outcome'[v][r] = "retry" => outbox'[r].attempts + 1 < MaxAttempts
    BY DEF OutcomeJustified, OwnMessage
  <2>1. CASE v = w BY <1>0, <1>1, <2>1 DEF TypeOK
  <2>2. CASE v # w
    <3>1. outcome'[v][r] = outcome[v][r] /\ batch'[v] = batch[v]
      BY <1>0, <1>1, <1>7, <2>2 DEF TypeOK
    <3>2. CASE outcome[v][r] = "none" BY <3>1, <3>2
    <3>3. CASE outcome[v][r] # "none"
      <4>1. r \in batch[v] BY <3>3 DEF IInv, OutcomeJustified
      <4>2. outbox'[r] = outbox[r] BY <4>1, <1>4, <1>8, <2>2
      <4> QED BY <3>1, <4>1, <4>2, <1>1 DEF IInv, OutcomeJustified
    <3> QED BY <3>2, <3>3
  <2> QED BY <2>1, <2>2
<1>11. \A r \in Rows : /\ \A i \in DOMAIN dlq[r] : i \in DOMAIN dlq'[r] /\ dlq'[r][i] = dlq[r][i]
                       /\ dlq'[r] # dlq[r] => /\ r \in batch[w]
                                              /\ outbox'[r].state = "published"
                                              /\ dlq'[r] = Append(dlq[r], "open")
  <2> TAKE r \in Rows
  <2>1. dlq[r] \in Seq({"open", "replayed"}) BY <1>0 DEF TypeOK
  <2>2. CASE dlq'[r] = dlq[r] BY <2>2
  <2>3. CASE dlq'[r] # dlq[r]
    <3>1. /\ r \in batch[w]
          /\ outbox'[r].state = "published"
          /\ dlq'[r] = Append(dlq[r], "open")
      BY <1>4, <1>5, <2>3
    <3>2. \A i \in DOMAIN dlq[r] : i \in DOMAIN dlq'[r] /\ dlq'[r][i] = dlq[r][i]
      BY <2>1, <3>1
    <3> QED BY <3>1, <3>2
  <2> QED BY <2>2, <2>3
<1>12. ReplayIdsExist'
  BY <1>0, <1>1, <1>11 DEF IInv, ReplayIdsExist, TypeOK
<1>13. NoEventLost'
  <2> SUFFICES ASSUME NEW r \in Rows, outbox'[r].state = "published"
               PROVE \/ OwnMessage(r) \in delivered
                     \/ \E i \in DOMAIN dlq'[r] : dlq'[r][i] = "open"
    BY <1>1 DEF NoEventLost, HasOpenDeadLetter, OwnMessage
  <2>1. CASE r \notin batch[w]
    BY <1>4, <2>1 DEF IInv, NoEventLost, HasOpenDeadLetter
  <2>2. CASE r \in batch[w] /\ outcome[w][r] = "published"
    BY <2>2 DEF IInv, OutcomeJustified
  <2>3. CASE r \in batch[w] /\ outcome[w][r] = "dead"
    <3>1. dlq'[r] = Append(dlq[r], "open") BY <1>5, <2>3
    <3>2. /\ Len(dlq[r]) + 1 \in DOMAIN dlq'[r]
          /\ dlq'[r][Len(dlq[r]) + 1] = "open"
      BY <1>0, <3>1 DEF TypeOK
    <3> QED BY <3>2
  <2>4. CASE r \in batch[w] /\ outcome[w][r] = "retry"
    <3>1. outbox'[r].state = outbox[r].state
      BY <1>0, <1>5, <2>4 DEF TypeOK
    <3> QED BY <3>1, <1>3, <2>4
  <2> QED BY <1>5, <2>1, <2>2, <2>3, <2>4
<1>14. OpenDeadLetterParksRow'
  <2> SUFFICES ASSUME NEW r \in Rows, NEW i \in DOMAIN dlq'[r], dlq'[r][i] = "open"
               PROVE /\ i = Len(dlq'[r])
                     /\ outbox'[r].state = "published"
                     /\ \A v \in Relays : r \notin batch'[v]
    BY DEF OpenDeadLetterParksRow, Locked
  <2>1. CASE r \notin batch[w]
    BY <1>4, <1>7, <2>1 DEF IInv, OpenDeadLetterParksRow, Locked
  <2>2. CASE r \in batch[w]
    <3>1. \A v \in Relays : r \notin batch'[v] BY <1>7, <1>8, <2>2
    <3>2. dlq'[r] = Append(dlq[r], "open") /\ outbox'[r].state = "published"
      BY <1>3, <1>11, <2>2
    <3>3. i = Len(dlq'[r]) BY <1>0, <1>3, <2>2, <3>2 DEF TypeOK
    <3> QED BY <3>1, <3>2, <3>3
  <2> QED BY <2>1, <2>2
<1>15. NoRowStranded'
  <2> SUFFICES ASSUME NEW r \in Rows, outbox'[r].state = "pending"
               PROVE  outbox'[r].attempts < MaxAttempts
    BY DEF NoRowStranded
  <2>1. CASE r \notin batch[w] BY <1>4, <2>1 DEF IInv, NoRowStranded
  <2>2. CASE r \in batch[w]
    <3>1. outcome[w][r] = "retry" /\ outbox'[r].attempts = outbox[r].attempts + 1
      BY <1>0, <1>5, <2>2 DEF TypeOK
    <3> QED BY <3>1 DEF IInv, OutcomeJustified
  <2> QED BY <2>1, <2>2
<1> QED BY <1>6, <1>9, <1>10, <1>12, <1>13, <1>14, <1>15 DEF IInv

LEMMA CrashPollIInv == ASSUME IInv, NEW w \in Relays, CrashPoll(w) PROVE IInv'
<1> USE BoundsAssumption DEF IInv, CrashPoll, EndPoll
<1>1. TypeOK' BY DEF TypeOK, Outcomes
<1>2. BatchHeld' BY DEF BatchHeld, TypeOK
<1>3. OutcomeJustified' BY DEF OutcomeJustified, TypeOK, OwnMessage
<1>4. ReplayIdsExist' BY DEF ReplayIdsExist
<1>5. NoEventLost' BY DEF NoEventLost, HasOpenDeadLetter, OwnMessage
<1>6. OpenDeadLetterParksRow' BY DEF OpenDeadLetterParksRow, Locked, TypeOK
<1>7. NoRowStranded' BY DEF NoRowStranded
<1> QED BY <1>1, <1>2, <1>3, <1>4, <1>5, <1>6, <1>7

LEMMA ReplayLockIInv ==
  ASSUME IInv, NEW p \in Operators, NEW ids \in SUBSET DeadLetterIds, ReplayLock(p, ids)
  PROVE  IInv'
<1>1. replaying' = [replaying EXCEPT ![p] = ids]
      /\ UNCHANGED <<outbox, dlq, batch, outcome, delivered, crashes>>
  BY DEF ReplayLock
<1>2. ids \subseteq Rows \X (1..MaxReplays) BY DEF DeadLetterIds
<1>3. \A d \in ids : d[2] \in DOMAIN dlq[d[1]]
  <2> TAKE d \in ids
  <2>1. d[1] \in Rows /\ d[2] \in 1..MaxReplays /\ d[2] <= Len(dlq[d[1]])
    BY DEF DeadLetterIds
  <2>2. dlq[d[1]] \in Seq({"open", "replayed"}) BY <2>1 DEF IInv, TypeOK
  <2> QED BY <2>1, <2>2, BoundsAssumption
<1>4. TypeOK' BY <1>1, <1>2 DEF IInv, TypeOK
<1>5. ReplayIdsExist' BY <1>1, <1>3 DEF IInv, ReplayIdsExist, TypeOK
<1> QED BY <1>1, <1>4, <1>5
        DEF IInv, BatchHeld, OutcomeJustified, NoEventLost, HasOpenDeadLetter,
            OwnMessage, OpenDeadLetterParksRow, Locked, NoRowStranded

(* What a replay leaves behind.  The rows it resets were published, unheld *)
(* and had their latest dead letter open; none is open afterwards.         *)
LEMMA ReplayEffect ==
  ASSUME IInv, NEW p \in Operators, ReplayCommit(p)
  PROVE  /\ \A r \in Rows : /\ Len(dlq'[r]) = Len(dlq[r])
                            /\ DOMAIN dlq'[r] = DOMAIN dlq[r]
                            /\ dlq'[r] \in Seq({"open", "replayed"})
                            /\ \A i \in DOMAIN dlq[r] :
                                 dlq'[r][i] = IF <<r, i>> \in replaying[p]
                                              THEN "replayed" ELSE dlq[r][i]
         /\ \A r \in RowsToReset(p) :
              /\ r \in Rows
              /\ outbox[r].state = "published"
              /\ ~Locked(r)
              /\ \E i \in DOMAIN dlq[r] : dlq[r][i] = "open" /\ <<r, i>> \in replaying[p]
              /\ \A i \in DOMAIN dlq[r] : dlq'[r][i] = "replayed"
              /\ outbox'[r] = [state |-> "pending", attempts |-> 0]
         /\ \A r \in Rows \ RowsToReset(p) : outbox'[r] = outbox[r] /\ dlq'[r] = dlq[r]
<1>0. TypeOK BY DEF IInv
<1>1. /\ outbox' = [r \in Rows |-> IF r \in RowsToReset(p)
                                   THEN [state |-> "pending", attempts |-> 0]
                                   ELSE outbox[r]]
      /\ dlq' = [r \in Rows |-> [i \in DOMAIN dlq[r] |->
                   IF <<r, i>> \in replaying[p] THEN "replayed" ELSE dlq[r][i]]]
  BY DEF ReplayCommit
<1>2. ASSUME NEW r \in Rows
      PROVE  /\ Len(dlq'[r]) = Len(dlq[r])
             /\ DOMAIN dlq'[r] = DOMAIN dlq[r]
             /\ dlq'[r] \in Seq({"open", "replayed"})
             /\ \A i \in DOMAIN dlq[r] :
                  dlq'[r][i] = IF <<r, i>> \in replaying[p]
                               THEN "replayed" ELSE dlq[r][i]
  <2>1. dlq[r] \in Seq({"open", "replayed"}) BY <1>0 DEF TypeOK
  <2>2. dlq'[r] = [i \in DOMAIN dlq[r] |->
                     IF <<r, i>> \in replaying[p] THEN "replayed" ELSE dlq[r][i]]
    BY <1>1
  <2>3. DOMAIN dlq[r] = 1..Len(dlq[r]) /\ Len(dlq[r]) \in Nat BY <2>1
  <2>4. \A i \in 1..Len(dlq[r]) : dlq[r][i] \in {"open", "replayed"} BY <2>1
  <2>5. dlq'[r] \in [1..Len(dlq[r]) -> {"open", "replayed"}] BY <2>2, <2>3, <2>4
  <2>6. dlq'[r] \in Seq({"open", "replayed"}) BY <2>3, <2>5
  <2>7. Len(dlq'[r]) = Len(dlq[r]) BY <2>3, <2>5, <2>6
  <2> QED BY <2>2, <2>3, <2>6, <2>7
<1>3. ASSUME NEW r \in RowsToReset(p)
      PROVE  /\ r \in Rows
             /\ outbox[r].state = "published"
             /\ ~Locked(r)
             /\ \E i \in DOMAIN dlq[r] : dlq[r][i] = "open" /\ <<r, i>> \in replaying[p]
             /\ \A i \in DOMAIN dlq[r] : dlq'[r][i] = "replayed"
             /\ outbox'[r] = [state |-> "pending", attempts |-> 0]
  <2>1. PICK d \in replaying[p] : dlq[d[1]][d[2]] = "open" /\ r = d[1]
    BY DEF RowsToReset, ToReplay
  <2>2. d \in Rows \X (1..MaxReplays) /\ d[2] \in DOMAIN dlq[d[1]]
    BY <1>0, <2>1 DEF IInv, ReplayIdsExist, TypeOK
  <2>3. r \in Rows /\ <<r, d[2]>> \in replaying[p]
    BY <2>1, <2>2
  <2>4. d[2] = Len(dlq[r]) /\ outbox[r].state = "published" /\ ~Locked(r)
    BY <2>1, <2>2, <2>3 DEF IInv, OpenDeadLetterParksRow
  <2>5. \A i \in DOMAIN dlq[r] : dlq'[r][i] = "replayed"
    <3> TAKE i \in DOMAIN dlq[r]
    <3>1. CASE i = Len(dlq[r]) BY <1>2, <2>3, <2>4, <3>1
    <3>2. CASE i # Len(dlq[r])
      <4>1. dlq[r][i] # "open" BY <2>3, <3>2 DEF IInv, OpenDeadLetterParksRow
      <4>2. dlq[r][i] = "replayed" BY <1>0, <2>3, <4>1 DEF TypeOK
      <4> QED BY <1>2, <2>3, <4>2
    <3> QED BY <3>1, <3>2
  <2>6. outbox'[r] = [state |-> "pending", attempts |-> 0] BY <1>1, <2>3
  <2> QED BY <2>1, <2>2, <2>3, <2>4, <2>5, <2>6
<1>4. ASSUME NEW r \in Rows \ RowsToReset(p)
      PROVE  outbox'[r] = outbox[r] /\ dlq'[r] = dlq[r]
  <2>1. dlq[r] \in Seq({"open", "replayed"}) BY <1>0 DEF TypeOK
  <2>2. \A i \in DOMAIN dlq[r] : <<r, i>> \in replaying[p] => dlq[r][i] = "replayed"
    <3> SUFFICES ASSUME NEW i \in DOMAIN dlq[r], <<r, i>> \in replaying[p]
                 PROVE dlq[r][i] = "replayed"
      OBVIOUS
    <3>1. dlq[r][i] # "open" BY DEF RowsToReset, ToReplay
    <3> QED BY <2>1, <3>1
  <2>3. dlq'[r] = [i \in DOMAIN dlq[r] |-> dlq[r][i]] BY <1>1, <2>2
  <2>4. dlq'[r] = dlq[r] BY <2>1, <2>3
  <2> QED BY <1>1, <2>4
<1> QED BY <1>2, <1>3, <1>4

LEMMA ReplayCommitIInv == ASSUME IInv, NEW p \in Operators, ReplayCommit(p) PROVE IInv'
<1> USE MaxAttemptsAssumption
<1>0. TypeOK BY DEF IInv
<1>1. /\ replaying' = [replaying EXCEPT ![p] = {}]
      /\ UNCHANGED <<batch, outcome, delivered, crashes>>
  BY DEF ReplayCommit
<1>2. TypeOK'
  <2>1. outbox' \in [Rows -> [state : RowStates, attempts : 0..MaxAttempts]]
    BY <1>0 DEF ReplayCommit, TypeOK, RowStates
  <2>2. dlq' = [r \in Rows |-> dlq'[r]] BY DEF ReplayCommit
  <2>3. dlq' \in [Rows -> Seq({"open", "replayed"})] BY <2>2, ReplayEffect
  <2> QED BY <1>0, <1>1, <2>1, <2>3 DEF TypeOK
<1>3. \A w \in Relays : \A r \in batch[w] : r \in Rows \ RowsToReset(p)
  BY <1>0, ReplayEffect DEF Locked, TypeOK
<1>4. BatchHeld' BY <1>1, <1>3, ReplayEffect DEF IInv, BatchHeld
<1>5. OutcomeJustified'
  <2> SUFFICES ASSUME NEW w \in Relays, NEW r \in Rows
               PROVE /\ outcome[w][r] # "none" => r \in batch[w]
                     /\ outcome[w][r] = "published" => OwnMessage(r) \in delivered
                     /\ outcome[w][r] = "retry" => outbox'[r].attempts + 1 < MaxAttempts
    BY <1>1 DEF OutcomeJustified, OwnMessage
  <2>1. CASE r \in batch[w]
    <3>1. outbox'[r] = outbox[r] BY <1>3, <2>1, ReplayEffect
    <3> QED BY <3>1 DEF IInv, OutcomeJustified
  <2>2. CASE r \notin batch[w] BY <2>2 DEF IInv, OutcomeJustified
  <2> QED BY <2>1, <2>2
<1>6. ReplayIdsExist'
  BY <1>0, <1>1, ReplayEffect DEF IInv, ReplayIdsExist, TypeOK
<1>7. NoEventLost'
  <2> SUFFICES ASSUME NEW r \in Rows, outbox'[r].state = "published"
               PROVE OwnMessage(r) \in delivered \/ \E i \in DOMAIN dlq'[r] : dlq'[r][i] = "open"
    BY <1>1 DEF NoEventLost, HasOpenDeadLetter, OwnMessage
  <2>1. r \notin RowsToReset(p) BY ReplayEffect
  <2> QED BY <2>1, ReplayEffect DEF IInv, NoEventLost, HasOpenDeadLetter
<1>8. OpenDeadLetterParksRow'
  <2> SUFFICES ASSUME NEW r \in Rows, NEW i \in DOMAIN dlq'[r], dlq'[r][i] = "open"
               PROVE /\ i = Len(dlq'[r])
                     /\ outbox'[r].state = "published"
                     /\ \A v \in Relays : r \notin batch[v]
    BY <1>1 DEF OpenDeadLetterParksRow, Locked
  <2>1. r \notin RowsToReset(p) BY ReplayEffect
  <2>2. outbox'[r] = outbox[r] /\ dlq'[r] = dlq[r] BY <2>1, ReplayEffect
  <2> QED BY <2>2 DEF IInv, OpenDeadLetterParksRow, Locked
<1>9. NoRowStranded'
  <2> SUFFICES ASSUME NEW r \in Rows, outbox'[r].state = "pending"
               PROVE outbox'[r].attempts < MaxAttempts
    BY DEF NoRowStranded
  <2>1. CASE r \in RowsToReset(p)
    <3>1. outbox'[r].attempts = 0 BY <2>1, ReplayEffect
    <3> QED BY <3>1
  <2>2. CASE r \notin RowsToReset(p) BY <2>2, ReplayEffect DEF IInv, NoRowStranded
  <2> QED BY <2>1, <2>2
<1> QED BY <1>2, <1>4, <1>5, <1>6, <1>7, <1>8, <1>9 DEF IInv

LEMMA ReplayRollbackIInv ==
  ASSUME IInv, NEW p \in Operators, ReplayRollback(p) PROVE IInv'
<1>1. /\ replaying' = [replaying EXCEPT ![p] = {}]
      /\ UNCHANGED <<outbox, dlq, batch, outcome, delivered>>
      /\ crashes' = crashes + 1 /\ crashes < MaxCrashes
  BY DEF ReplayRollback
<1>2. TypeOK' BY <1>1, BoundsAssumption DEF IInv, TypeOK
<1>3. ReplayIdsExist' BY <1>1 DEF IInv, ReplayIdsExist, TypeOK
<1> QED BY <1>1, <1>2, <1>3
        DEF IInv, BatchHeld, OutcomeJustified, NoEventLost, HasOpenDeadLetter,
            OwnMessage, OpenDeadLetterParksRow, Locked, NoRowStranded

LEMMA NextIInv == IInv /\ [Next]_vars => IInv'
<1> SUFFICES ASSUME IInv, [Next]_vars PROVE IInv' OBVIOUS
<1>1. ASSUME NEW r \in Rows, Enqueue(r) PROVE IInv' BY <1>1, EnqueueIInv
<1>2. ASSUME NEW w \in Relays, RelayStep(w) \/ CrashPoll(w) PROVE IInv'
  BY <1>2, ClaimIInv, PublishIInv, CommitPollIInv, CrashPollIInv DEF RelayStep
<1>3. ASSUME NEW p \in Operators,
             \/ \E ids \in SUBSET DeadLetterIds : ReplayLock(p, ids)
             \/ ReplayCommit(p)
             \/ ReplayRollback(p)
      PROVE  IInv'
  BY <1>3, ReplayLockIInv, ReplayCommitIInv, ReplayRollbackIInv
<1>4. CASE UNCHANGED vars
  BY <1>4 DEF vars, IInv, TypeOK, BatchHeld, OutcomeJustified, ReplayIdsExist,
              NoEventLost, HasOpenDeadLetter, OwnMessage, OpenDeadLetterParksRow,
              Locked, NoRowStranded
<1> QED BY <1>1, <1>2, <1>3, <1>4 DEF Next

(* The inductive invariant holds in every behaviour of the relay. *)
THEOREM Invariance == Spec => []IInv
BY InitIInv, NextIInv, PTL DEF Spec

(* Type correctness of the outbox, the dead letters and the transactions.  *)
THEOREM TypeCorrect == Spec => []TypeOK
BY Invariance, PTL DEF IInv

(* At-least-once: whatever crashes, a row the relays are done with is in   *)
(* Kafka on its topic or an open dead letter.                              *)
THEOREM NoLoss == Spec => []NoEventLost
BY Invariance, PTL DEF IInv

(* A row has at most one open dead letter and is out of the relays' reach  *)
(* while it is open.                                                       *)
THEOREM DeadLetterParks == Spec => []OpenDeadLetterParksRow
BY Invariance, PTL DEF IInv

(* Every waiting row can still be claimed. *)
THEOREM NoneStranded == Spec => []NoRowStranded
BY Invariance, PTL DEF IInv

-----------------------------------------------------------------------------

(* One step never requeues a published row but by replaying an open dead   *)
(* letter of it, and never reopens or drops a dead letter.                 *)
RequeueStep ==
  \A r \in Rows :
    /\ outbox[r].state = "published" /\ outbox'[r].state # "published"
       => \E i \in DOMAIN dlq[r] : dlq[r][i] = "open" /\ dlq'[r][i] = "replayed"
    /\ \A i \in DOMAIN dlq[r] : /\ i \in DOMAIN dlq'[r]
                                /\ dlq[r][i] = "replayed" => dlq'[r][i] = "replayed"

LEMMA CommitPollRequeue ==
  ASSUME IInv, NEW w \in Relays, CommitPoll(w) PROVE RequeueStep
<1> SUFFICES ASSUME NEW r \in Rows
             PROVE /\ outbox[r].state = "published" => outbox'[r].state = "published"
                   /\ \A i \in DOMAIN dlq[r] : i \in DOMAIN dlq'[r] /\ dlq'[r][i] = dlq[r][i]
  BY DEF RequeueStep
<1>1. dlq[r] \in Seq({"open", "replayed"}) BY DEF IInv, TypeOK
<1>2. r \in batch[w] => outbox[r].state = "pending" BY DEF IInv, BatchHeld
<1>3. r \notin batch[w] => outbox'[r] = outbox[r] BY DEF CommitPoll
<1>4. dlq'[r] = dlq[r] \/ dlq'[r] = Append(dlq[r], "open") BY DEF CommitPoll
<1>5. \A i \in DOMAIN dlq[r] : i \in DOMAIN dlq'[r] /\ dlq'[r][i] = dlq[r][i]
  BY <1>1, <1>4
<1> QED BY <1>2, <1>3, <1>5

LEMMA ReplayCommitRequeue ==
  ASSUME IInv, NEW p \in Operators, ReplayCommit(p) PROVE RequeueStep
<1> SUFFICES ASSUME NEW r \in Rows
             PROVE /\ outbox[r].state = "published" /\ outbox'[r].state # "published"
                      => \E i \in DOMAIN dlq[r] : dlq[r][i] = "open" /\ dlq'[r][i] = "replayed"
                   /\ \A i \in DOMAIN dlq[r] : /\ i \in DOMAIN dlq'[r]
                                               /\ dlq[r][i] = "replayed" => dlq'[r][i] = "replayed"
  BY DEF RequeueStep
<1>1. CASE r \in RowsToReset(p)
  <2>1. \E i \in DOMAIN dlq[r] : dlq[r][i] = "open"
    <3>1. \E i \in DOMAIN dlq[r] : dlq[r][i] = "open" /\ <<r, i>> \in replaying[p]
      BY <1>1, ReplayEffect, Zenon
    <3> QED BY <3>1
  <2>2. \A i \in DOMAIN dlq[r] : i \in DOMAIN dlq'[r] /\ dlq'[r][i] = "replayed"
    BY <1>1, ReplayEffect
  <2> QED BY <2>1, <2>2
<1>2. CASE r \notin RowsToReset(p) BY <1>2, ReplayEffect
<1> QED BY <1>1, <1>2

LEMMA NextRequeue == IInv /\ [Next]_vars => [RequeueStep]_vars
<1> SUFFICES ASSUME IInv, Next PROVE RequeueStep OBVIOUS
<1>1. ASSUME NEW r \in Rows, Enqueue(r) PROVE RequeueStep
  BY <1>1 DEF Enqueue, RequeueStep, IInv, TypeOK
<1>2. ASSUME NEW w \in Relays, Claim(w) PROVE RequeueStep
  BY <1>2 DEF Claim, RequeueStep
<1>3. ASSUME NEW w \in Relays, Publish(w) PROVE RequeueStep
  <2>1. UNCHANGED <<outbox, dlq>> BY <1>3, PublishEffect
  <2> QED BY <2>1 DEF RequeueStep
<1>4. ASSUME NEW w \in Relays, CrashPoll(w) PROVE RequeueStep
  BY <1>4 DEF CrashPoll, RequeueStep
<1>5. ASSUME NEW p \in Operators,
             (\E ids \in SUBSET DeadLetterIds : ReplayLock(p, ids)) \/ ReplayRollback(p)
      PROVE RequeueStep
  BY <1>5 DEF ReplayLock, ReplayRollback, RequeueStep
<1> QED BY <1>1, <1>2, <1>3, <1>4, <1>5, CommitPollRequeue, ReplayCommitRequeue
        DEF Next, RelayStep

(* A published row is requeued only by the replay of an open dead letter.  *)
THEOREM RequeueByReplay == Spec => RequeueOnlyByReplay
<1>1. IInv /\ [Next]_vars => [RequeueStep]_vars BY NextRequeue
<1>2. RequeueOnlyByReplay <=> [][RequeueStep]_vars
  BY DEF RequeueOnlyByReplay, RequeueStep
<1> QED BY <1>1, <1>2, Invariance, PTL DEF Spec

-----------------------------------------------------------------------------

LEMMA InitDelivery == Init => Delivery!Init
<1> SUFFICES ASSUME Init PROVE Delivery!Init OBVIOUS
<1>1. EventStage = [r \in Rows |-> "unknown"]
  BY DEF Init, EventStage, Absent
<1>2. BrokerCopies = {} BY DEF Init, BrokerCopies
<1> QED BY <1>1, <1>2 DEF Delivery!Init

(* A row whose committed state and dead letters are left alone stays in    *)
(* its stage.                                                              *)
LEMMA SameStage ==
  ASSUME UNCHANGED <<outbox, dlq>> PROVE EventStage' = EventStage
BY DEF EventStage, HasOpenDeadLetter

LEMMA SameCopies == ASSUME UNCHANGED delivered PROVE BrokerCopies' = BrokerCopies
BY DEF BrokerCopies, OwnMessage

LEMMA EnqueueDelivery ==
  ASSUME IInv, NEW r \in Rows, Enqueue(r) PROVE [Delivery!Next]_(Delivery!evars)
<1>1. BrokerCopies' = BrokerCopies BY SameCopies DEF Enqueue
<1>2. CASE outbox[r].state # "absent"
  <2>1. UNCHANGED <<outbox, dlq>> BY <1>2 DEF Enqueue
  <2> QED BY <1>1, <2>1, SameStage DEF Delivery!evars
<1>3. CASE outbox[r].state = "absent"
  <2>1. outbox' = [outbox EXCEPT ![r] = [state |-> "pending", attempts |-> 0]]
        /\ dlq' = dlq
    BY <1>3 DEF Enqueue
  <2>2. outbox \in [Rows -> [state : RowStates, attempts : 0..MaxAttempts]]
    BY DEF IInv, TypeOK
  <2>3. EventStage[r] = "unknown" BY <1>3 DEF EventStage
  <2>4. EventStage' = [EventStage EXCEPT ![r] = "waiting"]
    BY <2>1, <2>2 DEF EventStage, HasOpenDeadLetter
  <2>5. Delivery!Accept(r) BY <1>1, <2>3, <2>4 DEF Delivery!Accept
  <2> QED BY <2>5 DEF Delivery!Next
<1> QED BY <1>2, <1>3

LEMMA PublishDelivery ==
  ASSUME IInv, NEW w \in Relays, Publish(w) PROVE [Delivery!Next]_(Delivery!evars)
<1>1. PICK r \in Rows : \/ \E o \in KafkaOutcomes : OrgMissing(w, r, o)
                        \/ PublishOk(w, r)
                        \/ \E o, o2 \in KafkaOutcomes : PublishFailed(w, r, o, o2)
  BY DEF Publish
<1>2. r \in batch[w] BY <1>1 DEF OrgMissing, PublishOk, PublishFailed, IsNext
<1>3. EventStage' = EventStage BY PublishEffect, SameStage
<1>4. EventStage[r] = "waiting"
  BY <1>2 DEF IInv, BatchHeld, EventStage
<1>5. delivered \subseteq delivered' BY PublishEffect
<1>6. \A m \in delivered' \ delivered : m = OwnMessage(r) \/ m = Envelope(DLQ_TOPIC, r)
  BY <1>1 DEF OrgMissing, PublishOk, PublishFailed, PublishEnvelope, BestEffortDlqPublish
<1>7. \A q \in Rows : OwnMessage(q) \in delivered' \ delivered => q = r
  BY <1>6 DEF OwnMessage, Envelope
<1>8. BrokerCopies' = BrokerCopies \/ BrokerCopies' = BrokerCopies \cup {r}
  <2>1. BrokerCopies' = {q \in Rows : OwnMessage(q) \in delivered'}
    BY DEF BrokerCopies, OwnMessage
  <2> QED BY <1>5, <1>7, <2>1 DEF BrokerCopies
<1>9. CASE BrokerCopies' = BrokerCopies BY <1>3, <1>9 DEF Delivery!evars
<1>10. CASE BrokerCopies' = BrokerCopies \cup {r}
  BY <1>3, <1>4, <1>10 DEF Delivery!Next, Delivery!Send
<1> QED BY <1>8, <1>9, <1>10

LEMMA CommitPollDelivery ==
  ASSUME IInv, NEW w \in Relays, CommitPoll(w) PROVE Delivery!Next
<1> DEFINE S == {r \in batch[w] : outcome[w][r] = "published"}
           P == DeadLettered(w)
<1>0. TypeOK BY DEF IInv
<1>1. batch[w] \subseteq Rows BY <1>0 DEF TypeOK
<1>2. S \in SUBSET Rows /\ P \in SUBSET Rows BY <1>1 DEF DeadLettered
<1>3. BrokerCopies' = BrokerCopies BY SameCopies DEF CommitPoll
<1>4. S \subseteq BrokerCopies
  BY <1>1 DEF IInv, OutcomeJustified, BrokerCopies
<1>5. \A r \in batch[w] : EventStage[r] = "waiting" /\ outbox[r].state = "pending"
  BY <1>1 DEF IInv, BatchHeld, EventStage
<1>6. \A r \in batch[w] : ~HasOpenDeadLetter(r)
  BY <1>1, <1>5 DEF IInv, OpenDeadLetterParksRow, HasOpenDeadLetter
<1>7. ASSUME NEW r \in Rows
      PROVE EventStage'[r] = CASE r \in P -> "parked"
                               [] r \in S \ P -> "settled"
                               [] OTHER -> EventStage[r]
  <2>0. EventStage'[r] = CASE outbox'[r].state = "absent"  -> "unknown"
                           [] outbox'[r].state = "pending" -> "waiting"
                           [] OTHER -> IF \E i \in DOMAIN dlq'[r] : dlq'[r][i] = "open"
                                       THEN "parked" ELSE "settled"
    BY DEF EventStage, HasOpenDeadLetter
  <2>1. CASE r \notin batch[w]
    <3>1. outbox'[r] = outbox[r] /\ dlq'[r] = dlq[r]
      BY <2>1 DEF CommitPoll, DeadLettered
    <3>2. r \notin P /\ r \notin S BY <2>1 DEF DeadLettered
    <3>3. EventStage'[r] = EventStage[r]
      BY <2>0, <3>1 DEF EventStage, HasOpenDeadLetter
    <3> HIDE DEF P, S
    <3> QED BY <3>2, <3>3
  <2>2. CASE r \in P
    <3>1. r \in batch[w] /\ outcome[w][r] = "dead" BY <2>2 DEF DeadLettered
    <3>2. outbox'[r].state = "published" BY <3>1 DEF CommitPoll, Flushed
    <3>3. dlq'[r] = Append(dlq[r], "open") BY <2>2 DEF CommitPoll
    <3>4. dlq[r] \in Seq({"open", "replayed"}) BY <1>0 DEF TypeOK
    <3>5. \E i \in DOMAIN dlq'[r] : dlq'[r][i] = "open"
      <4>1. Len(dlq[r]) + 1 \in DOMAIN dlq'[r] /\ dlq'[r][Len(dlq[r]) + 1] = "open"
        BY <3>3, <3>4
      <4> QED BY <4>1
    <3>6. EventStage'[r] = "parked" BY <2>0, <3>2, <3>5
    <3> HIDE DEF P, S
    <3> QED BY <2>2, <3>6
  <2>3. CASE r \in S
    <3>1. outcome[w][r] = "published" /\ r \in batch[w] BY <2>3
    <3>2. r \notin P BY <3>1 DEF DeadLettered
    <3>3. outbox'[r].state = "published"
      BY <1>0, <3>1 DEF CommitPoll, Flushed, TypeOK
    <3>4. dlq'[r] = dlq[r] BY <3>2 DEF CommitPoll
    <3>5. EventStage'[r] = "settled"
      BY <1>6, <2>0, <3>1, <3>3, <3>4 DEF HasOpenDeadLetter
    <3> HIDE DEF P, S
    <3> QED BY <2>3, <3>2, <3>5
  <2>4. CASE r \in batch[w] /\ r \notin P /\ r \notin S
    <3>1. outcome[w][r] = "retry"
      BY <1>0, <2>4 DEF CommitPoll, DeadLettered, TypeOK, Outcomes
    <3>2. outbox'[r].state = outbox[r].state
      BY <1>0, <2>4, <3>1 DEF CommitPoll, Flushed, TypeOK
    <3>3. EventStage'[r] = "waiting" BY <1>5, <2>0, <2>4, <3>2
    <3> HIDE DEF P, S
    <3> QED BY <1>5, <2>4, <3>3
  <2> QED BY <2>1, <2>2, <2>3, <2>4
<1>8. EventStage' = [r \in Rows |-> CASE r \in P -> "parked"
                                     [] r \in S \ P -> "settled"
                                     [] OTHER -> EventStage[r]]
  <2>1. EventStage' = [r \in Rows |-> EventStage'[r]] BY DEF EventStage
  <2> HIDE DEF P, S
  <2> QED BY <1>7, <2>1
<1>9. Delivery!Resolve(S, P)
  <2>1. \A r \in S \cup P : EventStage[r] = "waiting" BY <1>5 DEF DeadLettered
  <2> HIDE DEF P, S
  <2> QED BY <1>3, <1>4, <1>8, <2>1 DEF Delivery!Resolve
<1> HIDE DEF P, S
<1> QED BY <1>2, <1>9 DEF Delivery!Next

LEMMA ReplayCommitDelivery ==
  ASSUME IInv, NEW p \in Operators, ReplayCommit(p) PROVE Delivery!Next
<1> DEFINE P == RowsToReset(p)
<1>1. P \in SUBSET Rows BY ReplayEffect
<1>2. BrokerCopies' = BrokerCopies BY SameCopies DEF ReplayCommit
<1>3. \A r \in P : EventStage[r] = "parked"
  <2> TAKE r \in P
  <2>a. /\ r \in Rows /\ outbox[r].state = "published"
        /\ \E i \in DOMAIN dlq[r] : dlq[r][i] = "open" /\ <<r, i>> \in replaying[p]
    <3> HIDE DEF P
    <3>1. r \in RowsToReset(p) BY DEF P
    <3> QED BY <3>1, ReplayEffect, Zenon
  <2>1. r \in Rows /\ outbox[r].state = "published" /\ HasOpenDeadLetter(r)
    BY <2>a DEF HasOpenDeadLetter
  <2> QED BY <2>1 DEF EventStage
<1>4. ASSUME NEW r \in Rows
      PROVE EventStage'[r] = IF r \in P THEN "waiting" ELSE EventStage[r]
  <2>0. EventStage'[r] = CASE outbox'[r].state = "absent"  -> "unknown"
                           [] outbox'[r].state = "pending" -> "waiting"
                           [] OTHER -> IF \E i \in DOMAIN dlq'[r] : dlq'[r][i] = "open"
                                       THEN "parked" ELSE "settled"
    BY DEF EventStage, HasOpenDeadLetter
  <2>1. CASE r \in P
    <3>1. outbox'[r].state = "pending" BY <2>1, ReplayEffect
    <3> QED BY <2>0, <2>1, <3>1
  <2>2. CASE r \notin P
    <3>1. outbox'[r] = outbox[r] /\ dlq'[r] = dlq[r] BY <2>2, ReplayEffect
    <3> QED BY <2>0, <2>2, <3>1 DEF EventStage, HasOpenDeadLetter
  <2> QED BY <2>1, <2>2
<1>5. EventStage' = [r \in Rows |-> IF r \in P THEN "waiting" ELSE EventStage[r]]
  <2>1. EventStage' = [r \in Rows |-> EventStage'[r]] BY DEF EventStage
  <2> QED BY <1>4, <2>1
<1>6. Delivery!Requeue(P) BY <1>2, <1>3, <1>5 DEF Delivery!Requeue
<1> QED BY <1>1, <1>6 DEF Delivery!Next

LEMMA NextDelivery == IInv /\ [Next]_vars => [Delivery!Next]_(Delivery!evars)
<1> SUFFICES ASSUME IInv, [Next]_vars PROVE [Delivery!Next]_(Delivery!evars) OBVIOUS
<1>1. ASSUME UNCHANGED <<outbox, dlq, delivered>>
      PROVE  [Delivery!Next]_(Delivery!evars)
  BY <1>1, SameStage, SameCopies DEF Delivery!evars
<1>2. CASE UNCHANGED vars BY <1>1, <1>2 DEF vars
<1>3. ASSUME NEW w \in Relays, Claim(w) \/ CrashPoll(w)
      PROVE  [Delivery!Next]_(Delivery!evars)
  BY <1>1, <1>3 DEF Claim, CrashPoll
<1>4. ASSUME NEW p \in Operators,
             (\E ids \in SUBSET DeadLetterIds : ReplayLock(p, ids)) \/ ReplayRollback(p)
      PROVE  [Delivery!Next]_(Delivery!evars)
  BY <1>1, <1>4 DEF ReplayLock, ReplayRollback
<1> QED BY <1>2, <1>3, <1>4, EnqueueDelivery, PublishDelivery, CommitPollDelivery,
           ReplayCommitDelivery DEF Next, RelayStep

(* The relay implements the abstract event delivery.                       *)
THEOREM Refinement == Spec => ImplementsDelivery
<1>1. Init => Delivery!Init BY InitDelivery
<1>2. IInv /\ [Next]_vars => [Delivery!Next]_(Delivery!evars) BY NextDelivery
<1> QED BY <1>1, <1>2, Invariance, PTL DEF Spec, ImplementsDelivery, Delivery!Spec
=============================================================================
