-------------------- MODULE SubscriptionLifecycleProofs --------------------
(***************************************************************************)
(* Theorems about SubscriptionLifecycle, for any number of subscriptions,  *)
(* webhook events, workers and plans, and any number of requests, replays  *)
(* and aborted transactions.                                               *)
(***************************************************************************)
EXTENDS SubscriptionLifecycle, TLAPS

Columns == [status : Statuses \cup {"none"}, entered : {"null", "in_grace", "expired"},
            atEnd : BOOLEAN, plan : Plans \cup {NoPlan}]

(* A subscription that exists has a plan. *)
Row == {r \in Columns : r.status # "none" => r.plan \in Plans}

Tx == [op : WebhookOps \cup {"idle", "cancel", "cancel_at_end", "change_plan"},
       on : Subs \cup Events \cup {NoWorkOn}, seen : Row,
       key : PlanKeys \cup {NoWorkOn}, plan : Plans \cup {NoPlan}]

TypeOK ==
  /\ sub \in [Subs -> Row]
  /\ webhook \in [Events -> {"absent", "processed", "skipped", "failed"}]
  /\ campaigns \subseteq [sub : Subs, key : Events, status : {"active", "paused", "ended"}]
  /\ tx \in [Workers -> Tx]

(* A transaction works on what its kind of request names; a subscription   *)
(* it has read exists, and still does.                                     *)
Exists(s) == s \in Subs /\ sub[s].status # "none"

TxTarget ==
  \A p \in Workers :
    /\ tx[p].op \in WebhookOps =>
         /\ tx[p].on \in Events
         /\ tx[p].seen.status # "none" => Exists(EventSub[tx[p].on])
    /\ tx[p].op \in {"cancel", "cancel_at_end", "change_plan"} => Exists(tx[p].on)
    /\ tx[p].op = "change_plan" =>
         tx[p].key \in PlanKeys /\ tx[p].plan \in Plans /\ tx[p].seen.plan \in Plans

(* A campaign belongs to the subscription its webhook names. *)
CampaignOf == \A c \in campaigns : c.sub = EventSub[c.key]

HasCampaign(s) == \E c \in campaigns : c.sub = s

(* Who has flushed a transition handles a failed payment, and the index    *)
(* refuses a campaign only for another campaign of the subscription.       *)
Flushed ==
  \A p \in Workers :
    /\ tx[p].op \in FlushedOps =>
         /\ EventType[tx[p].on] = "invoice.payment_failed"
         /\ CanTransition(tx[p].seen.status, "past_due")
    /\ tx[p].op = "refused" => HasCampaign(EventSub[tx[p].on])

(* The row lock of a webhook: who is about to process it is alone, and it  *)
(* has not been processed.                                                 *)
WebhookLocked ==
  \A p \in Workers : tx[p].op \in WebhookOps =>
    /\ webhook[tx[p].on] \notin {"processed", "skipped"}
    /\ \A q \in Workers : tx[q].op \in WebhookOps /\ tx[q].on = tx[p].on => q = p

(* Every ledger entry was announced. *)
EntriesPosted == \A e \in ledger : <<"ledger.entry_posted", e>> \in outbox

IInv == /\ TypeOK
        /\ TxTarget
        /\ WebhookLocked
        /\ CampaignOf
        /\ Flushed
        /\ EntriesPosted
        /\ PastDueHasDeadline
        /\ EffectsAreWhole
        /\ PlanChangeAccounted

-----------------------------------------------------------------------------

(* EffectsAreWhole in two parts: the effects of a webhook, and those of    *)
(* the end of grace.                                                       *)
WebhookEffects ==
  \A e \in Events :
    /\ <<"invoice_paid", e>> \in ledger
         <=> webhook[e] = "processed" /\ EventType[e] = "invoice.paid"
    /\ <<"activated", e>> \in outbox
         <=> webhook[e] = "processed" /\ EventType[e] = "invoice.paid"
    /\ <<"ledger.entry_posted", <<"invoice_paid", e>>>> \in outbox
         <=> webhook[e] = "processed" /\ EventType[e] = "invoice.paid"
    /\ <<"past_due", e>> \in outbox <=> <<"payment_failed", e>> \in outbox
    /\ webhook[e] = "processed" /\ EventType[e] = "invoice.payment_failed"
         => <<"payment_failed", e>> \in outbox
    /\ <<"payment_failed", e>> \in outbox =>
         /\ EventType[e] = "invoice.payment_failed"
         /\ webhook[e] \in {"processed", "failed"}
         /\ DunningEnabled => HasCampaign(EventSub[e])

UnpaidEffects ==
  \A s \in Subs : sub[s].status = "unpaid" =>
    /\ <<"access_revoked_marker", s>> \in ledger
    /\ <<"access_revoked", s>> \in outbox

LEMMA EffectsSplit ==
  EntriesPosted => (EffectsAreWhole <=> WebhookEffects /\ UnpaidEffects)
<1> SUFFICES ASSUME EntriesPosted PROVE EffectsAreWhole <=> WebhookEffects /\ UnpaidEffects
  OBVIOUS
<1>1. EffectsAreWhole => WebhookEffects /\ UnpaidEffects
  BY DEF EffectsAreWhole, WebhookEffects, UnpaidEffects, HasCampaign
<1>2. WebhookEffects /\ UnpaidEffects => EffectsAreWhole
  BY DEF EffectsAreWhole, WebhookEffects, UnpaidEffects, EntriesPosted, HasCampaign
<1> QED BY <1>1, <1>2

LEMMA EffectsSplitPrime ==
  EntriesPosted' => (EffectsAreWhole' <=> WebhookEffects' /\ UnpaidEffects')
<1> SUFFICES ASSUME EntriesPosted' PROVE EffectsAreWhole' <=> WebhookEffects' /\ UnpaidEffects'
  OBVIOUS
<1>1. EffectsAreWhole' => WebhookEffects' /\ UnpaidEffects'
  BY DEF EffectsAreWhole, WebhookEffects, UnpaidEffects, HasCampaign
<1>2. WebhookEffects' /\ UnpaidEffects' => EffectsAreWhole'
  BY DEF EffectsAreWhole, WebhookEffects, UnpaidEffects, EntriesPosted, HasCampaign
<1> QED BY <1>1, <1>2

(* The invariant of the steps that write neither ledger nor outbox, nor a  *)
(* webhook row: what is left to show is about sub and tx.                  *)
LEMMA QuietStep ==
  ASSUME IInv, UNCHANGED <<webhook, ledger, outbox>>,
         TypeOK', TxTarget', WebhookLocked', CampaignOf', Flushed', PastDueHasDeadline',
         \A s : HasCampaign(s) => HasCampaign(s)',
         \A s \in Subs : sub'[s].status = "unpaid" => sub[s].status = "unpaid"
  PROVE  IInv'
<1>1. EntriesPosted' BY DEF IInv, EntriesPosted
<1>2. WebhookEffects' BY EffectsSplit DEF IInv, WebhookEffects
<1>3. UnpaidEffects' BY EffectsSplit DEF IInv, UnpaidEffects
<1>4. PlanChangeAccounted' BY DEF IInv, PlanChangeAccounted, PlanChangeKnown
<1> QED BY <1>1, <1>2, <1>3, <1>4, EffectsSplitPrime DEF IInv

LEMMA InitIInv == Init => IInv
<1> SUFFICES ASSUME Init PROVE IInv OBVIOUS
<1>1. NoRow \in Row BY DEF Row, Columns, NoRow
<1>2. NoTx \in Tx /\ NoTx.op = "idle" BY <1>1 DEF Tx, NoTx
<1>3. TypeOK BY <1>1, <1>2 DEF Init, TypeOK
<1>4. TxTarget /\ WebhookLocked /\ CampaignOf /\ Flushed
  BY <1>2 DEF Init, TxTarget, WebhookLocked, CampaignOf, Flushed, WebhookOps, FreshOps, FlushedOps
<1>5. EntriesPosted /\ PastDueHasDeadline /\ PlanChangeAccounted
  BY DEF Init, EntriesPosted, PastDueHasDeadline, PlanChangeAccounted, NoRow
<1>6. WebhookEffects /\ UnpaidEffects BY DEF Init, WebhookEffects, UnpaidEffects, NoRow
<1> QED BY <1>3, <1>4, <1>5, <1>6, EffectsSplit DEF IInv

LEMMA StutterIInv == ASSUME IInv, UNCHANGED vars PROVE IInv'
<1>1. TypeOK' /\ TxTarget' /\ WebhookLocked' /\ CampaignOf' /\ Flushed' /\ PastDueHasDeadline'
  BY DEF IInv, vars, TypeOK, TxTarget, Exists, WebhookLocked, CampaignOf, Flushed, HasCampaign,
         PastDueHasDeadline
<1> QED BY <1>1, QuietStep DEF vars, HasCampaign

LEMMA CreateSubscriptionIInv ==
  ASSUME IInv, NEW s \in Subs, NEW initial \in {"trialing", "incomplete"}, NEW plan \in Plans,
         CreateSubscription(s, initial, plan)
  PROVE  IInv'
<1>0. sub \in [Subs -> Row] BY DEF IInv, TypeOK
<1>1. /\ UNCHANGED <<webhook, ledger, campaigns, tx>>
      /\ outbox \subseteq outbox'
      /\ \A m \in outbox' \ outbox : m = <<"trial_started", s>>
  BY DEF CreateSubscription
<1>2. /\ sub' \in [Subs -> Row]
      /\ \A t \in Subs : sub'[t].status \in {"unpaid", "past_due"} =>
                            sub'[t].status = sub[t].status /\ sub'[t].entered = sub[t].entered
      /\ \A t \in Subs : sub[t].status # "none" => sub'[t].status # "none"
  <2>1. CASE sub[s].status = "none"
    <3> DEFINE r == [sub[s] EXCEPT !.status = initial, !.plan = plan]
    <3>1. sub' = [sub EXCEPT ![s] = r] BY <2>1 DEF CreateSubscription
    <3>2. r \in Row /\ r.status = initial BY <1>0 DEF Row, Columns, Statuses
    <3> HIDE DEF r
    <3>3. sub' \in [Subs -> Row] BY <1>0, <3>1, <3>2
    <3>4. sub'[s].status = initial /\ \A t \in Subs \ {s} : sub'[t] = sub[t]
      BY <1>0, <3>1, <3>2
    <3> QED BY <3>3, <3>4
  <2>2. CASE sub[s].status # "none"
    <3>1. sub' = sub BY <2>2 DEF CreateSubscription
    <3> QED BY <1>0, <3>1
  <2> QED BY <2>1, <2>2
<1>3. TypeOK' BY <1>1, <1>2 DEF IInv, TypeOK
<1>4. TxTarget' /\ WebhookLocked' /\ CampaignOf' /\ Flushed'
  BY <1>1, <1>2 DEF IInv, TxTarget, Exists, WebhookLocked, CampaignOf, Flushed, HasCampaign
<1>5. EntriesPosted' BY <1>1 DEF IInv, EntriesPosted
<1>6. PastDueHasDeadline' BY <1>2 DEF IInv, PastDueHasDeadline
<1>7. WebhookEffects' BY <1>1, EffectsSplit DEF IInv, WebhookEffects, HasCampaign
<1>8. UnpaidEffects' BY <1>1, <1>2, EffectsSplit DEF IInv, UnpaidEffects
<1>9. PlanChangeAccounted' BY <1>1 DEF IInv, PlanChangeAccounted, PlanChangeKnown
<1> QED BY <1>3, <1>4, <1>5, <1>6, <1>7, <1>8, <1>9, EffectsSplitPrime DEF IInv

(* The steps that open a transaction. *)
LEMMA OpenIInv ==
  ASSUME IInv, NEW p \in Workers, NEW t \in Tx, tx[p] = NoTx,
         tx' = [tx EXCEPT ![p] = t],
         UNCHANGED <<sub, webhook, ledger, outbox, campaigns>>,
         t.op \in WebhookOps =>
           /\ t.op \in FreshOps
           /\ t.on \in Events
           /\ t.seen.status # "none" => Exists(EventSub[t.on])
           /\ webhook[t.on] \notin {"processed", "skipped"} /\ ~WebhookHeld(t.on),
         t.op \in {"cancel", "cancel_at_end", "change_plan"} => Exists(t.on),
         t.op = "change_plan" => t.key \in PlanKeys /\ t.plan \in Plans /\ t.seen.plan \in Plans
  PROVE  IInv'
<1>1. tx \in [Workers -> Tx] BY DEF IInv, TypeOK
<1>2. \A q \in Workers : tx'[q] = IF q = p THEN t ELSE tx[q] BY <1>1
<1>3. TypeOK' BY <1>1 DEF IInv, TypeOK
<1>4. TxTarget' BY <1>2 DEF IInv, TxTarget, Exists
<1>5. WebhookLocked' BY <1>2 DEF IInv, WebhookLocked, WebhookHeld
<1>6. PastDueHasDeadline' BY DEF IInv, PastDueHasDeadline
<1>7. CampaignOf' /\ Flushed'
  BY <1>2 DEF IInv, CampaignOf, Flushed, HasCampaign, WebhookOps, FreshOps, FlushedOps
<1> QED BY <1>3, <1>4, <1>5, <1>6, <1>7, QuietStep DEF HasCampaign

LEMMA SnapshotType ==
  ASSUME TypeOK, NEW s \in Subs \cup {NoSub}
  PROVE  Snapshot(s) \in Row /\ (Snapshot(s).status # "none" => Exists(s))
BY DEF TypeOK, Snapshot, Row, Columns, NoRow, Statuses, Exists

LEMMA WebhookOpenIInv ==
  ASSUME IInv, NEW p \in Workers, NEW e \in Events, Ingest(p, e) \/ Replay(p, e)
  PROVE  IInv'
<1>1. PICK op \in FreshOps : Open(p, op, e, EventSub[e])
  BY DEF Ingest, Replay, FreshOps
<1>2. webhook[e] \notin {"processed", "skipped"} /\ ~WebhookHeld(e)
  BY DEF Ingest, Replay
<1> DEFINE t == [NoTx EXCEPT !.op = op, !.on = e, !.seen = Snapshot(EventSub[e])]
<1>3. Snapshot(EventSub[e]) \in Row
      /\ (Snapshot(EventSub[e]).status # "none" => Exists(EventSub[e]))
  BY SnapshotType, EventSubAssumption DEF IInv
<1>4. t \in Tx /\ t.op = op /\ t.on = e /\ t.seen = Snapshot(EventSub[e])
  BY <1>1, <1>3 DEF Tx, NoTx, WebhookOps, FreshOps
<1>5. /\ tx[p] = NoTx /\ tx' = [tx EXCEPT ![p] = t]
      /\ UNCHANGED <<sub, webhook, ledger, outbox, campaigns>>
  BY <1>1 DEF Open
<1> HIDE DEF t
<1>6. t.op \notin {"cancel", "cancel_at_end", "change_plan"} BY <1>4 DEF FreshOps
<1> QED BY <1>2, <1>3, <1>4, <1>5, <1>6, OpenIInv

LEMMA CancelIInv ==
  ASSUME IInv, NEW p \in Workers, NEW s \in Subs, NEW op \in {"cancel", "cancel_at_end"},
         Cancel(p, s, op)
  PROVE  IInv'
<1> DEFINE t == [NoTx EXCEPT !.op = op, !.on = s, !.seen = Snapshot(s)]
<1>1. Snapshot(s) \in Row BY SnapshotType DEF IInv
<1>2. t \in Tx /\ t.op = op /\ t.on = s BY <1>1 DEF Tx, NoTx
<1>3. /\ Exists(s) /\ tx[p] = NoTx /\ tx' = [tx EXCEPT ![p] = t]
      /\ UNCHANGED <<sub, webhook, ledger, outbox, campaigns>>
  BY DEF Cancel, Open, Exists
<1> HIDE DEF t
<1> QED BY <1>2, <1>3, OpenIInv DEF WebhookOps, FreshOps, FlushedOps

LEMMA ChangePlanIInv ==
  ASSUME IInv, NEW p \in Workers, NEW s \in Subs, NEW k \in PlanKeys, NEW plan \in Plans,
         ChangePlan(p, s, k, plan)
  PROVE  IInv'
<1> DEFINE t == [op |-> "change_plan", on |-> s, seen |-> sub[s], key |-> k, plan |-> plan]
<1>1. sub[s] \in Row /\ sub[s].plan \in Plans BY DEF IInv, TypeOK, ChangePlan, Row
<1>2. /\ t \in Tx /\ t.op = "change_plan" /\ t.on = s /\ t.key = k /\ t.plan = plan
      /\ t.seen.plan \in Plans
  BY <1>1 DEF Tx
<1>3. /\ Exists(s) /\ tx[p] = NoTx /\ tx' = [tx EXCEPT ![p] = t]
      /\ UNCHANGED <<sub, webhook, ledger, outbox, campaigns>>
  BY DEF ChangePlan, Exists
<1> HIDE DEF t
<1> QED BY <1>2, <1>3, OpenIInv DEF WebhookOps, FreshOps, FlushedOps

(* The end of a transaction keeps what is said of the open ones. *)
LEMMA CloseTx ==
  ASSUME IInv, NEW p \in Workers, Close(p),
         \A s \in Subs : sub[s].status # "none" => sub'[s].status # "none",
         \A s : HasCampaign(s) => HasCampaign(s)'
  PROVE  /\ tx' \in [Workers -> Tx]
         /\ TxTarget'
         /\ Flushed'
         /\ webhook' = webhook => WebhookLocked'
         /\ \A q \in Workers : tx'[q] = IF q = p THEN NoTx ELSE tx[q]
<1>1. tx \in [Workers -> Tx] BY DEF IInv, TypeOK
<1>2. NoTx \in Tx /\ NoTx.op = "idle" BY DEF Tx, NoTx, Row, Columns, NoRow
<1>3. \A q \in Workers : tx'[q] = IF q = p THEN NoTx ELSE tx[q] BY <1>1 DEF Close
<1>4. tx' \in [Workers -> Tx] BY <1>1, <1>2 DEF Close
<1>5. NoTx.op \notin WebhookOps BY <1>2 DEF WebhookOps, FreshOps, FlushedOps
<1>6. TxTarget' BY <1>2, <1>3, <1>5 DEF IInv, TxTarget, Exists
<1>7. webhook' = webhook => WebhookLocked' BY <1>3, <1>5 DEF IInv, WebhookLocked
<1>8. Flushed' BY <1>2, <1>3, <1>5 DEF IInv, Flushed, WebhookOps
<1> QED BY <1>3, <1>4, <1>6, <1>7, <1>8

LEMMA AbortIInv == ASSUME IInv, NEW p \in Workers, Abort(p) PROVE IInv'
<1>1. UNCHANGED <<sub, webhook, ledger, outbox, campaigns>> /\ Close(p) BY DEF Abort
<1>2. TypeOK' /\ TxTarget' /\ WebhookLocked' /\ Flushed'
  BY <1>1, CloseTx DEF IInv, TypeOK, HasCampaign
<1>3. PastDueHasDeadline' /\ CampaignOf' BY <1>1 DEF IInv, PastDueHasDeadline, CampaignOf
<1> QED BY <1>1, <1>2, <1>3, QuietStep DEF HasCampaign

-----------------------------------------------------------------------------

(* What a webhook's commit keeps, whatever its result and its effects. *)
LEMMA WebhookCloses ==
  ASSUME IInv, NEW p \in Workers, tx[p].op \in WebhookOps,
         NEW result \in {"processed", "skipped", "failed"}, CommitWebhook(p, result),
         \A s \in Subs : sub[s].status # "none" => sub'[s].status # "none",
         \A s : HasCampaign(s) => HasCampaign(s)'
  PROVE  /\ tx' \in [Workers -> Tx] /\ TxTarget' /\ WebhookLocked' /\ Flushed'
         /\ webhook' \in [Events -> {"absent", "processed", "skipped", "failed"}]
         /\ tx[p].on \in Events
         /\ \A d \in Events : webhook'[d] = IF d = tx[p].on THEN result ELSE webhook[d]
<1>1. /\ Close(p) /\ tx[p].on \in Events
      /\ \A q \in Workers : tx[q].op \in WebhookOps /\ tx[q].on = tx[p].on => q = p
  BY DEF CommitWebhook, IInv, TxTarget, WebhookLocked
<1>2. /\ tx' \in [Workers -> Tx] /\ TxTarget' /\ Flushed'
      /\ \A q \in Workers : tx'[q] = IF q = p THEN NoTx ELSE tx[q]
  BY <1>1, CloseTx
<1>3. /\ webhook' \in [Events -> {"absent", "processed", "skipped", "failed"}]
      /\ \A d \in Events : webhook'[d] = IF d = tx[p].on THEN result ELSE webhook[d]
  BY <1>1 DEF CommitWebhook, IInv, TypeOK
<1>4. NoTx.op \notin WebhookOps BY DEF NoTx, WebhookOps, FreshOps, FlushedOps
<1>5. WebhookLocked' BY <1>1, <1>2, <1>3, <1>4 DEF IInv, WebhookLocked, TxTarget
<1> QED BY <1>1, <1>2, <1>3, <1>5

(* What the UPDATE of a legal transition writes. *)
LEMMA TransitionWritten ==
  ASSUME IInv, NEW p \in Workers, tx[p].op \in WebhookOps,
         CanTransition(tx[p].seen.status, Target(tx[p].on)), WriteTransition(p)
  PROVE  /\ sub' \in [Subs -> Row]
         /\ PastDueHasDeadline'
         /\ \A t \in Subs : sub[t].status # "none" => sub'[t].status # "none"
         /\ \A t \in Subs : sub'[t].status = "unpaid" => sub[t].status = "unpaid"
<1> DEFINE e == tx[p].on
           s == EventSub[e]
           new == Transitioned(s, e, tx[p].seen)
<1>1. s \in Subs /\ sub[s].status # "none" /\ sub[s] \in Row /\ sub \in [Subs -> Row]
  BY DEF IInv, TxTarget, Exists, TypeOK, CanTransition, Statuses
<1>2. sub' = [sub EXCEPT ![s] = new] BY DEF WriteTransition
<1>3. /\ new \in Row /\ new.status \in {"active", "past_due"}
      /\ new.status = "past_due" => new.entered # "null"
  <2> HIDE DEF e, s
  <2>1. CASE EventType[e] = "invoice.paid" BY <1>1, <2>1 DEF Transitioned, Row, Columns, Statuses
  <2>2. CASE EventType[e] # "invoice.paid" BY <1>1, <2>2 DEF Transitioned, Row, Columns, Statuses
  <2> QED BY <2>1, <2>2
<1> HIDE DEF new, s
<1>4. sub' \in [Subs -> Row] /\ \A t \in Subs : sub'[t] = IF t = s THEN new ELSE sub[t]
  BY <1>1, <1>2, <1>3
<1> QED BY <1>3, <1>4 DEF IInv, PastDueHasDeadline

LEMMA RejectWebhookIInv == ASSUME IInv, NEW p \in Workers, RejectWebhook(p) PROVE IInv'
<1> DEFINE e == tx[p].on
<1>1. PICK result \in {"skipped", "failed"} :
        CommitWebhook(p, result) /\ (result = "skipped" => EventType[e] = "other")
  BY DEF RejectWebhook
<1>2. UNCHANGED <<sub, ledger, outbox, campaigns>> /\ tx[p].op \in WebhookOps
  BY DEF RejectWebhook, WebhookOps
<1>3. \A s : HasCampaign(s) => HasCampaign(s)' BY <1>2 DEF HasCampaign
<1>4. /\ tx' \in [Workers -> Tx] /\ TxTarget' /\ WebhookLocked' /\ Flushed' /\ e \in Events
      /\ webhook' \in [Events -> {"absent", "processed", "skipped", "failed"}]
      /\ \A d \in Events : webhook'[d] = IF d = e THEN result ELSE webhook[d]
  BY <1>1, <1>2, <1>3, WebhookCloses
<1>5. webhook[e] \notin {"processed", "skipped"} BY <1>2 DEF IInv, WebhookLocked
<1> HIDE DEF e
<1>6. TypeOK' BY <1>2, <1>4 DEF IInv, TypeOK
<1>7. EntriesPosted' /\ PastDueHasDeadline' /\ PlanChangeAccounted' /\ CampaignOf'
  BY <1>2 DEF IInv, EntriesPosted, PastDueHasDeadline, PlanChangeAccounted, PlanChangeKnown, CampaignOf
<1>8. WebhookEffects'
  BY <1>1, <1>2, <1>3, <1>4, <1>5, EffectsSplit DEF IInv, WebhookEffects
<1>9. UnpaidEffects' BY <1>2, EffectsSplit DEF IInv, UnpaidEffects
<1> QED BY <1>4, <1>6, <1>7, <1>8, <1>9, EffectsSplitPrime DEF IInv

LEMMA HandlePaidIInv == ASSUME IInv, NEW p \in Workers, HandlePaid(p) PROVE IInv'
<1> DEFINE e == tx[p].on
           paid == <<"invoice_paid", e>>
<1>1. /\ tx[p].op \in WebhookOps /\ EventType[e] = "invoice.paid"
      /\ CanTransition(tx[p].seen.status, Target(e)) /\ WriteTransition(p)
      /\ CommitWebhook(p, "processed") /\ campaigns' = campaigns
  BY DEF HandlePaid, HandlerTransitions, WebhookOps
<1>2. /\ sub' \in [Subs -> Row] /\ PastDueHasDeadline'
      /\ \A t \in Subs : sub[t].status # "none" => sub'[t].status # "none"
      /\ \A t \in Subs : sub'[t].status = "unpaid" => sub[t].status = "unpaid"
  BY <1>1, TransitionWritten
<1>3. \A s : HasCampaign(s) => HasCampaign(s)' BY <1>1 DEF HasCampaign
<1>4. /\ tx' \in [Workers -> Tx] /\ TxTarget' /\ WebhookLocked' /\ Flushed' /\ e \in Events
      /\ webhook' \in [Events -> {"absent", "processed", "skipped", "failed"}]
      /\ \A d \in Events : webhook'[d] = IF d = e THEN "processed" ELSE webhook[d]
  BY <1>1, <1>2, <1>3, WebhookCloses
<1>5. webhook[e] \notin {"processed", "skipped"} BY <1>1 DEF IInv, WebhookLocked
<1>6. paid \notin ledger BY <1>4, <1>5, EffectsSplit DEF IInv, WebhookEffects
<1>7. /\ ledger' = ledger \cup {paid}
      /\ outbox' = outbox \cup {<<"activated", e>>, <<"ledger.entry_posted", paid>>}
  BY <1>6 DEF HandlePaid, LedgerPost, PostedEvent
<1> HIDE DEF e
<1>8. TypeOK' BY <1>1, <1>2, <1>4 DEF IInv, TypeOK
<1>9. EntriesPosted' /\ CampaignOf' BY <1>1, <1>7 DEF IInv, EntriesPosted, CampaignOf
<1>10. WebhookEffects'
  BY <1>1, <1>3, <1>4, <1>5, <1>7, EffectsSplit DEF IInv, WebhookEffects
<1>11. UnpaidEffects' BY <1>2, <1>7, EffectsSplit DEF IInv, UnpaidEffects
<1>12. PlanChangeAccounted' BY <1>7 DEF IInv, PlanChangeAccounted, PlanChangeKnown
<1> QED BY <1>2, <1>4, <1>8, <1>9, <1>10, <1>11, <1>12, EffectsSplitPrime DEF IInv

LEMMA GraceOverflowsIInv == ASSUME IInv, NEW p \in Workers, GraceOverflows(p) PROVE IInv'
<1> DEFINE e == tx[p].on
<1>1. /\ tx[p].op \in WebhookOps /\ EventType[e] = "invoice.payment_failed"
      /\ CanTransition(tx[p].seen.status, Target(e)) /\ WriteTransition(p)
      /\ CommitWebhook(p, "failed") /\ UNCHANGED <<ledger, outbox, campaigns>>
  BY DEF GraceOverflows, HandlerTransitions, WebhookOps
<1>2. /\ sub' \in [Subs -> Row] /\ PastDueHasDeadline'
      /\ \A t \in Subs : sub[t].status # "none" => sub'[t].status # "none"
      /\ \A t \in Subs : sub'[t].status = "unpaid" => sub[t].status = "unpaid"
  BY <1>1, TransitionWritten
<1>3. \A s : HasCampaign(s) => HasCampaign(s)' BY <1>1 DEF HasCampaign
<1>4. /\ tx' \in [Workers -> Tx] /\ TxTarget' /\ WebhookLocked' /\ Flushed' /\ e \in Events
      /\ webhook' \in [Events -> {"absent", "processed", "skipped", "failed"}]
      /\ \A d \in Events : webhook'[d] = IF d = e THEN "failed" ELSE webhook[d]
  BY <1>1, <1>2, <1>3, WebhookCloses
<1>5. webhook[e] \notin {"processed", "skipped"} BY <1>1 DEF IInv, WebhookLocked
<1> HIDE DEF e
<1>6. TypeOK' BY <1>1, <1>2, <1>4 DEF IInv, TypeOK
<1>7. EntriesPosted' /\ CampaignOf' /\ PlanChangeAccounted'
  BY <1>1 DEF IInv, EntriesPosted, CampaignOf, PlanChangeAccounted, PlanChangeKnown
<1>8. WebhookEffects' BY <1>1, <1>3, <1>4, <1>5, EffectsSplit DEF IInv, WebhookEffects
<1>9. UnpaidEffects' BY <1>1, <1>2, EffectsSplit DEF IInv, UnpaidEffects
<1> QED BY <1>2, <1>4, <1>6, <1>7, <1>8, <1>9, EffectsSplitPrime DEF IInv

(* The commit of a failed payment's events, beside a campaign. *)
LEMMA CommitPaymentFailedIInv ==
  ASSUME IInv, NEW p \in Workers, NEW e, e = tx[p].on, NEW result \in {"processed", "failed"},
         CommitPaymentFailed(p, result), tx[p].op \in WebhookOps,
         EventType[e] = "invoice.payment_failed",
         CanTransition(tx[p].seen.status, "past_due"),
         campaigns' \subseteq [sub : Subs, key : Events, status : {"active", "paused", "ended"}],
         CampaignOf', \A s : HasCampaign(s) => HasCampaign(s)',
         DunningEnabled => HasCampaign(EventSub[e])'
  PROVE  IInv'
<1>1. CanTransition(tx[p].seen.status, Target(tx[p].on)) BY DEF Target
<1>2. /\ sub' \in [Subs -> Row] /\ PastDueHasDeadline'
      /\ \A t \in Subs : sub[t].status # "none" => sub'[t].status # "none"
      /\ \A t \in Subs : sub'[t].status = "unpaid" => sub[t].status = "unpaid"
  BY <1>1, TransitionWritten DEF CommitPaymentFailed
<1>3. /\ tx' \in [Workers -> Tx] /\ TxTarget' /\ WebhookLocked' /\ Flushed' /\ e \in Events
      /\ webhook' \in [Events -> {"absent", "processed", "skipped", "failed"}]
      /\ \A d \in Events : webhook'[d] = IF d = e THEN result ELSE webhook[d]
  BY <1>2, WebhookCloses DEF CommitPaymentFailed
<1>4. webhook[e] \notin {"processed", "skipped"} BY DEF IInv, WebhookLocked
<1>5. /\ ledger' = ledger
      /\ outbox' = outbox \cup {<<"payment_failed", e>>, <<"past_due", e>>}
  BY DEF CommitPaymentFailed
<1>6. TypeOK' BY <1>2, <1>3 DEF TypeOK
<1>7. EntriesPosted' BY <1>5 DEF IInv, EntriesPosted
<1>8. WebhookEffects' BY <1>3, <1>4, <1>5, EffectsSplit DEF IInv, WebhookEffects
<1>9. UnpaidEffects' BY <1>2, <1>5, EffectsSplit DEF IInv, UnpaidEffects
<1>10. PlanChangeAccounted' BY <1>5 DEF IInv, PlanChangeAccounted, PlanChangeKnown
<1> QED BY <1>2, <1>3, <1>6, <1>7, <1>8, <1>9, <1>10, EffectsSplitPrime DEF IInv

(* A handler of a failed payment goes on to its next look at the campaigns. *)
LEMMA FlushedStepIInv ==
  ASSUME IInv, NEW p \in Workers, tx[p].op \in WebhookOps, NEW op \in FlushedOps,
         tx' = [tx EXCEPT ![p].op = op],
         UNCHANGED <<sub, webhook, ledger, outbox, campaigns, requests>>,
         EventType[tx[p].on] = "invoice.payment_failed",
         CanTransition(tx[p].seen.status, "past_due"),
         op = "refused" => HasCampaign(EventSub[tx[p].on])
  PROVE  IInv'
<1> DEFINE t == [tx[p] EXCEPT !.op = op]
<1>1. tx \in [Workers -> Tx] /\ tx[p] \in Tx BY DEF IInv, TypeOK
<1>2. /\ t \in Tx /\ t.op = op /\ t.on = tx[p].on /\ t.seen = tx[p].seen /\ op \in WebhookOps
      /\ t.op \notin {"cancel", "cancel_at_end", "change_plan"}
  BY <1>1 DEF Tx, WebhookOps, FlushedOps
<1> HIDE DEF t
<1>3. tx' = [tx EXCEPT ![p] = t] BY DEF t
<1>4. \A q \in Workers : tx'[q] = IF q = p THEN t ELSE tx[q] BY <1>1, <1>3
<1>5. TypeOK' BY <1>1, <1>2, <1>3 DEF IInv, TypeOK
<1>6. TxTarget' BY <1>2, <1>4 DEF IInv, TxTarget, Exists
<1>7. WebhookLocked' BY <1>2, <1>4 DEF IInv, WebhookLocked
<1>8. CampaignOf' /\ PastDueHasDeadline' BY DEF IInv, CampaignOf, PastDueHasDeadline
<1>9. Flushed' BY <1>2, <1>4 DEF IInv, Flushed, HasCampaign
<1> QED BY <1>5, <1>6, <1>7, <1>8, <1>9, QuietStep DEF HasCampaign

LEMMA StartCampaignIInv == ASSUME IInv, NEW p \in Workers, StartCampaign(p) PROVE IInv'
<1> DEFINE e == tx[p].on
           found == ActiveCampaign(EventSub[e]) \/ \E c \in campaigns : c.key = e
<1>1. /\ tx[p].op \in WebhookOps /\ EventType[e] = "invoice.payment_failed"
      /\ CanTransition(tx[p].seen.status, "past_due")
  BY DEF StartCampaign, HandlerTransitions, WebhookOps, Target
<1>2. CASE (~DunningEnabled \/ found) /\ CommitPaymentFailed(p, "processed") /\ UNCHANGED campaigns
  <2>1. found => HasCampaign(EventSub[e])
    BY DEF HasCampaign, ActiveCampaign, IInv, CampaignOf
  <2>2. \A s : HasCampaign(s) <=> HasCampaign(s)' BY <1>2 DEF HasCampaign
  <2>3. CampaignOf'
        /\ campaigns' \subseteq [sub : Subs, key : Events, status : {"active", "paused", "ended"}]
    BY <1>2 DEF IInv, TypeOK, CampaignOf
  <2>4. PICK d : d = e OBVIOUS
  <2>5. DunningEnabled => HasCampaign(EventSub[d]) BY <1>2, <2>1, <2>4, DunningAssumption
  <2>6. DunningEnabled => HasCampaign(EventSub[d])' BY <2>2, <2>5
  <2> QED BY <1>1, <1>2, <2>2, <2>3, <2>4, <2>6, CommitPaymentFailedIInv
<1>3. CASE /\ tx' = [tx EXCEPT ![p].op = "starting"]
           /\ UNCHANGED <<sub, webhook, ledger, outbox, campaigns, requests>>
  BY <1>1, <1>3, FlushedStepIInv DEF FlushedOps
<1> QED BY <1>2, <1>3 DEF StartCampaign

LEMMA InsertCampaignIInv == ASSUME IInv, NEW p \in Workers, InsertCampaign(p) PROVE IInv'
<1>1. PICK e : e = tx[p].on OBVIOUS
<1> DEFINE c == [sub |-> EventSub[e], key |-> e, status |-> "active"]
<1>2. /\ tx[p].op \in WebhookOps /\ EventType[e] = "invoice.payment_failed"
      /\ CanTransition(tx[p].seen.status, "past_due")
  BY <1>1 DEF InsertCampaign, IInv, Flushed, WebhookOps, FlushedOps
<1>3. CASE campaigns' = campaigns \cup {c} /\ CommitPaymentFailed(p, "processed")
  <2>1. e \in Events /\ EventSub[e] \in Subs
    BY <1>1, <1>2 DEF IInv, TxTarget, Exists, CanTransition, Statuses
  <2>2. /\ c \in [sub : Subs, key : Events, status : {"active", "paused", "ended"}]
        /\ c.sub = EventSub[e] /\ c.key = e
    BY <2>1
  <2> HIDE DEF c
  <2>3. (\A s : HasCampaign(s) => HasCampaign(s)') /\ HasCampaign(EventSub[e])'
    BY <1>3, <2>2 DEF HasCampaign
  <2>4. CampaignOf'
        /\ campaigns' \subseteq [sub : Subs, key : Events, status : {"active", "paused", "ended"}]
    BY <1>3, <2>2 DEF IInv, TypeOK, CampaignOf
  <2> QED BY <1>1, <1>2, <1>3, <2>3, <2>4, CommitPaymentFailedIInv
<1>4. CASE /\ ActiveCampaign(EventSub[tx[p].on])
           /\ tx' = [tx EXCEPT ![p].op = "refused"]
           /\ UNCHANGED <<sub, webhook, ledger, outbox, campaigns, requests>>
  <2>1. HasCampaign(EventSub[tx[p].on]) BY <1>4 DEF ActiveCampaign, HasCampaign
  <2> QED BY <1>1, <1>2, <1>4, <2>1, FlushedStepIInv DEF FlushedOps
<1> QED BY <1>1, <1>3, <1>4 DEF InsertCampaign

LEMMA RequeryCampaignIInv == ASSUME IInv, NEW p \in Workers, RequeryCampaign(p) PROVE IInv'
<1>1. PICK e : e = tx[p].on OBVIOUS
<1>2. /\ tx[p].op \in WebhookOps /\ EventType[e] = "invoice.payment_failed"
      /\ CanTransition(tx[p].seen.status, "past_due") /\ HasCampaign(EventSub[e])
      /\ campaigns' = campaigns
  BY <1>1 DEF RequeryCampaign, IInv, Flushed, WebhookOps, FlushedOps
<1>3. PICK result \in {"processed", "failed"} : CommitPaymentFailed(p, result)
  BY DEF RequeryCampaign
<1>4. (\A s : HasCampaign(s) => HasCampaign(s)') /\ HasCampaign(EventSub[e])'
  BY <1>2 DEF HasCampaign
<1>5. CampaignOf'
      /\ campaigns' \subseteq [sub : Subs, key : Events, status : {"active", "paused", "ended"}]
  BY <1>2 DEF IInv, TypeOK, CampaignOf
<1> QED BY <1>1, <1>2, <1>3, <1>4, <1>5, CommitPaymentFailedIInv

-----------------------------------------------------------------------------

LEMMA CommitCancelIInv == ASSUME IInv, NEW p \in Workers, CommitCancel(p) PROVE IInv'
<1> DEFINE s == tx[p].on
<1>0. TypeOK BY DEF IInv
<1>1. Close(p) /\ UNCHANGED <<webhook, ledger, campaigns>> BY DEF CommitCancel
<1>2. s \in Subs /\ sub[s].status # "none" BY DEF CommitCancel, IInv, TxTarget, Exists
<1>3. outbox' = outbox \/ outbox' = outbox \cup {<<"canceled", s>>} BY DEF CommitCancel
<1>4. /\ sub' \in [Subs -> Row]
      /\ \A t \in Subs : sub'[t].status \in {"unpaid", "past_due"} =>
                            sub'[t].status = sub[t].status /\ sub'[t].entered = sub[t].entered
      /\ \A t \in Subs : sub[t].status # "none" => sub'[t].status # "none"
  <2> DEFINE seen == tx[p].seen
  <2>1. sub \in [Subs -> Row] /\ sub[s] \in Row /\ s \in Subs /\ sub[s].status # "none"
    BY <1>0, <1>2 DEF TypeOK
  <2>2. \/ sub' = sub
        \/ sub' = [sub EXCEPT ![s].atEnd = IF seen.atEnd THEN @ ELSE TRUE]
        \/ sub' = [sub EXCEPT ![s].status = "canceled", ![s].atEnd = IF seen.atEnd THEN FALSE ELSE @]
    BY DEF CommitCancel
  <2> HIDE DEF s, seen
  <2>3. CASE sub' = sub BY <2>1, <2>3
  <2>4. CASE sub' = [sub EXCEPT ![s].atEnd = IF seen.atEnd THEN @ ELSE TRUE]
    BY <2>1, <2>4 DEF Row, Columns
  <2>5. CASE sub' = [sub EXCEPT ![s].status = "canceled", ![s].atEnd = IF seen.atEnd THEN FALSE ELSE @]
    BY <2>1, <2>5 DEF Row, Columns, Statuses
  <2> QED BY <2>2, <2>3, <2>4, <2>5
<1>5. TypeOK' /\ TxTarget' /\ WebhookLocked' /\ CampaignOf' /\ Flushed'
  BY <1>0, <1>1, <1>4, CloseTx DEF TypeOK, HasCampaign, IInv, CampaignOf
<1>6. PastDueHasDeadline' BY <1>4 DEF IInv, PastDueHasDeadline
<1> HIDE DEF s
<1>7. outbox \subseteq outbox' /\ \A m \in outbox' \ outbox : m = <<"canceled", s>> BY <1>3
<1>8. EntriesPosted' BY <1>1, <1>7 DEF IInv, EntriesPosted
<1>9. WebhookEffects' BY <1>1, <1>7, EffectsSplit DEF IInv, WebhookEffects, HasCampaign
<1>10. UnpaidEffects' BY <1>1, <1>4, <1>7, EffectsSplit DEF IInv, UnpaidEffects
<1>11. PlanChangeAccounted' BY <1>1, <1>7 DEF IInv, PlanChangeAccounted, PlanChangeKnown
<1> QED BY <1>5, <1>6, <1>8, <1>9, <1>10, <1>11, EffectsSplitPrime DEF IInv

(* What a plan change adds to the ledger. *)
LEMMA ProrationsType ==
  ASSUME NEW k, NEW old \in Plans, NEW new \in Plans
  PROVE  /\ \A e \in Prorations(k, old, new) :
              e = <<"proration_debit", k>> \/ e = <<"proration_credit", k>>
         /\ PlanPrice[new] > PlanPrice[old]
              => <<"proration_debit", k>> \in Prorations(k, old, new)
         /\ PlanPrice[new] < PlanPrice[old]
              => <<"proration_credit", k>> \in Prorations(k, old, new)
<1>1. PlanPrice[old] \in Nat /\ PlanPrice[new] \in Nat BY PlanAssumption DEF Plans
<1> QED BY <1>1 DEF Prorations

LEMMA CommitPlanChangeIInv == ASSUME IInv, NEW p \in Workers, CommitPlanChange(p) PROVE IInv'
<1> DEFINE s == tx[p].on
           k == tx[p].key
           old == tx[p].seen.plan
           new == tx[p].plan
           L == Prorations(k, old, new)
           changed == <<"plan_changed", k, old, new>>
<1>0. TypeOK BY DEF IInv
<1>1. /\ Close(p) /\ UNCHANGED <<webhook, campaigns>>
      /\ s \in Subs /\ new \in Plans /\ old \in Plans
  BY DEF CommitPlanChange, IInv, TxTarget, Exists
<1>2. /\ ledger' = ledger \cup L
      /\ sub' = [sub EXCEPT ![s].plan = new]
      /\ outbox' = outbox \cup PlanEvents(k, old, new) \cup UNION {PostedEvent(e) : e \in L}
  BY DEF CommitPlanChange
<1>3. \A e \in L : e = <<"proration_debit", k>> \/ e = <<"proration_credit", k>>
  BY <1>1, ProrationsType
<1>4. \A m \in outbox' \ outbox : \/ m = changed
                                 \/ \E e \in L : m = <<"ledger.entry_posted", e>>
  BY <1>2 DEF PlanEvents, PostedEvent
<1>5. \A e \in L : e \in ledger \/ <<"ledger.entry_posted", e>> \in outbox'
  BY <1>2 DEF PostedEvent
<1>6. \A m \in outbox' : m[1] = "plan_changed" => m \in outbox \/ m = changed BY <1>4
<1>7. /\ PlanPrice[new] > PlanPrice[old] => <<"proration_debit", k>> \in L
      /\ PlanPrice[new] < PlanPrice[old] => <<"proration_credit", k>> \in L
  BY <1>1, ProrationsType
<1>8. changed[1] = "plan_changed" /\ changed[2] = k /\ changed[3] = old /\ changed[4] = new
  OBVIOUS
<1>9. outbox \subseteq outbox' /\ \E m \in outbox' : m[1] = "plan_changed" /\ m[2] = k
  <2>1. CASE PlanChangeKnown(k) BY <1>2, <2>1 DEF PlanChangeKnown
  <2>2. CASE ~PlanChangeKnown(k)
    <3>1. changed \in outbox' BY <1>2, <2>2 DEF PlanEvents
    <3> HIDE DEF changed, k
    <3> QED BY <1>2, <1>8, <3>1
  <2> QED BY <2>1, <2>2
<1>10. /\ sub' \in [Subs -> Row]
       /\ \A t \in Subs : sub'[t].status = sub[t].status /\ sub'[t].entered = sub[t].entered
  BY <1>0, <1>1, <1>2 DEF TypeOK, Row, Columns
<1>11. TypeOK' /\ TxTarget' /\ WebhookLocked' /\ CampaignOf' /\ Flushed'
  BY <1>0, <1>1, <1>10, CloseTx DEF TypeOK, HasCampaign, IInv, CampaignOf
<1> HIDE DEF s, k, old, new, L
<1>12. PastDueHasDeadline' BY <1>10 DEF IInv, PastDueHasDeadline
<1>13. EntriesPosted' BY <1>2, <1>5, <1>9 DEF IInv, EntriesPosted
<1>14. WebhookEffects'
  <2>1. \A e \in Events : <<"invoice_paid", e>> \notin L BY <1>3
  <2>2. \A e \in Events : \A m \in outbox' \ outbox :
          /\ m # <<"activated", e>> /\ m # <<"payment_failed", e>> /\ m # <<"past_due", e>>
          /\ m # <<"ledger.entry_posted", <<"invoice_paid", e>>>>
    BY <1>4, <2>1
  <2> QED BY <1>1, <1>2, <1>9, <2>1, <2>2, EffectsSplit DEF IInv, WebhookEffects, HasCampaign
<1>15. UnpaidEffects' BY <1>2, <1>9, <1>10, EffectsSplit DEF IInv, UnpaidEffects
<1>16. PlanChangeAccounted'
  <2>1. ASSUME NEW m \in outbox', m[1] = "plan_changed"
        PROVE /\ PlanPrice[m[4]] > PlanPrice[m[3]] => <<"proration_debit", m[2]>> \in ledger'
              /\ PlanPrice[m[4]] < PlanPrice[m[3]] => <<"proration_credit", m[2]>> \in ledger'
    <3>1. CASE m \in outbox BY <1>2, <2>1, <3>1 DEF IInv, PlanChangeAccounted
    <3>2. CASE m = changed
      <4>1. m[2] = k /\ m[3] = old /\ m[4] = new BY <1>8, <3>2
      <4> QED BY <1>2, <1>7, <4>1
    <3> QED BY <1>6, <2>1, <3>1, <3>2
  <2>2. ASSUME NEW e \in ledger', e[1] \in {"proration_debit", "proration_credit"}
        PROVE  PlanChangeKnown(e[2])' /\ <<"ledger.entry_posted", e>> \in outbox'
    <3>1. <<"ledger.entry_posted", e>> \in outbox' BY <1>13 DEF EntriesPosted
    <3>2. CASE e \in ledger
      BY <1>9, <2>2, <3>1, <3>2 DEF IInv, PlanChangeAccounted, PlanChangeKnown
    <3>3. CASE e \in L
      <4>1. e[2] = k BY <1>3, <3>3
      <4> QED BY <1>9, <3>1, <4>1 DEF PlanChangeKnown
    <3> QED BY <1>2, <3>2, <3>3
  <2> QED BY <2>1, <2>2 DEF PlanChangeAccounted
<1> QED BY <1>11, <1>12, <1>13, <1>14, <1>15, <1>16, EffectsSplitPrime DEF IInv

LEMMA GraceElapsesIInv == ASSUME IInv, NEW s \in Subs, GraceElapses(s) PROVE IInv'
<1>0. TypeOK BY DEF IInv
<1>1. /\ UNCHANGED <<webhook, ledger, outbox, campaigns, tx, requests>>
      /\ sub' = [sub EXCEPT ![s].entered = "expired"]
  BY DEF GraceElapses
<1>2. /\ sub' \in [Subs -> Row]
      /\ \A t \in Subs : /\ sub'[t].status = sub[t].status
                          /\ sub'[t].entered \in {sub[t].entered, "expired"}
  BY <1>0, <1>1 DEF TypeOK, Row, Columns
<1>3. TypeOK' /\ TxTarget' /\ WebhookLocked' /\ CampaignOf' /\ Flushed'
  BY <1>0, <1>1, <1>2 DEF IInv, TypeOK, TxTarget, Exists, WebhookLocked, CampaignOf, Flushed, HasCampaign
<1>4. PastDueHasDeadline' BY <1>2 DEF IInv, PastDueHasDeadline
<1> QED BY <1>1, <1>2, <1>3, <1>4, QuietStep DEF HasCampaign

LEMMA EnforceGraceExpiryIInv ==
  ASSUME IInv, NEW S \in SUBSET Subs, EnforceGraceExpiry(S) PROVE IInv'
<1>0. TypeOK BY DEF IInv
<1>1. /\ UNCHANGED <<webhook, campaigns, tx, requests>>
      /\ sub' = [s \in Subs |-> IF s \in S THEN Revoked(sub[s]) ELSE sub[s]]
      /\ ledger' = ledger \cup {<<"access_revoked_marker", s>> : s \in S}
      /\ outbox' = outbox \cup {<<"access_revoked", s>> : s \in S}
                          \cup UNION {PostedEvent(<<"access_revoked_marker", s>>) : s \in S}
  BY DEF EnforceGraceExpiry
<1>2. \A s \in S : Revoked(sub[s]) \in Row /\ Revoked(sub[s]).status \in {"canceled", "unpaid"}
  <2> TAKE s \in S
  <2>1. sub[s] \in Row /\ sub[s].status = "past_due"
    BY <1>0 DEF TypeOK, EnforceGraceExpiry, Expired
  <2> QED BY <2>1 DEF Row, Columns, Revoked, Statuses
<1>3. /\ sub' \in [Subs -> Row]
      /\ \A s \in Subs : sub[s].status # "none" => sub'[s].status # "none"
  BY <1>0, <1>1, <1>2 DEF TypeOK
<1>4. TypeOK' /\ TxTarget' /\ WebhookLocked' /\ CampaignOf' /\ Flushed'
  BY <1>0, <1>1, <1>3 DEF IInv, TypeOK, TxTarget, Exists, WebhookLocked, CampaignOf, Flushed, HasCampaign
<1>5. PastDueHasDeadline' BY <1>1, <1>2 DEF IInv, PastDueHasDeadline
<1>6. /\ outbox \subseteq outbox'
      /\ \A m \in outbox' \ outbox : \E s \in S :
           m = <<"access_revoked", s>> \/ m = <<"ledger.entry_posted", <<"access_revoked_marker", s>>>>
  BY <1>1 DEF PostedEvent
<1>7. EntriesPosted'
  <2> SUFFICES ASSUME NEW e \in ledger' PROVE <<"ledger.entry_posted", e>> \in outbox'
    BY DEF EntriesPosted
  <2>1. CASE e \in ledger BY <1>6, <2>1 DEF IInv, EntriesPosted
  <2>2. CASE e \notin ledger
    <3>1. PICK s \in S : e = <<"access_revoked_marker", s>> BY <1>1, <2>2
    <3>2. <<"ledger.entry_posted", e>> \in PostedEvent(e) BY <2>2 DEF PostedEvent
    <3> QED BY <1>1, <3>1, <3>2
  <2> QED BY <2>1, <2>2
<1>8. WebhookEffects'
  <2>1. \A e \in Events : <<"invoice_paid", e>> \in ledger' <=> <<"invoice_paid", e>> \in ledger
    BY <1>1
  <2>2. \A e \in Events : \A m \in outbox' \ outbox :
          /\ m # <<"activated", e>> /\ m # <<"payment_failed", e>> /\ m # <<"past_due", e>>
          /\ m # <<"ledger.entry_posted", <<"invoice_paid", e>>>>
    BY <1>6
  <2> QED BY <1>1, <1>6, <2>1, <2>2, EffectsSplit DEF IInv, WebhookEffects, HasCampaign
<1>9. UnpaidEffects'
  <2> SUFFICES ASSUME NEW s \in Subs, sub'[s].status = "unpaid"
               PROVE  <<"access_revoked_marker", s>> \in ledger' /\ <<"access_revoked", s>> \in outbox'
    BY DEF UnpaidEffects
  <2>1. CASE s \in S BY <1>1, <2>1
  <2>2. CASE s \notin S BY <1>1, <2>2, EffectsSplit DEF IInv, UnpaidEffects
  <2> QED BY <2>1, <2>2
<1>10. PlanChangeAccounted'
  <2>1. \A m \in outbox' : m[1] = "plan_changed" => m \in outbox BY <1>6
  <2>2. \A e \in ledger' : e[1] \in {"proration_debit", "proration_credit"} => e \in ledger
    BY <1>1
  <2>3. \A e : PlanChangeKnown(e) => PlanChangeKnown(e)' BY <1>6 DEF PlanChangeKnown
  <2> QED BY <1>1, <1>6, <2>1, <2>2, <2>3 DEF IInv, PlanChangeAccounted
<1> QED BY <1>4, <1>5, <1>7, <1>8, <1>9, <1>10, EffectsSplitPrime DEF IInv

LEMMA SetCampaignIInv ==
  ASSUME IInv, NEW c \in campaigns, NEW status \in {"active", "paused", "ended"},
         SetCampaign(c, status)
  PROVE  IInv'
<1> DEFINE d == [c EXCEPT !.status = status]
<1>1. UNCHANGED <<sub, webhook, ledger, outbox, tx>> /\ campaigns' = (campaigns \ {c}) \cup {d}
  BY DEF SetCampaign
<1>2. c \in [sub : Subs, key : Events, status : {"active", "paused", "ended"}] BY DEF IInv, TypeOK
<1>3. /\ d \in [sub : Subs, key : Events, status : {"active", "paused", "ended"}]
      /\ d.sub = c.sub /\ d.key = c.key
  BY <1>2
<1> HIDE DEF d
<1>4. \A s : HasCampaign(s) => HasCampaign(s)' BY <1>1, <1>3 DEF HasCampaign
<1>5. TypeOK' /\ TxTarget' /\ WebhookLocked' /\ PastDueHasDeadline'
  BY <1>1, <1>3 DEF IInv, TypeOK, TxTarget, Exists, WebhookLocked, PastDueHasDeadline
<1>6. CampaignOf' BY <1>1, <1>3 DEF IInv, CampaignOf
<1>7. Flushed' BY <1>1, <1>4 DEF IInv, Flushed
<1> QED BY <1>1, <1>4, <1>5, <1>6, <1>7, QuietStep

LEMMA NextIInv == IInv /\ [Next]_vars => IInv'
<1> SUFFICES ASSUME IInv, [Next]_vars PROVE IInv' OBVIOUS
<1>1. CASE UNCHANGED vars BY <1>1, StutterIInv
<1>2. ASSUME NEW p \in Workers,
             \/ \E e \in Events : Ingest(p, e) \/ Replay(p, e)
             \/ \E s \in Subs, op \in {"cancel", "cancel_at_end"} : Cancel(p, s, op)
             \/ \E s \in Subs, k \in PlanKeys, plan \in Plans : ChangePlan(p, s, k, plan)
             \/ RejectWebhook(p) \/ HandlePaid(p) \/ GraceOverflows(p)
             \/ StartCampaign(p) \/ InsertCampaign(p) \/ RequeryCampaign(p)
             \/ CommitCancel(p) \/ CommitPlanChange(p) \/ Abort(p)
      PROVE  IInv'
  BY <1>2, WebhookOpenIInv, CancelIInv, ChangePlanIInv, RejectWebhookIInv, HandlePaidIInv,
     GraceOverflowsIInv, StartCampaignIInv, InsertCampaignIInv, RequeryCampaignIInv,
     CommitCancelIInv, CommitPlanChangeIInv, AbortIInv
<1>3. ASSUME NEW c \in campaigns,
             (\E status \in {"paused", "ended"} : CampaignStops(c, status)) \/ CampaignResumes(c)
      PROVE  IInv'
  BY <1>3, SetCampaignIInv DEF CampaignStops, CampaignResumes
<1> QED BY <1>1, <1>2, <1>3, CreateSubscriptionIInv, GraceElapsesIInv, EnforceGraceExpiryIInv
           DEF Next

(* The inductive invariant holds in every reachable state. *)
THEOREM Invariance == Spec => []IInv
BY InitIInv, NextIInv, PTL DEF Spec

-----------------------------------------------------------------------------

(* A past due subscription has the time its grace is counted from, so that *)
(* enforce_grace_expiry looks at it.                                       *)
THEOREM Deadline == Spec => []PastDueHasDeadline
<1>1. IInv => PastDueHasDeadline BY DEF IInv
<1> QED BY <1>1, Invariance, PTL

(* The effects of a paid invoice are there exactly when its webhook is     *)
(* processed; those of a failed payment come together, with a campaign,    *)
(* and are partial only beside a failed webhook; an unpaid subscription    *)
(* has its marker and both events.                                         *)
THEOREM EffectsWhole == Spec => []EffectsAreWhole
<1>1. IInv => EffectsAreWhole BY DEF IInv
<1> QED BY <1>1, Invariance, PTL

(* A plan change has its proration and no proration is without its event.  *)
THEOREM PlanChangeWhole == Spec => []PlanChangeAccounted
<1>1. IInv => PlanChangeAccounted BY DEF IInv
<1> QED BY <1>1, Invariance, PTL
=============================================================================
