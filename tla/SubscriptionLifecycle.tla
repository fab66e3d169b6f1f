----------------------- MODULE SubscriptionLifecycle -----------------------
(***************************************************************************)
(* The life of a subscription: the API that creates it, changes its plan   *)
(* and cancels it, the payment provider's webhooks that activate it or     *)
(* make it past due, their admin replay, and the hourly job that revokes   *)
(* access when grace ends.                                                 *)
(*                                                                         *)
(* A request is a READ COMMITTED transaction of an API worker.  It reads   *)
(* the subscription row without a lock and writes it later, so it is two   *)
(* steps here: Ingest, Replay, Cancel or ChangePlan takes the snapshot, and *)
(* Commit writes the columns that differ from it.  The UPDATE has no       *)
(* version check.  A webhook row is held FOR UPDATE from the first step    *)
(* on.  The handler of a failed payment has flushed its transition, and    *)
(* so holds the subscription row, when it starts the dunning campaign,     *)
(* which takes steps of its own (StartCampaign, InsertCampaign,            *)
(* RequeryCampaign).  The grace job locks the subscription rows when it    *)
(* reads them, so it is one step.  The entitlement cache bump after a      *)
(* commit is modelled in EntitlementCache.                                 *)
(***************************************************************************)
EXTENDS Integers, FiniteSets

CONSTANTS
  Subs,       \* subscriptions (a subscription stands for its idempotency key)
  Events,     \* provider event ids
  Workers,    \* API workers serving requests
  EventType,  \* event id -> type of the event
  EventSub,   \* event id -> subscription its payload names, or NoSub
  NoSub,      \* a payload without a usable subscription id
  PlanPrice,  \* published plan -> its flat price
  Endless,    \* plans whose grace_period_days no date can hold
  NoPlan,     \* the plan of a subscription that does not exist
  DunningEnabled, \* the setting dunning_enabled
  PlanKeys,   \* idempotency keys of plan changes
  NoWorkOn,   \* the subscription or event of an idle worker
  MaxRequests \* bound: requests after which no new one starts

EventTypes == {"invoice.paid", "invoice.payment_failed", "other"}

ASSUME EventTypeAssumption == EventType \in [Events -> EventTypes]
ASSUME EventSubAssumption == EventSub \in [Events -> Subs \cup {NoSub}]
ASSUME NoSubAssumption == NoSub \notin Subs
ASSUME NoWorkAssumption == NoWorkOn \notin Subs \cup Events \cup PlanKeys
ASSUME PlanAssumption == PlanPrice \in [DOMAIN PlanPrice -> Nat] /\ NoPlan \notin DOMAIN PlanPrice
ASSUME EndlessAssumption == Endless \subseteq DOMAIN PlanPrice
ASSUME DunningAssumption == DunningEnabled \in BOOLEAN
ASSUME MaxRequestsAssumption == MaxRequests \in Nat

VARIABLES
  sub,       \* committed subscription rows
  webhook,   \* committed status of every webhook event row
  ledger,    \* keys of the ledger entries
  outbox,    \* keys of the outbox messages
  campaigns, \* dunning campaigns: subscription, the event that started it, status
  tx,        \* worker -> its open transaction
  requests   \* requests started so far (bounds the model)

vars == <<sub, webhook, ledger, outbox, campaigns, tx, requests>>

-----------------------------------------------------------------------------

Statuses == {"incomplete", "trialing", "active", "past_due", "canceled", "unpaid"}

ALLOWED_TRANSITIONS ==
  [incomplete |-> {"active", "canceled"},
   trialing   |-> {"active", "canceled"},
   active     |-> {"canceled", "past_due"},
   past_due   |-> {"active", "unpaid", "canceled"},
   canceled   |-> {},
   unpaid     |-> {}]

(* transition() raises IllegalTransition when this is false. *)
CanTransition(from, to) == from \in Statuses /\ to \in ALLOWED_TRANSITIONS[from]

(* past_due_entered_at is null, or a time whose grace window is still open *)
(* ("in_grace") or over ("expired").                                       *)
NoRow == [status |-> "none", entered |-> "null", atEnd |-> FALSE, plan |-> NoPlan]

(* An open transaction: the operation, the subscription or webhook it is   *)
(* about, the row it has read, and for a plan change its key and new plan. *)
NoTx == [op |-> "idle", on |-> NoWorkOn, seen |-> NoRow, key |-> NoWorkOn, plan |-> NoPlan]

Plans == DOMAIN PlanPrice

Init ==
  /\ sub = [s \in Subs |-> NoRow]
  /\ webhook = [e \in Events |-> "absent"]
  /\ ledger = {}
  /\ outbox = {}
  /\ campaigns = {}
  /\ tx = [p \in Workers |-> NoTx]
  /\ requests = 0

-----------------------------------------------------------------------------

(* create_subscription: a repeated idempotency key returns the existing    *)
(* row, also when the INSERT loses the race; a trial is announced.         *)
CreateSubscription(s, initial, plan) ==
  /\ requests < MaxRequests
  /\ requests' = requests + 1
  /\ sub' = IF sub[s].status = "none" THEN [sub EXCEPT ![s].status = initial, ![s].plan = plan] ELSE sub
  /\ outbox' = IF sub[s].status = "none" /\ initial = "trialing"
               THEN outbox \cup {<<"trial_started", s>>} ELSE outbox
  /\ UNCHANGED <<webhook, ledger, campaigns, tx>>

(* What an unlocked SELECT of the subscription returns. *)
Snapshot(s) == IF s \in Subs THEN sub[s] ELSE NoRow

Open(p, op, on, s) ==
  /\ tx[p] = NoTx
  /\ requests < MaxRequests
  /\ requests' = requests + 1
  /\ tx' = [tx EXCEPT ![p] = [NoTx EXCEPT !.op = op, !.on = on, !.seen = Snapshot(s)]]
  /\ UNCHANGED <<sub, webhook, ledger, outbox, campaigns>>

(* A webhook's transaction before its handler has written anything, and    *)
(* with its transition and events flushed: about to insert the campaign,   *)
(* or refused by the index of active campaigns.                            *)
FreshOps == {"ingest", "replay"}
FlushedOps == {"starting", "refused"}
WebhookOps == FreshOps \cup FlushedOps

(* The webhook row is locked, or its key inserted, by an open transaction. *)
WebhookHeld(e) == \E p \in Workers : tx[p].op \in WebhookOps /\ tx[p].on = e

(* The subscription row is locked by an UPDATE that is not yet committed:  *)
(* another UPDATE of it waits.                                             *)
RowHeld(s) == \E p \in Workers : tx[p].op \in FlushedOps /\ EventSub[tx[p].on] = s

(* POST of a webhook whose signature verifies.  persist_webhook inserts    *)
(* the row (a concurrent INSERT of the same event waits for us), and       *)
(* process_webhook runs in the same transaction.  For an event that is     *)
(* already there nothing happens.                                          *)
Ingest(p, e) ==
  /\ webhook[e] = "absent"
  /\ ~WebhookHeld(e)
  /\ Open(p, "ingest", e, EventSub[e])

(* Mutant: replay runs every webhook it is given. *)
MutantReplayAny(p, e) ==
  /\ webhook[e] # "absent"
  /\ ~WebhookHeld(e)
  /\ Open(p, "replay", e, EventSub[e])

(* replay_webhook: only a row that did not succeed is run again. *)
Replay(p, e) ==
  /\ webhook[e] \notin {"absent", "processed", "skipped"}
  /\ ~WebhookHeld(e)
  /\ Open(p, "replay", e, EventSub[e])

(* POST cancel, with at_period_end or at once. *)
Cancel(p, s, op) ==
  /\ sub[s].status # "none"
  /\ Open(p, op, s, s)

FORBIDDEN_STATUSES == {"canceled", "unpaid"}

(* _find_plan_changed_outbox: the key is known from its event. *)
PlanChangeKnown(k) == \E m \in outbox : m[1] = "plan_changed" /\ m[2] = k

(* POST change-plan, as far as its reads.  Nothing is changed when the key *)
(* is known, the status forbids it, or the plan is the current one.        *)
ChangePlan(p, s, k, plan) ==
  /\ sub[s].status \notin FORBIDDEN_STATUSES \cup {"none"}
  /\ ~PlanChangeKnown(k)
  /\ sub[s].plan # plan
  /\ tx[p] = NoTx
  /\ requests < MaxRequests
  /\ requests' = requests + 1
  /\ tx' = [tx EXCEPT ![p] = [op |-> "change_plan", on |-> s, seen |-> sub[s], key |-> k, plan |-> plan]]
  /\ UNCHANGED <<sub, webhook, ledger, outbox, campaigns>>

-----------------------------------------------------------------------------

Target(e) == IF EventType[e] = "invoice.paid" THEN "active" ELSE "past_due"

(* Mutant: past_due_entered_at is not set on the way into past_due. *)
MutantTransitioned(s, e, seen) ==
  CASE EventType[e] = "invoice.paid" ->
         [sub[s] EXCEPT !.status = "active",
                        !.entered = IF seen.entered = "null" THEN @ ELSE "null"]
    [] OTHER -> [sub[s] EXCEPT !.status = "past_due"]

(* The UPDATE of _transition_subscription.  Setting past_due_entered_at to *)
(* null writes the column only if the snapshot had a time in it.           *)
Transitioned(s, e, seen) ==
  CASE EventType[e] = "invoice.paid" ->
         [sub[s] EXCEPT !.status = "active",
                        !.entered = IF seen.entered = "null" THEN @ ELSE "null"]
    [] OTHER -> [sub[s] EXCEPT !.status = "past_due", !.entered = "in_grace"]

(* LedgerService.post: the entry and, with it, its ledger.entry_posted     *)
(* event; nothing when the key is there already.                           *)
LedgerPost(key) == ledger' = ledger \cup {key}
PostedEvent(key) == IF key \in ledger THEN {} ELSE {<<"ledger.entry_posted", key>>}

Close(p) == /\ tx' = [tx EXCEPT ![p] = NoTx]
            /\ UNCHANGED requests

(* The end of process_webhook and the commit. *)
CommitWebhook(p, result) ==
  /\ webhook' = [webhook EXCEPT ![tx[p].on] = result]
  /\ Close(p)

(* The type has no handler, or the handler raises before it writes: the    *)
(* subscription is unknown or the transition illegal.  The poison guard    *)
(* turns an exception into a failed webhook.                               *)
RejectWebhook(p) ==
  /\ tx[p].op \in FreshOps
  /\ \/ EventType[tx[p].on] = "other" /\ CommitWebhook(p, "skipped")
     \/ /\ EventType[tx[p].on] # "other"
        /\ ~CanTransition(tx[p].seen.status, Target(tx[p].on))
        /\ CommitWebhook(p, "failed")
  /\ UNCHANGED <<sub, ledger, outbox, campaigns>>

(* A handler's legal transition; the UPDATE waits for the row. *)
HandlerTransitions(p, type) ==
  /\ tx[p].op \in FreshOps
  /\ EventType[tx[p].on] = type
  /\ CanTransition(tx[p].seen.status, Target(tx[p].on))
  /\ ~RowHeld(EventSub[tx[p].on])

WriteTransition(p) ==
  LET s == EventSub[tx[p].on]
  IN sub' = [sub EXCEPT ![s] = Transitioned(s, tx[p].on, tx[p].seen)]

(* _handle_invoice_paid after a legal transition. *)
HandlePaid(p) ==
  /\ HandlerTransitions(p, "invoice.paid")
  /\ WriteTransition(p)
  /\ LET e == tx[p].on
     IN /\ LedgerPost(<<"invoice_paid", e>>)
        /\ outbox' = outbox \cup {<<"activated", e>>} \cup PostedEvent(<<"invoice_paid", e>>)
  /\ CommitWebhook(p, "processed")
  /\ UNCHANGED campaigns

(* _handle_invoice_payment_failed from here on.  compute_grace_until       *)
(* raises for an endless plan, after the transition was flushed and before *)
(* an event is: the poison guard does not roll back, and the transition is *)
(* committed with the failed webhook.                                      *)
GraceOverflows(p) ==
  /\ HandlerTransitions(p, "invoice.payment_failed")
  /\ tx[p].seen.plan \in Endless
  /\ WriteTransition(p)
  /\ CommitWebhook(p, "failed")
  /\ UNCHANGED <<ledger, outbox, campaigns>>

(* The transition and both events of a failed payment are committed.       *)
CommitPaymentFailed(p, result) ==
  /\ WriteTransition(p)
  /\ outbox' = outbox \cup {<<"payment_failed", tx[p].on>>, <<"past_due", tx[p].on>>}
  /\ CommitWebhook(p, result)
  /\ UNCHANGED ledger

ActiveCampaign(s) == \E c \in campaigns : c.sub = s /\ c.status = "active"

(* start_campaign, with dunning enabled: the campaign of this webhook, or  *)
(* an active one of the subscription, is returned as it is; otherwise one  *)
(* is to be inserted.                                                      *)
StartCampaign(p) ==
  /\ HandlerTransitions(p, "invoice.payment_failed")
  /\ tx[p].seen.plan \notin Endless
  /\ LET e == tx[p].on
         found == ActiveCampaign(EventSub[e]) \/ \E c \in campaigns : c.key = e
     IN \/ /\ ~DunningEnabled \/ found
           /\ CommitPaymentFailed(p, "processed")
           /\ UNCHANGED campaigns
        \/ /\ DunningEnabled /\ ~found
           /\ tx' = [tx EXCEPT ![p].op = "starting"]
           /\ UNCHANGED <<sub, webhook, ledger, outbox, campaigns, requests>>

(* The INSERT in its savepoint.  A campaign that an operator has resumed   *)
(* meanwhile holds the partial unique index: IntegrityError.               *)
InsertCampaign(p) ==
  /\ tx[p].op = "starting"
  /\ LET e == tx[p].on
     IN \/ /\ ~ActiveCampaign(EventSub[e])
           /\ campaigns' = campaigns \cup {[sub |-> EventSub[e], key |-> e, status |-> "active"]}
           /\ CommitPaymentFailed(p, "processed")
        \/ /\ ActiveCampaign(EventSub[e])
           /\ tx' = [tx EXCEPT ![p].op = "refused"]
           /\ UNCHANGED <<sub, webhook, ledger, outbox, campaigns, requests>>

(* The look-up after the IntegrityError.  When the winner is not active    *)
(* any more either, the error is raised again, and the poison guard        *)
(* commits the transition and both events with the failed webhook.         *)
RequeryCampaign(p) ==
  /\ tx[p].op = "refused"
  /\ CommitPaymentFailed(p, IF ActiveCampaign(EventSub[tx[p].on]) THEN "processed" ELSE "failed")
  /\ UNCHANGED campaigns

(* cancel_subscription.  at_period_end only sets the flag, whatever the    *)
(* status; an immediate cancel of a snapshot that cannot be canceled is    *)
(* answered with 409.  past_due_entered_at is left alone.                  *)
CommitCancel(p) ==
  /\ LET s == tx[p].on
         seen == tx[p].seen
     IN \/ /\ tx[p].op = "cancel_at_end"
           /\ seen.atEnd \/ ~RowHeld(s)
           /\ sub' = [sub EXCEPT ![s].atEnd = IF seen.atEnd THEN @ ELSE TRUE]
           /\ UNCHANGED outbox
        \/ /\ tx[p].op = "cancel"
           /\ CanTransition(seen.status, "canceled")
           /\ ~RowHeld(s)
           /\ sub' = [sub EXCEPT ![s].status = "canceled",
                                 ![s].atEnd = IF seen.atEnd THEN FALSE ELSE @]
           /\ outbox' = outbox \cup {<<"canceled", s>>}
        \/ /\ tx[p].op = "cancel"
           /\ ~CanTransition(seen.status, "canceled")
           /\ UNCHANGED <<sub, outbox>>
  /\ Close(p)
  /\ UNCHANGED <<webhook, ledger, campaigns>>

(* The plan_changed event; the key's first event stays as it is. *)
PlanEvents(k, old, new) ==
  IF PlanChangeKnown(k) THEN {} ELSE {<<"plan_changed", k, old, new>>}

(* The proration posted for a change from one price to another. *)
Prorations(k, old, new) ==
  CASE PlanPrice[new] > PlanPrice[old] -> {<<"proration_debit", k>>}
    [] PlanPrice[new] < PlanPrice[old] -> {<<"proration_credit", k>>}
    [] OTHER -> {}

(* Mutant: the proration is computed from the row as it is by now, the     *)
(* event from the row as it was read.                                      *)
MutantCommitPlanChange(p) ==
  /\ tx[p].op = "change_plan"
  /\ ~RowHeld(tx[p].on)
  /\ LET k == tx[p].key
         prorations == Prorations(k, sub[tx[p].on].plan, tx[p].plan)
     IN /\ ledger' = ledger \cup prorations
        /\ sub' = [sub EXCEPT ![tx[p].on].plan = tx[p].plan]
        /\ outbox' = outbox \cup PlanEvents(k, tx[p].seen.plan, tx[p].plan)
                            \cup UNION {PostedEvent(e) : e \in prorations}
  /\ Close(p)
  /\ UNCHANGED <<webhook, campaigns>>

(* change_plan from the proration to the commit, from the plan it has read *)
(* whatever the row says by now.                                           *)
CommitPlanChange(p) ==
  /\ tx[p].op = "change_plan"
  /\ ~RowHeld(tx[p].on)
  /\ LET k == tx[p].key
         prorations == Prorations(k, tx[p].seen.plan, tx[p].plan)
     IN /\ ledger' = ledger \cup prorations
        /\ sub' = [sub EXCEPT ![tx[p].on].plan = tx[p].plan]
        /\ outbox' = outbox \cup PlanEvents(k, tx[p].seen.plan, tx[p].plan)
                            \cup UNION {PostedEvent(e) : e \in prorations}
  /\ Close(p)
  /\ UNCHANGED <<webhook, campaigns>>

(* The worker dies or the database aborts the transaction. *)
Abort(p) ==
  /\ tx[p] # NoTx
  /\ Close(p)
  /\ UNCHANGED <<sub, webhook, ledger, outbox, campaigns>>

-----------------------------------------------------------------------------

(* The grace period of a past due subscription runs out. *)
GraceElapses(s) ==
  /\ sub[s].entered = "in_grace"
  /\ sub' = [sub EXCEPT ![s].entered = "expired"]
  /\ UNCHANGED <<webhook, ledger, outbox, campaigns, tx, requests>>

(* Mutant: subscriptions that end with their period are left out. *)
MutantExpired ==
  {s \in Subs : /\ sub[s].status = "past_due" /\ sub[s].entered = "expired"
                /\ sub[s].plan \notin Endless /\ ~sub[s].atEnd}

Expired == {s \in Subs : /\ sub[s].status = "past_due" /\ sub[s].entered = "expired"
                         /\ sub[s].plan \notin Endless}

(* compute_grace_until raises for these, and the job with it.              *)
Poisonous == {s \in Subs : sub[s].status = "past_due" /\ sub[s].plan \in Endless}

(* A transaction that may have written the row, not committed, is open.    *)
MayBeHeld(s) ==
  \E p \in Workers : /\ tx[p] # NoTx
                     /\ s = IF tx[p].op \in WebhookOps THEN EventSub[tx[p].on] ELSE tx[p].on

(* _revoke_expired_subscription. *)
Revoked(row) ==
  [row EXCEPT !.status = IF row.atEnd THEN "canceled" ELSE "unpaid",
              !.entered = "null", !.atEnd = FALSE]

(* enforce_grace_expiry: the expired rows are revoked in one transaction, *)
(* all but those SKIP LOCKED passes over; a poisonous row that is not      *)
(* passed over makes the whole run raise.                                  *)
EnforceGraceExpiry(S) ==
  /\ S # {} /\ S \subseteq Expired
  /\ \A s \in S : ~RowHeld(s)
  /\ \A s \in (Expired \ S) \cup Poisonous : MayBeHeld(s)
  /\ sub' = [s \in Subs |-> IF s \in S THEN Revoked(sub[s]) ELSE sub[s]]
  /\ ledger' = ledger \cup {<<"access_revoked_marker", s>> : s \in S}
  /\ outbox' = outbox \cup {<<"access_revoked", s>> : s \in S}
                      \cup UNION {PostedEvent(<<"access_revoked_marker", s>>) : s \in S}
  /\ UNCHANGED <<webhook, campaigns, tx, requests>>

(* A campaign is paused, or completed or exhausted, and a paused one is    *)
(* resumed unless another is active (see Dunning).                         *)
SetCampaign(c, status) ==
  /\ campaigns' = (campaigns \ {c}) \cup {[c EXCEPT !.status = status]}
  /\ UNCHANGED <<sub, webhook, ledger, outbox, tx, requests>>

CampaignStops(c, status) == c.status = "active" /\ SetCampaign(c, status)
CampaignResumes(c) == c.status = "paused" /\ ~ActiveCampaign(c.sub) /\ SetCampaign(c, "active")

-----------------------------------------------------------------------------

Next ==
  \/ \E s \in Subs, initial \in {"trialing", "incomplete"}, plan \in Plans :
       CreateSubscription(s, initial, plan)
  \/ \E p \in Workers : \/ \E e \in Events : Ingest(p, e) \/ Replay(p, e)
                        \/ \E s \in Subs, op \in {"cancel", "cancel_at_end"} : Cancel(p, s, op)
                        \/ RejectWebhook(p) \/ HandlePaid(p) \/ GraceOverflows(p)
                        \/ StartCampaign(p) \/ InsertCampaign(p) \/ RequeryCampaign(p)
                        \/ \E s \in Subs, k \in PlanKeys, plan \in Plans : ChangePlan(p, s, k, plan)
                        \/ CommitCancel(p)
                        \/ CommitPlanChange(p)
                        \/ Abort(p)
  \/ \E s \in Subs : GraceElapses(s)
  \/ \E S \in SUBSET Subs : EnforceGraceExpiry(S)
  \/ \E c \in campaigns : \/ \E status \in {"paused", "ended"} : CampaignStops(c, status)
                          \/ CampaignResumes(c)

Spec == Init /\ [][Next]_vars

(* Time passes, and the beat schedule runs the grace job again and again;  *)
(* SKIP LOCKED never skips a row for ever, because a request that holds it *)
(* goes on to its end.                                                     *)
FairSpec ==
  /\ Spec
  /\ \A p \in Workers : WF_vars(InsertCampaign(p)) /\ WF_vars(RequeryCampaign(p))
  /\ \A s \in Subs : /\ WF_vars(GraceElapses(s))
                     /\ WF_vars(\E S \in SUBSET Subs : s \in S /\ EnforceGraceExpiry(S))

-----------------------------------------------------------------------------

(* A past due subscription always has the time its grace is counted from:  *)
(* without it enforce_grace_expiry would never look at the row, and access *)
(* would never be revoked.  Two requests that write the row from older     *)
(* snapshots cannot combine to a past_due row with a null time.            *)
PastDueHasDeadline ==
  \A s \in Subs : sub[s].status = "past_due" => sub[s].entered # "null"

(* The effects of a request come together, or are known to be partial.     *)
(* The ledger entry and both events of a paid invoice are there exactly    *)
(* when its webhook is processed, however often the provider sends it, an  *)
(* admin replays it or the worker dies.  The two events of a failed        *)
(* payment are there together, always when the webhook is processed,       *)
(* otherwise only with a webhook left failed for a replay (the poison      *)
(* guard keeps what a handler wrote before it raised), and with dunning    *)
(* enabled never without a campaign of the subscription, though operators  *)
(* and retries move the campaigns meanwhile.  An unpaid subscription,      *)
(* whichever request wrote the row around the grace job, has its           *)
(* access_revoked_marker and both events.                                  *)
EffectsAreWhole ==
  /\ \A e \in Events :
       LET processed(t) == webhook[e] = "processed" /\ EventType[e] = t
           paid == <<"invoice_paid", e>>
           announced == <<"payment_failed", e>> \in outbox
       IN /\ paid \in ledger <=> processed("invoice.paid")
          /\ <<"activated", e>> \in outbox <=> processed("invoice.paid")
          /\ <<"ledger.entry_posted", paid>> \in outbox <=> processed("invoice.paid")
          /\ <<"past_due", e>> \in outbox <=> announced
          /\ processed("invoice.payment_failed") => announced
          /\ announced => /\ EventType[e] = "invoice.payment_failed"
                          /\ webhook[e] \in {"processed", "failed"}
                          /\ DunningEnabled => \E c \in campaigns : c.sub = EventSub[e]
  /\ \A s \in Subs : sub[s].status = "unpaid" =>
       LET marker == <<"access_revoked_marker", s>>
       IN /\ marker \in ledger
          /\ <<"access_revoked", s>> \in outbox
          /\ <<"ledger.entry_posted", marker>> \in outbox

(* A plan change and its money go together: a plan_changed event has its   *)
(* proration in the ledger, in the direction of the prices it names, and   *)
(* no proration is without the event of its key, though the row it is      *)
(* computed from was read without a lock.                                  *)
PlanChangeAccounted ==
  /\ \A m \in outbox : m[1] = "plan_changed" =>
       /\ PlanPrice[m[4]] > PlanPrice[m[3]] => <<"proration_debit", m[2]>> \in ledger
       /\ PlanPrice[m[4]] < PlanPrice[m[3]] => <<"proration_credit", m[2]>> \in ledger
  /\ \A e \in ledger : e[1] \in {"proration_debit", "proration_credit"} =>
       PlanChangeKnown(e[2]) /\ <<"ledger.entry_posted", e>> \in outbox

(* A subscription whose payment failed does not keep its access for ever:  *)
(* it is paid, canceled, or revoked once the grace period is over, unless  *)
(* a past due subscription of an endless plan makes every run of the grace *)
(* job raise.                                                              *)
PastDueIsResolved ==
  \A s \in Subs : sub[s].status = "past_due" ~> sub[s].status # "past_due" \/ Poisonous # {}

(* Appendix A: a status only changes along ALLOWED_TRANSITIONS; canceled   *)
(* and unpaid are left only by a new subscription.                         *)
LegalTransitionsOnly ==
  [][\A s \in Subs : sub[s].status \in Statuses /\ sub'[s].status # sub[s].status
       => CanTransition(sub[s].status, sub'[s].status)]_vars
=============================================================================
