------------------------------ MODULE Dunning ------------------------------
(***************************************************************************)
(* Dunning: a campaign of payment retries per failed payment, the          *)
(* Celery task that executes the due ones, and the operator's pause and    *)
(* resume.                                                                 *)
(*                                                                         *)
(* process_due_attempts locks the attempt rows and, through the join, the  *)
(* campaign rows it selects (FOR UPDATE SKIP LOCKED) and keeps the locks   *)
(* over all its calls to the payment provider, until its one commit.       *)
(* Pause and resume read the campaign without a lock and write it later;   *)
(* only the write waits for a lock.  The audit history of an operator's    *)
(* actions is a list inside the policy_snapshot column, read and written   *)
(* with the status.                                                        *)
(***************************************************************************)
EXTENDS Integers, FiniteSets, Sequences, SequencesExt

CONSTANTS
  Keys,      \* idempotency keys of campaigns: one per payment_failed webhook
  Subs,      \* subscriptions
  SubOf,     \* key -> the subscription whose payment failed
  Runners,   \* Celery workers executing dunning.process_due_attempts
  Admins,    \* operators pausing and resuming campaigns
  NoKey,     \* the campaign of an idle operator
  NAttempts, \* length of the schedule (three: days 1, 3 and 7)
  MaxCrashes,\* bound: how often a task transaction aborts
  MaxOps     \* bound: how many pause and resume requests are made

ASSUME SubOfAssumption == SubOf \in [Keys -> Subs]
ASSUME NoKeyAssumption == NoKey \notin Keys
ASSUME NAttemptsAssumption == NAttempts \in Nat \ {0}
ASSUME BoundsAssumption == MaxCrashes \in Nat /\ MaxOps \in Nat

(* The attempts start_campaign schedules: one per offset of                *)
(* schedule_attempt_offsets_days.                                          *)
AttemptNos == 1..NAttempts
Attempts == Keys \X AttemptNos

VARIABLES
  campaign, \* committed status of every campaign ("none": no row)
  due,      \* how many attempts of the campaign have scheduled_at <= now
  result,   \* committed result of every attempt ("pending": executed_at null)
  held,     \* runner -> attempts its open transaction has selected
  ran,      \* runner -> attempt -> its uncommitted result
  ending,   \* runner -> campaign -> its status inside the transaction
  admin,    \* operator -> open pause or resume request and the history it read
  audit,    \* operator_history of the campaign: the actions, oldest first
  calls,    \* provider retries made for an attempt (not undone by rollback)
  crashes, ops

vars == <<campaign, due, result, held, ran, ending, admin, audit, calls, crashes, ops>>

-----------------------------------------------------------------------------

Idle == [op |-> "idle", key |-> NoKey, read |-> <<>>]
AllPending == [a \in Attempts |-> "pending"]
NoneEnding == [k \in Keys |-> "active"]

Init ==
  /\ campaign = [k \in Keys |-> "none"]
  /\ due = [k \in Keys |-> 0]
  /\ result = AllPending
  /\ held = [w \in Runners |-> {}]
  /\ ran = [w \in Runners |-> AllPending]
  /\ ending = [w \in Runners |-> NoneEnding]
  /\ admin = [p \in Admins |-> Idle]
  /\ audit = [k \in Keys |-> <<>>]
  /\ calls = [a \in Attempts |-> 0]
  /\ crashes = 0
  /\ ops = 0

(* _find_active_campaign_for_subscription, and what the partial unique     *)
(* index on active campaigns enforces.                                     *)
ActiveFor(s) == {k \in Keys : campaign[k] = "active" /\ SubOf[k] = s}

(* Mutant: the subscription's active campaign is not looked for. *)
MutantStartCampaign(k) ==
  /\ campaign' = IF campaign[k] = "none" THEN [campaign EXCEPT ![k] = "active"] ELSE campaign
  /\ UNCHANGED <<due, result, held, ran, ending, admin, audit, calls, crashes, ops>>

(* _find_campaign_by_idempotency_key. *)
Known(k) == campaign[k] # "none"

(* start_campaign with its attempts, committed with the webhook.  A        *)
(* known key or an active campaign of the subscription is returned as is.  *)
StartCampaign(k) ==
  /\ campaign' = IF ~Known(k) /\ ActiveFor(SubOf[k]) = {}
                 THEN [campaign EXCEPT ![k] = "active"] ELSE campaign
  /\ UNCHANGED <<due, result, held, ran, ending, admin, audit, calls, crashes, ops>>

(* The scheduled_at of the next attempt passes.  Nothing makes the task    *)
(* run in time: several attempts may be overdue when it does.              *)
AttemptFallsDue(k) ==
  /\ campaign[k] # "none"
  /\ due[k] < NAttempts
  /\ due' = [due EXCEPT ![k] = @ + 1]
  /\ UNCHANGED <<campaign, result, held, ran, ending, admin, audit, calls, crashes, ops>>

-----------------------------------------------------------------------------

(* Mutant: the SELECT takes no lock. *)
MutantNoLock(k) == FALSE

CampaignLocked(k) == \E w \in Runners : \E a \in held[w] : a[1] = k

(* Mutant: the status of the campaign is missing from the SELECT. *)
MutantDueOfAny == {a \in Attempts : /\ campaign[a[1]] # "none"
                                    /\ result[a] = "pending"
                                    /\ a[2] <= due[a[1]]}

(* Mutant: an attempt is due only after the time of the next one. *)
MutantDueLate == {a \in Attempts : /\ campaign[a[1]] = "active"
                                   /\ result[a] = "pending"
                                   /\ a[2] < due[a[1]]}

Due == {a \in Attempts : /\ campaign[a[1]] = "active"
                         /\ result[a] = "pending"
                         /\ a[2] <= due[a[1]]}

(* The SELECT of process_due_attempts. *)
SelectDue(w) ==
  /\ held[w] = {}
  /\ held' = [held EXCEPT ![w] = {a \in Due : ~CampaignLocked(a[1])}]
  /\ held'[w] # {}
  /\ UNCHANGED <<campaign, due, result, ran, ending, admin, audit, calls, crashes, ops>>

(* The attempt the loop has come to: by scheduled_at, so by attempt_no     *)
(* within a campaign.                                                      *)
IsNext(w, a) ==
  /\ a \in held[w] /\ ran[w][a] = "pending"
  /\ \A b \in held[w] : b[1] = a[1] /\ b[2] < a[2] => ran[w][b] # "pending"

(* Mutant: the last attempt is taken to be the one before it. *)
MutantEarlyExhaustion(n, outcome, old) ==
  CASE outcome = "succeeded" -> "completed"
    [] outcome = "failed" /\ n >= NAttempts - 1 -> "exhausted"
    [] OTHER -> old

(* The campaign status _execute_attempt assigns. *)
StatusAfter(n, outcome, old) ==
  CASE outcome = "succeeded" -> "completed"
    [] outcome = "failed" /\ n = NAttempts -> "exhausted"
    [] OTHER -> old

(* _execute_attempt, whatever the status of the campaign is by now.  With  *)
(* no open synced invoice the provider is not called and the attempt fails.*)
ExecuteAttempt(w, a, outcome, invoiceFound) ==
  /\ IsNext(w, a)
  /\ outcome = "succeeded" => invoiceFound
  /\ ran' = [ran EXCEPT ![w][a] = outcome]
  /\ ending' = [ending EXCEPT ![w][a[1]] = StatusAfter(a[2], outcome, @)]
  /\ calls' = IF invoiceFound THEN [calls EXCEPT ![a] = @ + 1] ELSE calls
  /\ UNCHANGED <<campaign, due, result, held, admin, audit, crashes, ops>>

EndRun(w) ==
  /\ held' = [held EXCEPT ![w] = {}]
  /\ ran' = [ran EXCEPT ![w] = AllPending]
  /\ ending' = [ending EXCEPT ![w] = NoneEnding]

HeldKeys(w) == {a[1] : a \in held[w]}

CommitRun(w) ==
  /\ held[w] # {}
  /\ \A a \in held[w] : ran[w][a] # "pending"
  /\ result' = [a \in Attempts |-> IF a \in held[w] THEN ran[w][a] ELSE result[a]]
  /\ campaign' = [k \in Keys |-> IF k \in HeldKeys(w) THEN ending[w][k] ELSE campaign[k]]
  /\ EndRun(w)
  /\ UNCHANGED <<due, admin, audit, calls, crashes, ops>>

(* The worker dies, the provider answers with an error, or the database    *)
(* aborts: all of the batch is rolled back, the calls made are not.        *)
CrashRun(w) ==
  /\ held[w] # {}
  /\ crashes < MaxCrashes
  /\ crashes' = crashes + 1
  /\ EndRun(w)
  /\ UNCHANGED <<campaign, due, result, admin, audit, calls, ops>>

-----------------------------------------------------------------------------

(* The status checks of pause_campaign and of resume_campaign. *)
MayPause(k)  == campaign[k] = "active"
MayResume(k) == campaign[k] = "paused" /\ ActiveFor(SubOf[k]) = {}

(* A request of an operator, up to those checks. *)
RequestOp(p, k, op) ==
  /\ admin[p] = Idle
  /\ ops < MaxOps
  /\ IF op = "pause" THEN MayPause(k) ELSE MayResume(k)
  /\ admin' = [admin EXCEPT ![p] = [op |-> op, key |-> k, read |-> audit[k]]]
  /\ ops' = ops + 1
  /\ UNCHANGED <<campaign, due, result, held, ran, ending, audit, calls, crashes>>

(* Mutant: the history is extended in place, which the ORM does not see as *)
(* a change of the column.                                                 *)
MutantAppended(request, stored) == stored

(* _append_campaign_audit: the history that was read and the action, in    *)
(* place of the history that is stored by now.                             *)
Appended(request, stored) == Append(request.read, request.op)

(* The UPDATE waits for the campaign's row lock and does not look at the   *)
(* status again.  A resume that breaks the unique index fails.             *)
CommitOp(p) ==
  LET k == admin[p].key
      clash == admin[p].op = "resume" /\ ActiveFor(SubOf[k]) \ {k} # {}
  IN /\ admin[p] # Idle
     /\ ~CampaignLocked(k)
     /\ IF clash THEN UNCHANGED <<campaign, audit>>
        ELSE /\ campaign' = [campaign EXCEPT ![k] = IF admin[p].op = "pause"
                                                    THEN "paused" ELSE "active"]
             /\ audit' = [audit EXCEPT ![k] = Appended(admin[p], @)]
     /\ admin' = [admin EXCEPT ![p] = Idle]
     /\ UNCHANGED <<due, result, held, ran, ending, calls, crashes, ops>>

-----------------------------------------------------------------------------

Execute(w) ==
  \E a \in Attempts, outcome \in {"succeeded", "failed"}, found \in BOOLEAN :
    ExecuteAttempt(w, a, outcome, found)

RunnerStep(w) == SelectDue(w) \/ Execute(w) \/ CommitRun(w)

Next ==
  \/ \E k \in Keys : StartCampaign(k) \/ AttemptFallsDue(k)
  \/ \E w \in Runners : RunnerStep(w) \/ CrashRun(w)
  \/ \E p \in Admins : \/ \E k \in Keys, op \in {"pause", "resume"} : RequestOp(p, k, op)
                       \/ CommitOp(p)

Spec == Init /\ [][Next]_vars

(* The beat schedule runs the task again and again, a request ends, and    *)
(* time passes.                                                            *)
FairSpec == /\ Spec
            /\ \A w \in Runners : WF_vars(RunnerStep(w))
            /\ \A k \in Keys : WF_vars(AttemptFallsDue(k))
            /\ \A p \in Admins : WF_vars(CommitOp(p))

-----------------------------------------------------------------------------

(* No customer is dunned twice at once: at most one active campaign per    *)
(* subscription, whatever the order of new failures, pauses and resumes.   *)
OneActiveCampaign == \A s \in Subs : Cardinality(ActiveFor(s)) <= 1

(* A pause that is committed holds: the provider is asked to charge only   *)
(* while the campaign's committed status is active, because the task keeps *)
(* the campaign row locked over its calls.                                 *)
NoChargeWhilePaused ==
  [][\A a \in Attempts : calls'[a] # calls[a] => campaign[a[1]] = "active"]_vars

(* An attempt is charged once, and once more at most for every time the    *)
(* task died between the provider's answer and its own commit.             *)
RetriesPerAttempt == \A a \in Attempts : calls[a] <= 1 + crashes

(* A campaign that is completed has a successful attempt; one that is      *)
(* exhausted has failed its last one.                                      *)
EndingIsEarned ==
  \A k \in Keys :
    /\ campaign[k] = "completed" => \E n \in AttemptNos : result[<<k, n>>] = "succeeded"
    /\ campaign[k] = "exhausted" => result[<<k, NAttempts>>] = "failed"

HasPending(k) == \E n \in AttemptNos : result[<<k, n>>] = "pending"

(* A campaign does not hang: while it is active and has an attempt left,   *)
(* the task comes round to it, until it is decided or an operator pauses   *)
(* it, although batches are rolled back.                                   *)
CampaignIsDecided ==
  \A k \in Keys : campaign[k] = "active" /\ HasPending(k)
                    ~> campaign[k] # "active" \/ ~HasPending(k)

(* The operator history explains the status: a paused campaign was paused  *)
(* by the last action in it, an active one was resumed by it, although two *)
(* operators may overwrite each other's status and entry and the task      *)
(* writes the status in between.                                           *)
AuditExplainsStatus ==
  \A k \in Keys :
    /\ campaign[k] = "paused" => audit[k] # <<>> /\ Last(audit[k]) = "pause"
    /\ campaign[k] = "active" /\ audit[k] # <<>> => Last(audit[k]) = "resume"

(* The end of a campaign is final unless an operator's request was under   *)
(* way when it ended: no later request, payment failure or run of the task *)
(* opens it again, although attempts of it are left and fall due.          *)
EndIsFinal ==
  [][\A k \in Keys :
       campaign[k] \in {"completed", "exhausted"} /\ (\A p \in Admins : admin[p].key # k)
         => campaign'[k] = campaign[k]]_vars
=============================================================================
