---------------------------- MODULE PeriodClose ----------------------------
(***************************************************************************)
(* Closing billing periods and pushing the invoices to the payment         *)
(* provider: the Celery tasks usage.close_period and                       *)
(* invoices.sync_mock_stripe with the services they call                   *)
(* (services/period_close.py, invoices.py, ledger.py, invoice_sync.py).    *)
(*                                                                         *)
(* One organization with a billable subscription and one metered feature.  *)
(* A close is identified by its idempotency key; key k stands for the      *)
(* period [Start[k], End[k]).  A task message is acknowledged after the    *)
(* task ran (task_acks_late), so a crash runs the task again, unless only  *)
(* the pool process died, in which case Celery acknowledges the message.   *)
(* A task that raises is retried MaxRetries times.                         *)
(***************************************************************************)
EXTENDS Integers, FiniteSets, Sequences, FiniteSetsExt

CONSTANTS
  Keys,            \* idempotency keys of the closes
  Closes,          \* usage.close_period messages
  Syncs,           \* slots for invoices.sync_mock_stripe messages
  Start, End,      \* bounds of the period of each key, in ticks
  LastHour,        \* hour buckets are 0..LastHour
  TicksPerHour,
  Price,           \* unit_amount_cents of the metered price
  MaxQuantity,     \* bound on the quantity of an hourly aggregate
  MaxRetries,      \* max_retries of both tasks
  MaxFailures      \* bound on the failures of a behaviour

ASSUME PeriodAssumption ==
  /\ LastHour \in Nat /\ TicksPerHour \in Nat \ {0} /\ Price \in Nat
  /\ MaxQuantity \in Nat /\ MaxRetries \in Nat /\ MaxFailures \in Nat
  /\ Start \in [Keys -> Nat] /\ End \in [Keys -> Nat]

VARIABLES
  usage,           \* hourly aggregates: hour -> quantity
  invoice,         \* committed invoice of each key, or None
  ledger,          \* amounts of the usage_charge entries of each key
  outbox,          \* totals of the usage.period_closed events of each key
  close,           \* the task of each close message
  sync,            \* the task of each sync message
  provider,        \* invoices registered by the provider
  customers,       \* customers registered by the provider
  failures

vars == <<usage, invoice, ledger, outbox, close, sync, provider, customers, failures>>

None  == [none |-> TRUE]
Hours == 0..LastHour

NoClose == [st |-> "none", key |-> None, tries |-> 0, hours |-> {}, total |-> 0]
NoSync  == [st |-> "none", key |-> None, tries |-> 0, amount |-> 0, ext |-> 0]

Init ==
  /\ usage \in [Hours -> {0}]
  /\ invoice = [k \in Keys |-> None]
  /\ ledger = [k \in Keys |-> <<>>]
  /\ outbox = [k \in Keys |-> <<>>]
  /\ close = [c \in Closes |-> NoClose]
  /\ sync = [s \in Syncs |-> NoSync]
  /\ provider = {}
  /\ customers = 0
  /\ failures = 0

Issued(k) == invoice[k] # None

\* The hourly job of UsageMetering writes an aggregate.
Aggregate(h, q) ==
  /\ usage[h] # q
  /\ usage' = [usage EXCEPT ![h] = q]
  /\ UNCHANGED <<invoice, ledger, outbox, close, sync, provider, customers, failures>>

----------------------------------------------------------------------------
(* usage.close_period *)

\* Mutant: the start is aligned to its hour, as in the usage report.
MutantAlignedStart(k) ==
  {h \in Hours : Start[k] \div TicksPerHour <= h /\ h * TicksPerHour < End[k]}

\* Buckets whose hour_start lies in the half-open period.
PeriodHours(k) ==
  {h \in Hours : Start[k] <= h * TicksPerHour /\ h * TicksPerHour < End[k]}

\* The line item's amount: quantity times unit price.
TotalCents(k) == Price * MapThenSumSet(LAMBDA h : usage[h], PeriodHours(k))

Submit(c, k) ==
  /\ close[c].st = "none"
  /\ close' = [close EXCEPT ![c] = [NoClose EXCEPT !.st = "queued", !.key = k]]
  /\ UNCHANGED <<usage, invoice, ledger, outbox, sync, provider, customers, failures>>

\* The task looks its invoice up by key. An existing one is returned as it
\* is; otherwise the aggregates of the period are read.
CloseBegin(c) ==
  /\ close[c].st = "queued"
  /\ LET k == close[c].key IN
     close' = [close EXCEPT ![c] =
       IF Issued(k)
         THEN [@ EXCEPT !.st = "committed"]
         ELSE [@ EXCEPT !.st = "read", !.hours = PeriodHours(k), !.total = TotalCents(k)]]
  /\ UNCHANGED <<usage, invoice, ledger, outbox, sync, provider, customers, failures>>

\* Mutant: invoices.idempotency_key has no unique index.
MutantNoUniqueKey(c) == FALSE

\* The unique index on invoices.idempotency_key makes a second INSERT of a
\* key wait for the transaction that made the first.
KeyInserted(c) == \E d \in Closes \ {c} : close[d].st = "drafted" /\ close[d].key = close[c].key

\* create_draft_invoice inserts the draft; the lines, the status open, the
\* ledger entry and the outbox events follow in the same transaction.
Draft(c) ==
  /\ close[c].st = "read"
  /\ ~KeyInserted(c)
  /\ ~Issued(close[c].key)
  /\ close' = [close EXCEPT ![c].st = "drafted"]
  /\ UNCHANGED <<usage, invoice, ledger, outbox, sync, provider, customers, failures>>

\* create_draft_invoice found the key's invoice after all and there is no
\* line to add: the entry and the event exist, the task ends as if it had
\* found the invoice at once.
DraftFindsInvoice(c) ==
  /\ close[c].st = "read"
  /\ Issued(close[c].key)
  /\ close[c].total = 0
  /\ close' = [close EXCEPT ![c].st = "committed"]
  /\ UNCHANGED <<usage, invoice, ledger, outbox, sync, provider, customers, failures>>

\* A task that raised: retried, or given up after MaxRetries.
Retried(t) == IF t.tries < MaxRetries
                THEN [t EXCEPT !.st = "queued", !.tries = @ + 1]
                ELSE [t EXCEPT !.st = "failed"]

\* The invoice of the key was issued meanwhile: either add_line_item refuses
\* the open invoice, or the INSERT conflicts, the session is rolled back and
\* the task stumbles over its expired objects. It is retried.
DraftConflicts(c) ==
  /\ close[c].st = "read"
  /\ Issued(close[c].key)
  /\ close' = [close EXCEPT ![c] = Retried(@)]
  /\ UNCHANGED <<usage, invoice, ledger, outbox, sync, provider, customers, failures>>

\* The commit makes invoice, ledger entry and event visible together.
CloseCommit(c) ==
  LET k == close[c].key IN
  /\ close[c].st = "drafted"
  /\ invoice' = [invoice EXCEPT ![k] =
       [total |-> close[c].total, hours |-> close[c].hours, ext |-> 0]]
  /\ ledger' = [ledger EXCEPT ![k] = Append(@, close[c].total)]
  /\ outbox' = [outbox EXCEPT ![k] = Append(@, close[c].total)]
  /\ close' = [close EXCEPT ![c].st = "committed"]
  /\ UNCHANGED <<usage, sync, provider, customers, failures>>

\* sync_mock_stripe.delay after the commit, in a free slot.
Delay(c, s) ==
  /\ close[c].st = "committed"
  /\ sync[s].st \in {"none", "done"}
  /\ sync' = [sync EXCEPT ![s] = [NoSync EXCEPT !.st = "queued", !.key = close[c].key]]
  /\ close' = [close EXCEPT ![c].st = "done"]
  /\ UNCHANGED <<usage, invoice, ledger, outbox, provider, customers, failures>>

CloseRunning(c) == close[c].st \in {"read", "drafted", "committed"}

CloseFails(c) ==
  /\ CloseRunning(c)
  /\ failures < MaxFailures
  /\ failures' = failures + 1
  /\ \/ close' = [close EXCEPT ![c] = Retried(@)]
     \/ close' = [close EXCEPT ![c].st = "queued"]     \* worker died
     \/ close' = [close EXCEPT ![c].st = "failed"]     \* pool process died
  /\ UNCHANGED <<usage, invoice, ledger, outbox, sync, provider, customers>>

----------------------------------------------------------------------------
(* invoices.sync_mock_stripe *)

SyncBegin(s) ==
  /\ sync[s].st = "queued"
  /\ LET inv == invoice[sync[s].key] IN
     sync' = [sync EXCEPT ![s] =
       IF inv.ext # 0
         THEN [@ EXCEPT !.st = "done"]
         ELSE [@ EXCEPT !.st = "read", !.amount = inv.total]]
  /\ UNCHANGED <<usage, invoice, ledger, outbox, close, provider, customers, failures>>

\* create_customer registers a customer at every attempt.
SyncCustomer(s) ==
  /\ sync[s].st = "read"
  /\ sync' = [sync EXCEPT ![s].st = "customer"]
  /\ customers' = customers + 1
  /\ UNCHANGED <<usage, invoice, ledger, outbox, close, provider, failures>>

\* Mutant: create_invoice is called with a fresh key at every attempt.
MutantFreshProviderKey(s) ==
  LET new == Cardinality(provider) + 1 IN
  /\ sync[s].st = "customer"
  /\ provider' = provider \cup {[id |-> new, key |-> sync[s].key, amount |-> sync[s].amount]}
  /\ sync' = [sync EXCEPT ![s].st = "created", ![s].ext = new]
  /\ UNCHANGED <<usage, invoice, ledger, outbox, close, customers, failures>>

\* create_invoice: the provider answers a known idempotency key with the
\* invoice it registered first.
SyncCreate(s) ==
  LET known == {p \in provider : p.key = sync[s].key}
      new   == [id |-> Cardinality(provider) + 1, key |-> sync[s].key,
                amount |-> sync[s].amount]
      mine  == IF known = {} THEN new ELSE CHOOSE p \in known : TRUE
  IN
  /\ sync[s].st = "customer"
  /\ provider' = provider \cup {mine}
  /\ sync' = [sync EXCEPT ![s].st = "created", ![s].ext = mine.id]
  /\ UNCHANGED <<usage, invoice, ledger, outbox, close, customers, failures>>

\* Only the sync columns of the invoice are updated.
SyncCommit(s) ==
  /\ sync[s].st = "created"
  /\ invoice' = [invoice EXCEPT ![sync[s].key].ext = sync[s].ext]
  /\ sync' = [sync EXCEPT ![s].st = "done"]
  /\ UNCHANGED <<usage, ledger, outbox, close, provider, customers, failures>>

SyncRunning(s) == sync[s].st \in {"read", "customer", "created"}

\* Mutant: the task is not retried.
MutantSyncNotRetried(s) ==
  /\ SyncRunning(s)
  /\ failures < MaxFailures
  /\ failures' = failures + 1
  /\ sync' = [sync EXCEPT ![s].st = "done"]
  /\ UNCHANGED <<usage, invoice, ledger, outbox, close, provider, customers>>

\* A provider call fails, or its answer is lost after it took effect, or the
\* commit fails, or the worker dies.
SyncFails(s) ==
  /\ SyncRunning(s)
  /\ failures < MaxFailures
  /\ failures' = failures + 1
  /\ \/ sync' = [sync EXCEPT ![s] = Retried(@)]
     \/ sync' = [sync EXCEPT ![s].st = "queued"]
     \/ sync' = [sync EXCEPT ![s].st = "failed"]
  /\ UNCHANGED <<usage, invoice, ledger, outbox, close, provider, customers>>

CloseStep(c) ==
  \/ CloseBegin(c) \/ Draft(c) \/ DraftFindsInvoice(c) \/ DraftConflicts(c)
  \/ CloseCommit(c) \/ \E s \in Syncs : Delay(c, s)

SyncStep(s) == SyncBegin(s) \/ SyncCustomer(s) \/ SyncCreate(s) \/ SyncCommit(s)

Next ==
  \/ \E h \in Hours, q \in 0..MaxQuantity : Aggregate(h, q)
  \/ \E c \in Closes, k \in Keys : Submit(c, k)
  \/ \E c \in Closes : CloseStep(c) \/ CloseFails(c)
  \/ \E s \in Syncs : SyncStep(s) \/ SyncFails(s)

Spec == Init /\ [][Next]_vars

\* A delivered message is run: Celery workers keep consuming the queue.
FairSpec ==
  /\ Spec
  /\ \A c \in Closes : WF_vars(CloseStep(c))
  /\ \A s \in Syncs : WF_vars(SyncStep(s))

----------------------------------------------------------------------------
(* Properties. *)

\* An issued invoice has one ledger charge, one usage.period_closed event and
\* at most one provider invoice, all of the invoice's amount, and without an
\* issued invoice there is none of them: whatever copies of the task ran,
\* crashed or lost the race for the key, and however often the sync was
\* repeated.
BilledOnceAndAlike ==
  \A k \in Keys :
    LET registered == {p \in provider : p.key = k} IN
    IF Issued(k)
      THEN /\ ledger[k] = <<invoice[k].total>>
           /\ outbox[k] = <<invoice[k].total>>
           /\ \A p \in registered : p.amount = invoice[k].total
           /\ Cardinality(registered) <= 1
      ELSE ledger[k] = <<>> /\ outbox[k] = <<>> /\ registered = {}

\* Two periods that share no instant bill no hour twice, even when their
\* common bound lies inside an hour.
NoHourBilledTwice ==
  \A k, l \in Keys :
    (End[k] <= Start[l] /\ Issued(k) /\ Issued(l))
      => invoice[k].hours \cap invoice[l].hours = {}

BillOf       == [k \in Keys |-> IF Issued(k) THEN {invoice[k].total} ELSE {}]
RegisteredOf == [k \in Keys |-> {p \in provider : p.key = k}]
LinkOf       == [k \in Keys |-> IF Issued(k) THEN {invoice[k].ext} \ {0} ELSE {}]

Promise == INSTANCE Billing
             WITH Periods <- Keys, bill <- BillOf, charges <- ledger, events <- outbox,
                  registered <- RegisteredOf, link <- LinkOf

\* The tasks implement the abstract billing: whatever copies, retries and
\* crashes of them do, a period is billed, charged and announced in one step
\* that happens once, registered once, and linked to that for good. A second
\* sync that was already under way writes the id the first one wrote.
ImplementsBilling == Promise!Spec

\* An issued invoice reaches the provider and carries its id, unless one of
\* its tasks was given up or killed.
GivenUp(k) == \/ \E c \in Closes : close[c].key = k /\ close[c].st = "failed"
              \/ \E s \in Syncs : sync[s].key = k /\ sync[s].st = "failed"

InvoiceIsSynced ==
  \A k \in Keys : Issued(k) ~> (GivenUp(k) \/ (Issued(k) /\ invoice[k].ext # 0))
============================================================================
