--------------------------- MODULE Reconciliation ---------------------------
(***************************************************************************)
(* The reconciliation run (services/reconciliation.py), started by the     *)
(* daily Celery task or by an administrator: it compares the provider's    *)
(* invoices with the payments in the ledger, and the platform's invoices   *)
(* with the charges in the ledger, and records what differs.               *)
(*                                                                         *)
(* A run is one READ COMMITTED transaction.  It inserts its row, fetches   *)
(* the provider's list, and then reads ledger and invoices, one statement  *)
(* after the other, while the provider, the webhooks, the period close and *)
(* the invoice sync go on: every read is a step of its own.  An invoice    *)
(* stands for the platform's row and for the provider's invoice of that    *)
(* id; either may be missing.  The ledger holds at most one payment per    *)
(* provider invoice here.                                                  *)
(***************************************************************************)
EXTENDS Integers, FiniteSets

CONSTANTS
  Invoices,
  Keys,         \* idempotency keys: one per day, or of a manual run
  Workers,      \* Celery workers and API requests
  Retries,      \* worker -> retries of its task (3 for the daily task, 0 for a request)
  Amounts,      \* totals of invoices, in cents
  Threshold,    \* reconciliation_alert_amount_cents
  None,         \* a missing amount, key or row
  MaxMoves,     \* bound: changes of the registries
  MaxFailures   \* bound: failed attempts

ASSUME ReconciliationAssumption ==
  /\ Retries \in [Workers -> Nat]
  /\ Amounts \subseteq Nat /\ Threshold \in Nat
  /\ MaxMoves \in Nat /\ MaxFailures \in Nat
  /\ None \notin Nat /\ None \notin Keys

VARIABLES
  provider,      \* the provider's registry (external)
  payment,       \* amount of the invoice_paid entry that names the invoice, or None
  invoice,       \* committed invoice rows, with the sum of their usage_charge entries
  run,           \* status of the committed run of each key
  discrepancies, \* committed discrepancy rows
  outbox,        \* keys of the committed reconciliation events
  job,           \* the transaction of each worker
  lasting,       \* history: what has differed at every moment of a run so far
  moves, failures

registries == <<provider, payment, invoice, moves>>
committed == <<run, discrepancies, outbox>>
vars == <<registries, committed, job, lasting, failures>>

-----------------------------------------------------------------------------

Absent == [status |-> "absent", due |-> 0, paid |-> None]
NoInvoice == [total |-> None, charge |-> 0, ext |-> FALSE]
NoJob == [st |-> "idle", key |-> None, tries |-> 0, list |-> None, rows |-> {}, found |-> {}]

Init ==
  /\ provider = [i \in Invoices |-> Absent]
  /\ payment = [i \in Invoices |-> None]
  /\ invoice = [i \in Invoices |-> NoInvoice]
  /\ run = [k \in Keys |-> "none"]
  /\ discrepancies = {}
  /\ outbox = {}
  /\ job = [w \in Workers |-> NoJob]
  /\ lasting = [w \in Workers |-> {}]
  /\ moves = 0
  /\ failures = 0

-----------------------------------------------------------------------------
(* The registries move on.                                                 *)

Move == /\ moves < MaxMoves
        /\ moves' = moves + 1
        /\ UNCHANGED <<committed, job, failures>>

(* A period is closed: the invoice and its usage_charge in one commit (see *)
(* PeriodClose).                                                           *)
CloseInvoice(i, a) ==
  /\ invoice[i] = NoInvoice /\ provider[i] = Absent
  /\ invoice' = [invoice EXCEPT ![i] = [NoInvoice EXCEPT !.total = a, !.charge = a]]
  /\ Move /\ UNCHANGED <<provider, payment>>

(* An invoice is loaded from outside, without its charge. *)
ImportInvoice(i, a) ==
  /\ invoice[i] = NoInvoice /\ provider[i] = Absent
  /\ invoice' = [invoice EXCEPT ![i] = [NoInvoice EXCEPT !.total = a]]
  /\ Move /\ UNCHANGED <<provider, payment>>

(* The provider opens an invoice: a synced one over its total, or one of   *)
(* its own that has no row on the platform.                                *)
ProviderOpens(i, a) ==
  /\ provider[i] = Absent
  /\ invoice[i] # NoInvoice => a = invoice[i].total
  /\ provider' = [provider EXCEPT ![i] = [status |-> "open", due |-> a, paid |-> None]]
  /\ Move /\ UNCHANGED <<payment, invoice>>

(* invoice_sync stores the provider's id. *)
StoreExternalId(i) ==
  /\ invoice[i] # NoInvoice /\ ~invoice[i].ext /\ provider[i] # Absent
  /\ invoice' = [invoice EXCEPT ![i].ext = TRUE]
  /\ Move /\ UNCHANGED <<provider, payment>>

(* The invoice is paid; amount_paid may be missing from the object. *)
ProviderPays(i, a) ==
  /\ provider[i].status = "open"
  /\ a = None \/ a \in 0..provider[i].due
  /\ provider' = [provider EXCEPT ![i].status = "paid", ![i].paid = a]
  /\ Move /\ UNCHANGED <<payment, invoice>>

(* The invoice.paid webhook is processed (see SubscriptionLifecycle); a    *)
(* missing amount is booked as zero.                                       *)
BookPayment(i) ==
  /\ provider[i].status = "paid" /\ payment[i] = None
  /\ payment' = [payment EXCEPT ![i] = IF provider[i].paid = None THEN 0 ELSE provider[i].paid]
  /\ Move /\ UNCHANGED <<provider, invoice>>

-----------------------------------------------------------------------------
(* What is compared.                                                       *)

Abs(n) == IF n < 0 THEN -n ELSE n

(* _stripe_invoice_amount_cents. *)
StripeAmount(p) == IF p.status = "paid" /\ p.paid # None THEN p.paid ELSE p.due

Discrepancy(kind, i, delta) == [kind |-> kind, inv |-> i, delta |-> delta]

(* Mutant: only paid invoices of the provider are looked at. *)
MutantDetectDiscrepancies(list, index) ==
  LET both == {i \in Invoices : list[i].status = "paid" /\ index[i] # None}
  IN {Discrepancy("amount_mismatch", i, StripeAmount(list[i]) - index[i]) :
        i \in {j \in both : StripeAmount(list[j]) # index[j]}}
     \cup {Discrepancy("missing_in_stripe", i, None) :
        i \in {j \in Invoices : list[j] = Absent /\ index[j] # None}}

(* _detect_discrepancies of a provider list and an index of payments.  A   *)
(* payment in the ledger always counts as "paid".                          *)
DetectDiscrepancies(list, index) ==
  LET listed == {i \in Invoices : list[i] # Absent}
      both == {i \in listed : index[i] # None}
  IN {Discrepancy("missing_in_platform", i, None) : i \in listed \ both}
     \cup {Discrepancy("amount_mismatch", i, StripeAmount(list[i]) - index[i]) :
             i \in {j \in both : StripeAmount(list[j]) # index[j]}}
     \cup {Discrepancy("status_mismatch", i, None) :
             i \in {j \in both : list[j].status # "paid"}}
     \cup {Discrepancy("missing_in_stripe", i, None) :
             i \in {j \in Invoices \ listed : index[j] # None}}

(* Mutant: the payment is preferred to the charge. *)
MutantLedgerTotal(i, row) ==
  IF row.ext /\ payment[i] # None THEN payment[i] ELSE row.charge

(* _ledger_total_for_invoice: the charges if there are any, else the       *)
(* payment that names the invoice's external id.  No code posts a payment  *)
(* with the invoice's own id.                                              *)
LedgerTotal(i, row) ==
  CASE row.charge > 0 -> row.charge
    [] row.charge = 0 /\ row.ext /\ payment[i] # None -> payment[i]
    [] OTHER -> 0

(* compare_ledger_to_invoice, for a row as it was read; its charges cannot *)
(* change after it is committed.                                           *)
CompareLedgerToInvoice(i, row) ==
  IF row.total = LedgerTotal(i, row) THEN {}
  ELSE {Discrepancy("ledger_invoice_mismatch", i, row.total - LedgerTotal(i, row))}

(* should_alert_recon_mismatch, of discrepancies that have a delta. *)
Material(d) == d.delta # None /\ Abs(d.delta) >= Threshold

-----------------------------------------------------------------------------
(* A run.                                                                  *)

Become(w, j) == job' = [job EXCEPT ![w] = j]

(* The beat schedule, a redelivery or an administrator asks for the run of *)
(* a key.                                                                  *)
Request(w, k) ==
  /\ job[w].st = "idle"
  /\ Become(w, [NoJob EXCEPT !.st = "queued", !.key = k])
  /\ UNCHANGED <<registries, committed, failures>>

(* get_run_by_idempotency_key: an existing run is returned as it is. *)
LookUp(w) ==
  /\ job[w].st = "queued"
  /\ Become(w, [job[w] EXCEPT !.st = IF run[job[w].key] = "none" THEN "new" ELSE "done"])
  /\ UNCHANGED <<registries, committed, failures>>

Inserted == {"inserted", "fetched", "indexed", "comparing"}

(* Mutant: the row waits for every open run of its key, its own included. *)
MutantKeyInserted(w) ==
  \E v \in Workers : job[v].key = job[w].key /\ job[v].st \in Inserted \cup {"new"}

(* The unique index on idempotency_key: a second INSERT of the key waits   *)
(* until the transaction of the first has ended.                           *)
KeyInserted(w) ==
  \E v \in Workers \ {w} : job[v].key = job[w].key /\ job[v].st \in Inserted

(* Mutant: no unique index. *)
MutantInsertRun(w) ==
  /\ job[w].st = "new"
  /\ Become(w, [job[w] EXCEPT !.st = "inserted"])
  /\ UNCHANGED <<registries, committed, failures>>

InsertRun(w) ==
  /\ job[w].st = "new"
  /\ ~KeyInserted(w) /\ run[job[w].key] = "none"
  /\ Become(w, [job[w] EXCEPT !.st = "inserted"])
  /\ UNCHANGED <<registries, committed, failures>>

(* An attempt that raised.  Celery runs the daily task again; a request is *)
(* answered with an error.                                                 *)
Retried(w) ==
  LET j == job[w]
  IN IF j.tries < Retries[w]
     THEN [NoJob EXCEPT !.st = "queued", !.key = j.key, !.tries = j.tries + 1]
     ELSE [NoJob EXCEPT !.st = "failed", !.key = j.key]

(* The INSERT finds the key taken; nothing catches the IntegrityError. *)
InsertConflicts(w) ==
  /\ job[w].st = "new"
  /\ run[job[w].key] # "none"
  /\ Become(w, Retried(w))
  /\ UNCHANGED <<registries, committed, failures>>

(* _fetch_stripe_invoices. *)
FetchStripeInvoices(w) ==
  /\ job[w].st = "inserted"
  /\ Become(w, [job[w] EXCEPT !.st = "fetched", !.list = provider])
  /\ UNCHANGED <<registries, committed, failures>>

(* _load_platform_invoice_index and the first comparison. *)
LoadPlatformIndex(w) ==
  /\ job[w].st = "fetched"
  /\ Become(w, [job[w] EXCEPT !.st = "indexed", !.list = None,
                              !.found = DetectDiscrepancies(job[w].list, payment)])
  /\ UNCHANGED <<registries, committed, failures>>

(* The SELECT of all invoices. *)
LoadInvoices(w) ==
  /\ job[w].st = "indexed"
  /\ Become(w, [job[w] EXCEPT !.st = "comparing",
                              !.rows = {<<i, invoice[i]>> : i \in {j \in Invoices : invoice[j] # NoInvoice}}])
  /\ UNCHANGED <<registries, committed, failures>>

(* One turn of the loop over the invoices. *)
CompareInvoice(w, r) ==
  /\ job[w].st = "comparing" /\ r \in job[w].rows
  /\ Become(w, [job[w] EXCEPT !.rows = @ \ {r},
                              !.found = @ \cup CompareLedgerToInvoice(r[1], r[2])])
  /\ UNCHANGED <<registries, committed, failures>>

(* _enqueue_run_events. *)
Events(k, found) ==
  {<<k, "completed">>} \cup (IF \E d \in found : Material(d) THEN {<<k, "mismatch">>} ELSE {})

(* Status COMPLETED, discrepancies and events, in one commit. *)
CommitRun(w) ==
  /\ job[w].st = "comparing" /\ job[w].rows = {}
  /\ LET k == job[w].key
         found == job[w].found
     IN /\ run' = [run EXCEPT ![k] = "completed"]
        /\ discrepancies' = discrepancies \cup {[key |-> k, what |-> d] : d \in found}
        /\ outbox' = outbox \cup Events(k, found)
        /\ Become(w, [NoJob EXCEPT !.st = "done", !.key = k])
  /\ UNCHANGED <<registries, failures>>

(* Mutant: the status FAILED is committed. *)
MutantFailRun(w) ==
  /\ job[w].st \in Inserted
  /\ failures < MaxFailures /\ failures' = failures + 1
  /\ run' = [run EXCEPT ![job[w].key] = "failed"]
  /\ Become(w, Retried(w))
  /\ UNCHANGED <<registries, discrepancies, outbox>>

(* The provider or the database raises.  The status FAILED is flushed, but *)
(* the exception goes on, the session is closed without a commit, and the  *)
(* row disappears with everything else.                                    *)
FailRun(w) ==
  /\ job[w].st \in Inserted
  /\ failures < MaxFailures /\ failures' = failures + 1
  /\ Become(w, Retried(w))
  /\ UNCHANGED <<registries, committed>>

(* The process dies: the message is delivered again, or, as only the pool  *)
(* process is gone, acknowledged and lost.                                 *)
Die(w, redelivered) ==
  /\ job[w].st \in Inserted \cup {"new"}
  /\ failures < MaxFailures /\ failures' = failures + 1
  /\ redelivered => Retries[w] > 0
  /\ Become(w, IF redelivered THEN [NoJob EXCEPT !.st = "queued", !.key = job[w].key, !.tries = job[w].tries]
                              ELSE [NoJob EXCEPT !.st = "failed", !.key = job[w].key])
  /\ UNCHANGED <<registries, committed>>

-----------------------------------------------------------------------------

(* The reference: provider and ledger agree on an invoice if neither knows *)
(* it, or it is paid there and booked here over the same amount.           *)
RegistriesAgree(i) ==
  \/ provider[i] = Absent /\ payment[i] = None
  \/ provider[i].status = "paid" /\ payment[i] = StripeAmount(provider[i])

(* An invoice is covered by its charges or, if it has none, by the payment *)
(* that names it.                                                          *)
BooksAgree(i) ==
  \/ invoice[i] = NoInvoice
  \/ invoice[i].total = invoice[i].charge
  \/ invoice[i].charge = 0 /\ invoice[i].ext /\ payment[i] = invoice[i].total

Differences ==
  {<<"registries", i>> : i \in {j \in Invoices : ~RegistriesAgree(j)}}
  \cup {<<"books", i>> : i \in {j \in Invoices : ~BooksAgree(j)}}

(* The history of a run starts with its INSERT and ends with its commit. *)
Remember ==
  lasting' = [w \in Workers |->
    CASE job'[w].st \notin Inserted -> {}
      [] job'[w].st \in Inserted /\ job[w].st \notin Inserted -> Differences'
      [] OTHER -> lasting[w] \cap Differences']

Registries ==
  \E i \in Invoices :
    \/ \E a \in Amounts : CloseInvoice(i, a) \/ ImportInvoice(i, a) \/ ProviderOpens(i, a)
    \/ StoreExternalId(i)
    \/ \E a \in Amounts \cup {0, None} : ProviderPays(i, a)
    \/ BookPayment(i)

Progress(w) ==
  \/ LookUp(w) \/ InsertRun(w) \/ InsertConflicts(w)
  \/ FetchStripeInvoices(w) \/ LoadPlatformIndex(w) \/ LoadInvoices(w)
  \/ \E r \in job[w].rows : CompareInvoice(w, r)
  \/ CommitRun(w)

Run(w) ==
  \/ \E k \in Keys : Request(w, k)
  \/ Progress(w)
  \/ FailRun(w)
  \/ \E redelivered \in BOOLEAN : Die(w, redelivered)

Next == /\ Registries \/ \E w \in Workers : Run(w)
        /\ Remember

Spec == Init /\ [][Next]_vars

(* A task or request that has started goes on until it ends or fails. *)
FairSpec == Spec /\ \A w \in Workers : WF_vars(Progress(w) /\ Remember)

-----------------------------------------------------------------------------

(* A run is recorded whole or not at all: with status completed, its       *)
(* reconciliation.completed event, and reconciliation.mismatch exactly if  *)
(* one of its discrepancies is as large as the alert threshold.  A failed  *)
(* attempt leaves nothing that a retry would take for the result.          *)
RunIsWhole ==
  \A k \in Keys :
    /\ run[k] # "none" => run[k] = "completed"
    /\ <<k, "completed">> \in outbox <=> run[k] = "completed"
    /\ <<k, "mismatch">> \in outbox <=> \E d \in discrepancies :
         d.key = k /\ d.what.delta # None /\ (d.what.delta >= Threshold \/ -d.what.delta >= Threshold)
    /\ (\E d \in discrepancies : d.key = k) => run[k] = "completed"

(* A key has one run: repeating it, concurrently or later, adds nothing to *)
(* its discrepancies although the registries have moved on.                *)
RunIsFrozen ==
  [][\A k \in Keys : run[k] # "none" =>
       /\ run'[k] = run[k]
       /\ {d \in discrepancies' : d.key = k} = {d \in discrepancies : d.key = k}]_vars

(* No torn read hides a lasting difference: what differs at every moment   *)
(* of a run is reported by it, though provider, ledger and invoices are    *)
(* read at different moments and keep changing.                            *)
LastingDifferenceReported ==
  [][\A w \in Workers : CommitRun(w) =>
       \A d \in lasting[w] : \E x \in job[w].found :
         x.inv = d[2] /\ (x.kind = "ledger_invoice_mismatch" <=> d[1] = "books")]_vars

(* No torn read invents a gap in the books: an invoice the period close    *)
(* wrote with its charge is never reported as ledger_invoice_mismatch,     *)
(* whenever the close commits and whatever the customer pays.              *)
ChargedInvoiceNeverReported ==
  \A d \in discrepancies : d.what.kind = "ledger_invoice_mismatch" =>
    invoice[d.what.inv].total # invoice[d.what.inv].charge

(* A requested run takes place: by this task or by another one with its    *)
(* key, unless all retries failed or the task was lost.                    *)
RequestIsServed ==
  \A w \in Workers, k \in Keys :
    job[w].st = "queued" /\ job[w].key = k ~> run[k] = "completed" \/ job[w].st = "failed"
=============================================================================
