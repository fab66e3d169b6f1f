--------------------------- MODULE UsageMetering ---------------------------
(***************************************************************************)
(* Metered usage of one organization and one feature: the batch ingestion  *)
(* endpoint (services/usage.py, api/v1/usage.py) over a table that is      *)
(* partitioned by month (services/usage_partitions.py), and the Celery     *)
(* jobs that roll the events up into hourly aggregates.                    *)
(*                                                                         *)
(* A quantity is represented by the set of usage rows it sums, so that a   *)
(* sum tells which events it counted.  Time is counted in ticks;           *)
(* TicksPerHour and TicksPerMonth give the hour bucket and the monthly     *)
(* partition of an instant.  Statements read what is committed when they   *)
(* run (PostgreSQL's READ COMMITTED, the isolation level the engine is     *)
(* created with).                                                          *)
(***************************************************************************)
EXTENDS Integers, FiniteSets, Sequences, Functions

CONSTANTS
  Keys,            \* client-provided idempotency keys
  Requests,        \* concurrent POST /usage/events/batch calls
  Workers,         \* Celery workers running an aggregation task
  MaxTime,         \* bound on the clock
  Recorded,        \* bound: the values of recorded_at that clients send
  TicksPerHour, TicksPerMonth,
  Lookback,        \* lookback_hours of the sweep, in ticks
  MaxBatch,        \* bound on the events of one batch (the code allows 1000)
  MaxFailures      \* bound on the failed transactions of a behaviour

ASSUME UsageAssumption ==
  /\ MaxTime \in Nat /\ MaxBatch \in Nat /\ MaxFailures \in Nat
  /\ TicksPerHour \in Nat \ {0} /\ TicksPerMonth \in Nat \ {0}
  /\ Lookback \in Nat /\ Recorded \subseteq 0..MaxTime
  /\ TicksPerMonth % TicksPerHour = 0

VARIABLES
  now,             \* the clock
  events,          \* committed rows of usage_events
  acked,           \* keys of the batches answered with 200
  req,             \* the transaction of each ingest request
  agg,             \* usage_aggregates_hourly: hour -> rows its quantity sums
  job,             \* the transaction of each aggregation task
  failures

vars == <<now, events, acked, req, agg, job, failures>>

Time  == 0..MaxTime
Hour(t)  == t \div TicksPerHour
Month(t) == t \div TicksPerMonth
Hours == {Hour(t) : t \in Time}

\* A row of usage_events; at is recorded_at.
Row == [key : Keys, at : Recorded]

NoRequest == [st |-> "idle", keys |-> {}, rows |-> {}, held |-> {}]
NoJob     == [st |-> "idle", todo |-> {}, hour |-> 0, sum |-> {},
              wrote |-> [h \in {} |-> {}]]

Init ==
  /\ now = 0
  /\ events = {}
  /\ acked = {}
  /\ req = [r \in Requests |-> NoRequest]
  /\ agg = [h \in Hours |-> {}]
  /\ job = [w \in Workers |-> NoJob]
  /\ failures = 0

----------------------------------------------------------------------------
(* Ingestion. *)

Stored(key) == \E e \in events : e.key = key

\* The rows a batch adds: the first event of each key that is not stored in
\* any partition yet.
FreshRows(batch) ==
  {batch[i] : i \in {j \in DOMAIN batch :
     /\ ~Stored(batch[j].key)
     /\ \A k \in 1..(j - 1) : batch[k].key # batch[j].key}}

KeysOf(batch) == {e.key : e \in Range(batch)}

\* The request's SELECT of the keys already stored. When every event is a
\* duplicate the batch is answered without inserting anything.
LookUp(r, batch) ==
  /\ req[r].st = "idle"
  /\ IF FreshRows(batch) = {}
       THEN /\ acked' = acked \cup KeysOf(batch)
            /\ UNCHANGED req
       ELSE /\ req' = [req EXCEPT ![r] =
                 [NoRequest EXCEPT !.st = "looked", !.keys = KeysOf(batch),
                                   !.rows = FreshRows(batch)]]
            /\ UNCHANGED acked
  /\ UNCHANGED <<now, events, agg, job, failures>>

\* Mutant: no unique index on the partitions.
MutantNoConflict(row) == FALSE

\* ON CONFLICT DO NOTHING against the unique index (organization_id,
\* idempotency_key), which each monthly partition has of its own.
Conflicts(row) == \E e \in events : e.key = row.key /\ Month(e.at) = Month(row.at)

\* ensure_usage_partition takes the advisory lock of each month of the batch
\* until the transaction ends, then the rows are inserted.
Insert(r) ==
  LET months == {Month(e.at) : e \in req[r].rows} IN
  /\ req[r].st = "looked"
  /\ \A q \in Requests \ {r} : req[q].held \cap months = {}
  /\ req' = [req EXCEPT ![r].st = "inserted", ![r].held = months,
                        ![r].rows = {e \in @ : ~Conflicts(e)}]
  /\ UNCHANGED <<now, events, acked, agg, job, failures>>

CommitIngest(r) ==
  /\ req[r].st = "inserted"
  /\ events' = events \cup req[r].rows
  /\ acked' = acked \cup req[r].keys
  /\ req' = [req EXCEPT ![r] = NoRequest]
  /\ UNCHANGED <<now, agg, job, failures>>

\* The transaction fails or the process dies: nothing is stored and the
\* client, which got no answer, may send the batch again.
RollbackIngest(r) ==
  /\ req[r].st # "idle"
  /\ failures < MaxFailures
  /\ failures' = failures + 1
  /\ req' = [req EXCEPT ![r] = NoRequest]
  /\ UNCHANGED <<now, events, acked, agg, job>>

----------------------------------------------------------------------------
(* Aggregation. *)

EventsOfHour(h) == {e \in events : Hour(e.at) = h}

\* Mutant: the window leaves its first instant out.
MutantOpenWindow ==
  {Hour(e.at) : e \in {x \in events : x.at > now - Lookback /\ x.at < now}}

\* usage.aggregate_hourly_sweep: the buckets that hold an event recorded in
\* [now - lookback, now).
PendingHours ==
  {Hour(e.at) : e \in {x \in events : x.at >= now - Lookback /\ x.at < now}}

StartSweep(w) ==
  /\ job[w].st = "idle"
  /\ PendingHours # {}
  /\ job' = [job EXCEPT ![w] = [NoJob EXCEPT !.st = "next", !.todo = PendingHours]]
  /\ UNCHANGED <<now, events, acked, req, agg, failures>>

\* usage.aggregate_hourly: one bucket named by the caller.
StartHour(w, h) ==
  /\ job[w].st = "idle"
  /\ job' = [job EXCEPT ![w] = [NoJob EXCEPT !.st = "next", !.todo = {h}]]
  /\ UNCHANGED <<now, events, acked, req, agg, failures>>

\* Mutant: the bucket's upper bound is inclusive.
MutantClosedBucket(w, h) ==
  /\ job[w].st = "next"
  /\ h \in job[w].todo
  /\ job' = [job EXCEPT ![w].st = "summed", ![w].hour = h,
       ![w].sum = {e \in events : e.at >= h * TicksPerHour
                                   /\ e.at <= (h + 1) * TicksPerHour}]
  /\ UNCHANGED <<now, events, acked, req, agg, failures>>

\* aggregate_hour reads the bucket's SUM ...
ReadSum(w, h) ==
  /\ job[w].st = "next"
  /\ h \in job[w].todo
  /\ job' = [job EXCEPT ![w].st = "summed", ![w].hour = h, ![w].sum = EventsOfHour(h)]
  /\ UNCHANGED <<now, events, acked, req, agg, failures>>

\* ... and UPSERTs that value; the row stays locked until the job's commit.
RowLocked(w, h) == \E v \in Workers \ {w} : h \in DOMAIN job[v].wrote

Upserted(j) ==
  [st |-> "next", todo |-> j.todo \ {j.hour}, hour |-> 0, sum |-> {},
   wrote |-> [h \in DOMAIN j.wrote \cup {j.hour} |-> IF h = j.hour THEN j.sum ELSE j.wrote[h]]]

Upsert(w) ==
  /\ job[w].st = "summed"
  /\ ~RowLocked(w, job[w].hour)
  /\ job' = [job EXCEPT ![w] = Upserted(@)]
  /\ UNCHANGED <<now, events, acked, req, agg, failures>>

CommitJob(w) ==
  /\ job[w].st = "next"
  /\ job[w].todo = {}
  /\ agg' = [h \in Hours |-> IF h \in DOMAIN job[w].wrote THEN job[w].wrote[h] ELSE agg[h]]
  /\ job' = [job EXCEPT ![w] = NoJob]
  /\ UNCHANGED <<now, events, acked, req, failures>>

\* A worker dies or its transaction fails; Celery runs the task again.
AbortJob(w) ==
  /\ job[w].st # "idle"
  /\ failures < MaxFailures
  /\ failures' = failures + 1
  /\ job' = [job EXCEPT ![w] = NoJob]
  /\ UNCHANGED <<now, events, acked, req, agg>>

\* Two sweeps visit their buckets in any order and can wait for each other;
\* PostgreSQL then aborts one of them and hands its row to the other, which
\* is first in the lock's queue.
WaitsFor(w, v) == job[w].st = "summed" /\ job[w].hour \in DOMAIN job[v].wrote

BreakDeadlock(w) ==
  /\ \E v \in Workers \ {w} :
       /\ WaitsFor(w, v) /\ WaitsFor(v, w)
       /\ job' = [job EXCEPT ![w] = NoJob, ![v] = Upserted(@)]
  /\ UNCHANGED <<now, events, acked, req, agg, failures>>

Tick ==
  /\ now < MaxTime
  /\ now' = now + 1
  /\ UNCHANGED <<events, acked, req, agg, job, failures>>

Batches == UNION {[1..n -> Row] : n \in 1..MaxBatch}

Next ==
  \/ \E r \in Requests, b \in Batches : LookUp(r, b)
  \/ \E r \in Requests : Insert(r) \/ CommitIngest(r) \/ RollbackIngest(r)
  \/ \E w \in Workers : StartSweep(w) \/ Upsert(w) \/ CommitJob(w)
                        \/ AbortJob(w) \/ BreakDeadlock(w)
  \/ \E w \in Workers, h \in Hours : StartHour(w, h) \/ ReadSum(w, h)
  \/ Tick

Spec == Init /\ [][Next]_vars

\* Celery runs a started task to its end, and beat starts the sweep every
\* hour; an event stays inside the lookback window for many sweeps.  An
\* upsert that waits for a row gets it in the end, because PostgreSQL queues
\* the waiters of a lock.
Fairness ==
  /\ WF_vars(Tick)
  /\ \A w \in Workers :
       /\ SF_vars(StartSweep(w))
       /\ WF_vars((\E h \in Hours : ReadSum(w, h)) \/ CommitJob(w))
       /\ SF_vars(Upsert(w))
       /\ WF_vars(BreakDeadlock(w))

FairSpec == Spec /\ Fairness

----------------------------------------------------------------------------
(* Properties. *)

\* A key answered with 200 is stored, and within a month it is stored once,
\* however concurrent copies of a batch interleave their look-up, their
\* insert and their rollbacks.
AcknowledgedStoredOncePerMonth ==
  /\ \A k \in acked : Stored(k)
  /\ \A e, f \in events : e.key = f.key /\ Month(e.at) = Month(f.at) => e = f

\* An hourly aggregate sums events of its own hour that are committed: no
\* aggregate counts a request that was rolled back or an event of another
\* bucket.
AggregateCountsStoredEvents == \A h \in Hours : agg[h] \subseteq EventsOfHour(h)

\* Once the clock stands still, every aggregate of an hour inside the
\* sweep's window settles on the sum of the stored events, even though two
\* overlapping jobs can overwrite a newer sum with an older one.
AggregatesConverge ==
  <>[](\A e \in events :
         (e.at >= MaxTime - Lookback /\ e.at < MaxTime) => e \in agg[Hour(e.at)])

\* Documented: a key is "unique per org" and ingestion resolves keys "across
\* all partitions", so that no key is stored twice.
KeyStoredOnce == \A e, f \in events : e.key = f.key => e = f
============================================================================
