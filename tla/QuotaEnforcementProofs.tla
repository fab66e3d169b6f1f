----------------------- MODULE QuotaEnforcementProofs -----------------------
(***************************************************************************)
(* Theorems about UsageMetering and QuotaEnforcement, for any number of    *)
(* keys, requests and workers, any batch size, clock, bucket width, window *)
(* and period, and any plan; and about the build lock of EntitlementCache, *)
(* whose snapshots evaluate answers from, for any readers and writers.     *)
(***************************************************************************)
EXTENDS QuotaEnforcement, BuildLock, FiniteSetTheorems, TLAPS

CONSTANTS Procs, Writers, ProcOf, WriteKinds, HasReplica,
          MaxWrites, MaxExpiries, MaxFaults
VARIABLES db, replica, version, snapshot, l1, writer, bumped, faults, writes

(* The cache of the snapshots that evaluate answers from. *)
Cache == INSTANCE EntitlementCache

Writes == UNION {[D -> SUBSET Row] : D \in SUBSET Hours}

Request == [st : {"idle", "looked", "inserted"}, keys : SUBSET Keys, rows : SUBSET Row,
            held : SUBSET Int]

Job == [st : {"idle", "next", "summed"}, todo : SUBSET Hours, hour : Hours,
        sum : SUBSET Row, wrote : Writes]

TypeOK ==
  /\ now \in Nat
  /\ events \in SUBSET Row
  /\ acked \in SUBSET Keys
  /\ req \in [Requests -> Request]
  /\ agg \in [Hours -> SUBSET Row]
  /\ job \in [Workers -> Job]

(* An open request: each key of its batch is stored or among its rows,     *)
(* which have different keys; what it has inserted conflicts with nothing  *)
(* committed, and it holds the locks of the months it has inserted into.   *)
RequestInv(r) ==
  /\ \A k \in req[r].keys : Stored(k) \/ \E e \in req[r].rows : e.key = k
  /\ \A e, f \in req[r].rows : e.key = f.key => e = f
  /\ req[r].st # "inserted" => req[r].held = {}
  /\ req[r].st = "inserted" => \A e \in req[r].rows : Month(e.at) \in req[r].held /\ ~Conflicts(e)
  /\ IsFiniteSet(req[r].rows)

(* The advisory lock of a month has one holder. *)
HeldApart == \A q, r \in Requests : q # r => req[q].held \cap req[r].held = {}

(* What a job has read or written counts stored events of the hour. *)
JobInv(w) ==
  /\ job[w].st = "summed" => job[w].sum \subseteq EventsOfHour(job[w].hour)
  /\ \A h \in DOMAIN job[w].wrote : job[w].wrote[h] \subseteq EventsOfHour(h)

IInv == /\ TypeOK
        /\ IsFiniteSet(events)
        /\ \A r \in Requests : RequestInv(r)
        /\ HeldApart
        /\ \A w \in Workers : JobInv(w)
        /\ AcknowledgedStoredOncePerMonth
        /\ AggregateCountsStoredEvents

-----------------------------------------------------------------------------
(* Hours, and the rows of a batch.                                         *)

(* The bucket of an instant is one of the buckets. *)
LEMMA HourType ==
  /\ \A t \in Time : Hour(t) \in Hours
  /\ \A e \in Row : Hour(e.at) \in Hours
  /\ 0 \in Hours
<1>1. \A t \in Time : Hour(t) \in Hours BY DEF Hours
<1>2. \A e \in Row : e.at \in Time BY UsageAssumption DEF Row, Time
<1>3. 0 \in Time /\ Hour(0) = 0 BY UsageAssumption DEF Time, Hour
<1> QED BY <1>1, <1>2, <1>3

(* A quotient is a natural number. *)
LEMMA QuotientType ==
  ASSUME NEW t \in Nat, NEW c \in Nat \ {0}
  PROVE  t \div c \in Nat
OBVIOUS

(* The time of a row, and its month. *)
LEMMA RowTimes ==
  ASSUME NEW e \in Row
  PROVE  e.at \in Nat /\ Month(e.at) \in Int
<1>1. MaxTime \in Nat /\ Recorded \subseteq 0..MaxTime /\ TicksPerMonth \in Nat \ {0}
  BY UsageAssumption
<1>2. e.at \in Recorded BY DEF Row
<1>3. e.at \in 0..MaxTime BY <1>1, <1>2, Zenon
<1>4. e.at \in Nat BY <1>1, <1>3
<1>5. Month(e.at) \in Nat BY <1>1, <1>4, QuotientType DEF Month
<1> QED BY <1>4, <1>5

(* Of a set of positions one is the first; by the well-founded ordering of *)
(* the initial segments.                                                   *)
LEMMA FirstPosition ==
  ASSUME NEW S \in SUBSET Nat, S # {}
  PROVE  \E n \in S : \A m \in S : n <= m
<1> DEFINE F == FiniteSubsetsOf(Nat)
           R == StrictSubsetOrdering(Nat)
           T == {0..n : n \in S}
<1>1. IsWellFoundedOn(R, F) BY FS_StrictSubsetOrderingWellFounded
<1>2. \A n \in S : 0..n \in SUBSET Nat /\ IsFiniteSet(0..n) BY FS_Interval
<1>3. T \subseteq F /\ T # {} BY <1>2 DEF FiniteSubsetsOf
<1>4. PICK I \in T : \A J \in T : ~(<<J, I>> \in R) BY <1>1, <1>3, WFMin
<1>5. PICK n \in S : I = 0..n BY <1>4
<1>6. ASSUME NEW m \in S PROVE n <= m
  <2>1. ~(<<0..m, 0..n>> \in R) BY <1>4, <1>5
  <2> SUFFICES ASSUME m < n PROVE FALSE BY <1>6, <1>5
  <2>2. 0..m \subseteq 0..n /\ n \in 0..n /\ n \notin 0..m BY <1>5, <1>6
  <2>3. 0..m \in SUBSET Nat /\ 0..n \in SUBSET Nat /\ 0..m # 0..n BY <1>2, <2>2
  <2> QED BY <2>1, <2>2, <2>3 DEF StrictSubsetOrdering
<1> QED BY <1>5, <1>6

(* The look-up keeps one row of each key that is not stored. *)
LEMMA FreshRowsLemma ==
  ASSUME NEW b \in Batches
  PROVE  /\ FreshRows(b) \in SUBSET Row /\ IsFiniteSet(FreshRows(b))
         /\ KeysOf(b) \in SUBSET Keys
         /\ \A k \in KeysOf(b) : Stored(k) \/ \E e \in FreshRows(b) : e.key = k
         /\ \A e, f \in FreshRows(b) : e.key = f.key => e = f
<1>1. PICK n \in 1..MaxBatch : b \in [1..n -> Row] BY DEF Batches
<1>2. n \in Nat BY UsageAssumption
<1> DEFINE First == {j \in 1..n : /\ ~Stored(b[j].key)
                                  /\ \A k \in 1..(j - 1) : b[k].key # b[j].key}
<1>3. FreshRows(b) = {b[i] : i \in First} BY <1>1 DEF FreshRows
<1>4. IsFiniteSet(FreshRows(b))
  <2>1. IsFiniteSet(First) BY <1>2, FS_Interval, FS_Subset
  <2>2. [i \in First |-> b[i]] \in Surjection(First, FreshRows(b))
    BY <1>3 DEF Surjection
  <2> QED BY <2>1, <2>2, FS_Surjection
<1>5. FreshRows(b) \in SUBSET Row BY <1>1, <1>3
<1>6. \A k \in KeysOf(b) : \E i \in 1..n : b[i].key = k
  BY <1>1 DEF KeysOf, Range
<1>7. KeysOf(b) \in SUBSET Keys
  BY <1>1, <1>6 DEF Row
<1>8. ASSUME NEW k \in KeysOf(b), ~Stored(k) PROVE \E e \in FreshRows(b) : e.key = k
  <2> DEFINE S == {i \in 1..n : b[i].key = k}
  <2>1. S \in SUBSET Nat /\ S # {} BY <1>2, <1>6
  <2>2. PICK i \in S : \A m \in S : i <= m BY <2>1, FirstPosition
  <2>3. \A m \in 1..(i - 1) : b[m].key # k
    <3> SUFFICES ASSUME NEW m \in 1..(i - 1), b[m].key = k PROVE FALSE OBVIOUS
    <3>1. m \in S /\ m < i BY <1>2, <2>2
    <3> QED BY <1>2, <2>2, <3>1
  <2>4. i \in First BY <1>8, <2>2, <2>3
  <2> QED BY <1>3, <2>2, <2>4
<1>9. ASSUME NEW e \in FreshRows(b), NEW f \in FreshRows(b), e.key = f.key PROVE e = f
  <2>1. PICK i \in First : e = b[i] BY <1>3
  <2>2. PICK j \in First : f = b[j] BY <1>3
  <2>3. ~(i < j) /\ ~(j < i) BY <1>2, <1>9, <2>1, <2>2
  <2>4. i = j BY <1>2, <2>1, <2>2, <2>3
  <2> QED BY <2>1, <2>2, <2>4
<1> QED BY <1>4, <1>5, <1>7, <1>8, <1>9

-----------------------------------------------------------------------------
(* Ingestion.                                                              *)

(* Storing more events breaks nothing that a job has read. *)
LEMMA JobsKept ==
  ASSUME IInv, events \subseteq events', job' = job, agg' = agg
  PROVE  (\A w \in Workers : JobInv(w)') /\ AggregateCountsStoredEvents'
<1>1. \A h : EventsOfHour(h) \subseteq EventsOfHour(h)' BY DEF EventsOfHour
<1>2. \A w \in Workers : JobInv(w)' BY <1>1 DEF IInv, JobInv
<1> QED BY <1>1, <1>2 DEF IInv, AggregateCountsStoredEvents

(* A request that does nothing, while no event is stored. *)
LEMMA RequestKept ==
  ASSUME NEW r, RequestInv(r), req'[r] = req[r], events' = events
  PROVE  RequestInv(r)'
BY DEF RequestInv, Stored, Conflicts

(* The look-up. *)
LEMMA LookUpIInv ==
  ASSUME IInv, NEW r \in Requests, NEW b \in Batches, LookUp(r, b)
  PROVE  IInv'
<1>0. now' = now /\ events' = events /\ agg' = agg /\ job' = job BY DEF LookUp
<1>1. (\A w \in Workers : JobInv(w)') /\ AggregateCountsStoredEvents' BY <1>0, JobsKept
<1>2. CASE FreshRows(b) = {}
  <2>1. acked' = acked \cup KeysOf(b) /\ req' = req BY <1>2 DEF LookUp
  <2>2. KeysOf(b) \in SUBSET Keys /\ \A k \in KeysOf(b) : Stored(k) BY <1>2, FreshRowsLemma
  <2>3. TypeOK' BY <1>0, <2>1, <2>2 DEF IInv, TypeOK
  <2>4. AcknowledgedStoredOncePerMonth'
    BY <1>0, <2>1, <2>2 DEF IInv, AcknowledgedStoredOncePerMonth, Stored
  <2>5. (\A q \in Requests : RequestInv(q)') /\ HeldApart'
    BY <1>0, <2>1, RequestKept DEF IInv, HeldApart
  <2> QED BY <1>0, <1>1, <2>3, <2>4, <2>5 DEF IInv
<1>3. CASE FreshRows(b) # {}
  <2> DEFINE q == [NoRequest EXCEPT !.st = "looked", !.keys = KeysOf(b), !.rows = FreshRows(b)]
  <2>1. acked' = acked /\ req' = [req EXCEPT ![r] = q] BY <1>3 DEF LookUp
  <2>2. q \in Request /\ q.st = "looked" /\ q.keys = KeysOf(b) /\ q.rows = FreshRows(b) /\ q.held = {}
    BY FreshRowsLemma DEF NoRequest, Request
  <2> HIDE DEF q
  <2>3. \A v \in Requests : req'[v] = IF v = r THEN q ELSE req[v]
    BY <2>1 DEF IInv, TypeOK
  <2>4. TypeOK' BY <1>0, <2>1, <2>2 DEF IInv, TypeOK
  <2>5. AcknowledgedStoredOncePerMonth'
    BY <1>0, <2>1 DEF IInv, AcknowledgedStoredOncePerMonth, Stored
  <2>6. RequestInv(r)' BY <1>0, <2>2, <2>3, FreshRowsLemma DEF RequestInv, Stored
  <2>7. \A v \in Requests : RequestInv(v)' BY <1>0, <2>3, <2>6, RequestKept DEF IInv
  <2>8. HeldApart' BY <2>2, <2>3 DEF IInv, HeldApart
  <2> QED BY <1>0, <1>1, <2>4, <2>5, <2>7, <2>8 DEF IInv
<1> QED BY <1>2, <1>3

(* The insert: conflicting rows are left out, and their keys are stored.   *)
(* The locks of the other months belong to others.                         *)
LEMMA InsertIInv ==
  ASSUME IInv, NEW r \in Requests, Insert(r)
  PROVE  IInv'
<1> DEFINE months == {Month(e.at) : e \in req[r].rows}
           rows == {e \in req[r].rows : ~Conflicts(e)}
           q == [req[r] EXCEPT !.st = "inserted", !.held = months, !.rows = rows]
<1>0. /\ now' = now /\ events' = events /\ agg' = agg /\ job' = job /\ acked' = acked
      /\ req' = [req EXCEPT ![r] = q]
      /\ \A v \in Requests \ {r} : req[v].held \cap months = {}
  BY DEF Insert
<1>1. (\A w \in Workers : JobInv(w)') /\ AggregateCountsStoredEvents' BY <1>0, JobsKept
<1>2. req[r] \in Request /\ RequestInv(r) BY DEF IInv, TypeOK
<1>3. months \in SUBSET Int
  <2>1. \A e \in Row : Month(e.at) \in Int BY RowTimes
  <2> QED BY <1>2, <2>1 DEF Request
<1>4. ASSUME NEW e \in rows PROVE Month(e.at) \in months
  <2>1. e \in req[r].rows OBVIOUS
  <2> QED BY <2>1
<1>5. rows \subseteq req[r].rows /\ IsFiniteSet(rows)
  BY <1>2, FS_Subset DEF RequestInv
<1>6. \A k \in req[r].keys : Stored(k) \/ \E e \in rows : e.key = k
  BY <1>2 DEF RequestInv, Conflicts, Stored
<1>7. \A e \in rows : ~Conflicts(e) OBVIOUS
<1> HIDE DEF months, rows
<1>8. q \in Request /\ q.st = "inserted" /\ q.keys = req[r].keys /\ q.rows = rows /\ q.held = months
  BY <1>2, <1>3, <1>5 DEF Request
<1> HIDE DEF q
<1>9. \A v \in Requests : req'[v] = IF v = r THEN q ELSE req[v]
  BY <1>0 DEF IInv, TypeOK
<1>10. TypeOK' BY <1>0, <1>8 DEF IInv, TypeOK
<1>11. AcknowledgedStoredOncePerMonth'
  BY <1>0 DEF IInv, AcknowledgedStoredOncePerMonth, Stored
<1>12. RequestInv(r)'
  <2>1. \A e, f \in rows : e.key = f.key => e = f BY <1>2, <1>5 DEF RequestInv
  <2> QED BY <1>0, <1>4, <1>5, <1>6, <1>7, <1>8, <1>9, <2>1 DEF RequestInv, Stored, Conflicts
<1>13. \A v \in Requests : RequestInv(v)' BY <1>0, <1>9, <1>12, RequestKept DEF IInv
<1>14. HeldApart' BY <1>0, <1>8, <1>9 DEF IInv, HeldApart
<1> QED BY <1>0, <1>1, <1>10, <1>11, <1>13, <1>14 DEF IInv

(* An empty request. *)
LEMMA NoRequestLemma ==
  /\ NoRequest \in Request /\ NoRequest.keys = {} /\ NoRequest.rows = {} /\ NoRequest.held = {}
  /\ NoRequest.st = "idle" /\ IsFiniteSet(NoRequest.rows)
BY FS_EmptySet DEF NoRequest, Request

(* The commit: the other requests hold the locks of other months, so none  *)
(* of their rows conflicts with the rows that are stored now.              *)
LEMMA CommitIngestIInv ==
  ASSUME IInv, NEW r \in Requests, CommitIngest(r)
  PROVE  IInv'
<1>0. /\ now' = now /\ agg' = agg /\ job' = job /\ req[r].st = "inserted"
      /\ events' = events \cup req[r].rows /\ acked' = acked \cup req[r].keys
      /\ req' = [req EXCEPT ![r] = NoRequest]
  BY DEF CommitIngest
<1>1. (\A w \in Workers : JobInv(w)') /\ AggregateCountsStoredEvents' BY <1>0, JobsKept
<1>2. req[r] \in Request /\ RequestInv(r) BY DEF IInv, TypeOK
<1>3. \A v \in Requests : req'[v] = IF v = r THEN NoRequest ELSE req[v]
  BY <1>0 DEF IInv, TypeOK
<1>4. TypeOK' BY <1>0, <1>2, NoRequestLemma DEF IInv, TypeOK, Request
<1>5. IsFiniteSet(events') BY <1>0, <1>2, FS_Union DEF IInv, RequestInv
<1>6. \A k : Stored(k) => Stored(k)' BY <1>0 DEF Stored
<1>7. \A k \in req[r].keys : Stored(k)' BY <1>0, <1>2 DEF RequestInv, Stored
<1>8. AcknowledgedStoredOncePerMonth'
  <2>1. \A k \in acked' : Stored(k)' BY <1>0, <1>6, <1>7 DEF IInv, AcknowledgedStoredOncePerMonth
  <2>2. ASSUME NEW e \in events', NEW f \in events', e.key = f.key, Month(e.at) = Month(f.at)
        PROVE  e = f
    <3>1. CASE e \in events /\ f \in events
      BY <2>2, <3>1 DEF IInv, AcknowledgedStoredOncePerMonth
    <3>2. CASE e \in req[r].rows /\ f \in req[r].rows BY <1>2, <2>2, <3>2 DEF RequestInv
    <3>3. CASE e \in events /\ f \in req[r].rows BY <1>0, <1>2, <2>2, <3>3 DEF RequestInv, Conflicts
    <3>4. CASE e \in req[r].rows /\ f \in events BY <1>0, <1>2, <2>2, <3>4 DEF RequestInv, Conflicts
    <3> QED BY <1>0, <3>1, <3>2, <3>3, <3>4
  <2> QED BY <2>1, <2>2 DEF AcknowledgedStoredOncePerMonth
<1>9. RequestInv(r)'
  BY <1>3, NoRequestLemma DEF RequestInv
<1>10. ASSUME NEW v \in Requests, v # r PROVE RequestInv(v)'
  <2>1. req'[v] = req[v] /\ RequestInv(v) BY <1>3, <1>10 DEF IInv
  <2>2. ASSUME req[v].st = "inserted", NEW e \in req[v].rows PROVE ~Conflicts(e)'
    <3>1. Month(e.at) \in req[v].held /\ ~Conflicts(e) BY <2>1, <2>2 DEF RequestInv
    <3>2. \A f \in req[r].rows : Month(f.at) \in req[r].held BY <1>0, <1>2 DEF RequestInv
    <3>3. req[v].held \cap req[r].held = {} BY <1>10 DEF IInv, HeldApart
    <3>4. \A f \in req[r].rows : Month(f.at) # Month(e.at) BY <3>1, <3>2, <3>3
    <3> QED BY <1>0, <3>1, <3>4 DEF Conflicts
  <2> QED BY <1>6, <2>1, <2>2 DEF RequestInv
<1>11. HeldApart' BY <1>3, NoRequestLemma DEF IInv, HeldApart
<1> QED BY <1>1, <1>4, <1>5, <1>8, <1>9, <1>10, <1>11 DEF IInv

(* The rollback. *)
LEMMA RollbackIngestIInv ==
  ASSUME IInv, NEW r \in Requests, RollbackIngest(r)
  PROVE  IInv'
<1>0. /\ now' = now /\ agg' = agg /\ job' = job /\ events' = events /\ acked' = acked
      /\ req' = [req EXCEPT ![r] = NoRequest]
  BY DEF RollbackIngest
<1>1. (\A w \in Workers : JobInv(w)') /\ AggregateCountsStoredEvents' BY <1>0, JobsKept
<1>2. \A v \in Requests : req'[v] = IF v = r THEN NoRequest ELSE req[v]
  BY <1>0 DEF IInv, TypeOK
<1>3. TypeOK' BY <1>0, NoRequestLemma DEF IInv, TypeOK
<1>4. AcknowledgedStoredOncePerMonth'
  BY <1>0 DEF IInv, AcknowledgedStoredOncePerMonth, Stored
<1>5. RequestInv(r)' BY <1>2, NoRequestLemma DEF RequestInv
<1>6. \A v \in Requests : RequestInv(v)' BY <1>0, <1>2, <1>5, RequestKept DEF IInv
<1>7. HeldApart' BY <1>2, NoRequestLemma DEF IInv, HeldApart
<1> QED BY <1>0, <1>1, <1>3, <1>4, <1>6, <1>7 DEF IInv

-----------------------------------------------------------------------------
(* Aggregation.                                                            *)

(* A step of the jobs leaves the ingestion alone. *)
LEMMA JobStep ==
  ASSUME IInv, now' \in Nat, UNCHANGED <<events, acked, req>>,
         agg' \in [Hours -> SUBSET Row], job' \in [Workers -> Job],
         \A w \in Workers : JobInv(w)',
         AggregateCountsStoredEvents'
  PROVE  IInv'
<1>1. TypeOK' BY DEF IInv, TypeOK
<1>2. \A r \in Requests : RequestInv(r)' BY RequestKept DEF IInv
<1>3. HeldApart' /\ AcknowledgedStoredOncePerMonth'
  BY DEF IInv, HeldApart, AcknowledgedStoredOncePerMonth, Stored
<1> QED BY <1>1, <1>2, <1>3 DEF IInv

(* A worker's job becomes j, and nothing else changes. *)
LEMMA WorkerStep ==
  ASSUME IInv, UNCHANGED <<now, events, acked, req, agg>>,
         NEW w \in Workers, NEW j \in Job, job' = [job EXCEPT ![w] = j],
         j.st = "summed" => j.sum \subseteq EventsOfHour(j.hour),
         \A h \in DOMAIN j.wrote : j.wrote[h] \subseteq EventsOfHour(h)
  PROVE  IInv'
<1>1. \A v \in Workers : job'[v] = IF v = w THEN j ELSE job[v] BY DEF IInv, TypeOK
<1>2. job' \in [Workers -> Job] BY DEF IInv, TypeOK
<1>3. \A h : EventsOfHour(h)' = EventsOfHour(h) BY DEF EventsOfHour
<1>4. \A v \in Workers : JobInv(v)' BY <1>1, <1>3 DEF IInv, JobInv
<1>5. AggregateCountsStoredEvents' BY <1>3 DEF IInv, AggregateCountsStoredEvents
<1> QED BY <1>2, <1>4, <1>5, JobStep DEF IInv, TypeOK

(* A job that has written nothing. *)
LEMMA NoJobLemma ==
  /\ NoJob \in Job /\ NoJob.st = "idle" /\ DOMAIN NoJob.wrote = {}
<1>1. [h \in {} |-> {}] \in [{} -> SUBSET Row] /\ {} \in SUBSET Hours OBVIOUS
<1>2. [h \in {} |-> {}] \in Writes BY <1>1 DEF Writes
<1> QED BY <1>2, HourType DEF NoJob, Job

(* A job starts with the buckets of a set. *)
LEMMA StartIInv ==
  ASSUME IInv, NEW w \in Workers, NEW hours \in SUBSET Hours,
         job' = [job EXCEPT ![w] = [NoJob EXCEPT !.st = "next", !.todo = hours]],
         UNCHANGED <<now, events, acked, req, agg>>
  PROVE  IInv'
<1> DEFINE j == [NoJob EXCEPT !.st = "next", !.todo = hours]
<1>1. j \in Job /\ j.st = "next" /\ j.wrote = NoJob.wrote
  BY NoJobLemma DEF Job
<1> HIDE DEF j
<1>2. job' = [job EXCEPT ![w] = j] BY DEF j
<1> QED BY <1>1, <1>2, NoJobLemma, WorkerStep

(* The sweep finds its buckets among the stored events. *)
LEMMA StartSweepIInv ==
  ASSUME IInv, NEW w \in Workers, StartSweep(w)
  PROVE  IInv'
<1>1. PendingHours \in SUBSET Hours BY HourType DEF PendingHours, IInv, TypeOK
<1> QED BY <1>1, StartIInv DEF StartSweep

(* One bucket is asked for. *)
LEMMA StartHourIInv ==
  ASSUME IInv, NEW w \in Workers, NEW h \in Hours, StartHour(w, h)
  PROVE  IInv'
<1>1. {h} \in SUBSET Hours OBVIOUS
<1> QED BY <1>1, StartIInv DEF StartHour

(* The sum is read. *)
LEMMA ReadSumIInv ==
  ASSUME IInv, NEW w \in Workers, NEW h \in Hours, ReadSum(w, h)
  PROVE  IInv'
<1> DEFINE j == [job[w] EXCEPT !.st = "summed", !.hour = h, !.sum = EventsOfHour(h)]
<1>1. job[w] \in Job /\ JobInv(w) /\ EventsOfHour(h) \in SUBSET Row
  BY DEF IInv, TypeOK, EventsOfHour
<1>2. /\ j \in Job /\ j.st = "summed" /\ j.hour = h /\ j.sum = EventsOfHour(h)
      /\ j.wrote = job[w].wrote
  BY <1>1 DEF Job
<1>3. job' = [job EXCEPT ![w] = j] /\ UNCHANGED <<now, events, acked, req, agg>> BY DEF ReadSum
<1> HIDE DEF j
<1> QED BY <1>1, <1>2, <1>3, WorkerStep DEF JobInv

(* What a job is after an upsert. *)
LEMMA UpsertedLemma ==
  ASSUME IInv, NEW w \in Workers, job[w].st = "summed"
  PROVE  /\ Upserted(job[w]) \in Job /\ Upserted(job[w]).st = "next"
         /\ \A h \in DOMAIN Upserted(job[w]).wrote : Upserted(job[w]).wrote[h] \subseteq EventsOfHour(h)
<1> DEFINE i == job[w]
           f == [h \in DOMAIN i.wrote \cup {i.hour} |-> IF h = i.hour THEN i.sum ELSE i.wrote[h]]
           j == [st |-> "next", todo |-> i.todo \ {i.hour}, hour |-> 0, sum |-> {}, wrote |-> f]
<1>1. Upserted(job[w]) = j BY DEF Upserted
<1>2. i \in Job /\ JobInv(w) BY DEF IInv, TypeOK
<1>3. i.todo \in SUBSET Hours /\ i.hour \in Hours /\ i.sum \in SUBSET Row /\ i.wrote \in Writes
  BY <1>2 DEF Job
<1>4. PICK D \in SUBSET Hours : i.wrote \in [D -> SUBSET Row] BY <1>3 DEF Writes
<1>5. DOMAIN i.wrote = D BY <1>4
<1>6. f \in [D \cup {i.hour} -> SUBSET Row] /\ D \cup {i.hour} \in SUBSET Hours
  BY <1>3, <1>4, <1>5
<1>7. f \in Writes BY <1>6 DEF Writes
<1>8. \A h \in DOMAIN f : f[h] \subseteq EventsOfHour(h)
  BY <1>2 DEF JobInv
<1> HIDE DEF f
<1>9. j \in Job /\ j.st = "next" /\ j.wrote = f
  BY <1>3, <1>7, HourType DEF Job
<1> HIDE DEF j
<1> QED BY <1>1, <1>8, <1>9

(* The upsert. *)
LEMMA UpsertIInv ==
  ASSUME IInv, NEW w \in Workers, Upsert(w)
  PROVE  IInv'
<1>1. /\ job[w].st = "summed" /\ job' = [job EXCEPT ![w] = Upserted(job[w])]
      /\ UNCHANGED <<now, events, acked, req, agg>>
  BY DEF Upsert
<1> QED BY <1>1, UpsertedLemma, WorkerStep

(* A job that is dropped. *)
LEMMA AbortJobIInv ==
  ASSUME IInv, NEW w \in Workers, AbortJob(w)
  PROVE  IInv'
BY NoJobLemma, WorkerStep DEF AbortJob

(* A deadlock: one job is dropped and the other gets its row. *)
LEMMA BreakDeadlockIInv ==
  ASSUME IInv, NEW w \in Workers, BreakDeadlock(w)
  PROVE  IInv'
<1>1. PICK v \in Workers \ {w} :
        WaitsFor(v, w) /\ job' = [job EXCEPT ![w] = NoJob, ![v] = Upserted(@)]
  BY DEF BreakDeadlock
<1>2. now' = now /\ events' = events /\ acked' = acked /\ req' = req /\ agg' = agg
  BY DEF BreakDeadlock
<1>3. job[v].st = "summed" BY <1>1 DEF WaitsFor
<1>4. /\ Upserted(job[v]) \in Job /\ Upserted(job[v]).st = "next"
      /\ \A h \in DOMAIN Upserted(job[v]).wrote : Upserted(job[v]).wrote[h] \subseteq EventsOfHour(h)
  BY <1>3, UpsertedLemma
<1> DEFINE j == Upserted(job[v])
<1>5. \A u \in Workers : job'[u] = IF u = w THEN NoJob ELSE IF u = v THEN j ELSE job[u]
  BY <1>1 DEF IInv, TypeOK
<1> HIDE DEF j
<1>6. job' = [u \in Workers |-> job'[u]]
  BY <1>1 DEF IInv, TypeOK
<1>7. \A u \in Workers : job'[u] \in Job
  BY <1>4, <1>5, NoJobLemma DEF IInv, TypeOK, j
<1>8. job' \in [Workers -> Job] BY <1>6, <1>7
<1>9. \A h : EventsOfHour(h)' = EventsOfHour(h) BY <1>2 DEF EventsOfHour
<1>10. \A u \in Workers : JobInv(u)'
  <2>1. JobInv(w)' BY <1>5, NoJobLemma DEF JobInv
  <2>2. JobInv(v)' BY <1>1, <1>4, <1>5, <1>9 DEF JobInv, j
  <2>3. ASSUME NEW u \in Workers, u # w, u # v PROVE JobInv(u)'
    BY <1>5, <1>9, <2>3 DEF IInv, JobInv
  <2> QED BY <2>1, <2>2, <2>3
<1>11. AggregateCountsStoredEvents' BY <1>2, <1>9 DEF IInv, AggregateCountsStoredEvents
<1> QED BY <1>2, <1>8, <1>10, <1>11, JobStep DEF IInv, TypeOK

(* The commit of a job: its hours get the sums it wrote. *)
LEMMA CommitJobIInv ==
  ASSUME IInv, NEW w \in Workers, CommitJob(w)
  PROVE  IInv'
<1> DEFINE wrote == job[w].wrote
<1>1. /\ now' = now /\ events' = events /\ acked' = acked /\ req' = req
      /\ job' = [job EXCEPT ![w] = NoJob]
      /\ agg' = [h \in Hours |-> IF h \in DOMAIN wrote THEN wrote[h] ELSE agg[h]]
  BY DEF CommitJob
<1>2. \A h : EventsOfHour(h)' = EventsOfHour(h) BY <1>1 DEF EventsOfHour
<1>3. \A h \in DOMAIN wrote : wrote[h] \subseteq EventsOfHour(h) BY DEF IInv, JobInv
<1> HIDE DEF wrote
<1>4. \A h \in Hours : agg'[h] \subseteq EventsOfHour(h)
  BY <1>1, <1>3 DEF IInv, AggregateCountsStoredEvents
<1>5. AggregateCountsStoredEvents' BY <1>2, <1>4 DEF AggregateCountsStoredEvents
<1>6. \A h \in Hours : agg'[h] \in SUBSET Row BY <1>4 DEF EventsOfHour, IInv, TypeOK
<1>7. agg' = [h \in Hours |-> agg'[h]] BY <1>1
<1>8. agg' \in [Hours -> SUBSET Row] BY <1>6, <1>7
<1>9. /\ job' \in [Workers -> Job]
      /\ \A v \in Workers : job'[v] = IF v = w THEN NoJob ELSE job[v]
  BY <1>1, NoJobLemma DEF IInv, TypeOK
<1>10. \A v \in Workers : JobInv(v)' BY <1>2, <1>9, NoJobLemma DEF IInv, JobInv
<1> QED BY <1>1, <1>5, <1>8, <1>9, <1>10, JobStep DEF IInv, TypeOK

(* Time passes, or nothing happens. *)
LEMMA ClockIInv ==
  ASSUME IInv, now' \in Nat, UNCHANGED <<events, acked, req, agg, job>>
  PROVE  IInv'
<1>1. (\A w \in Workers : JobInv(w)') /\ AggregateCountsStoredEvents' BY JobsKept
<1> QED BY <1>1, JobStep DEF IInv, TypeOK

-----------------------------------------------------------------------------
(* The theorems about metering.                                            *)

(* Every step keeps the invariant. *)
LEMMA NextIInv ==
  ASSUME IInv, [Next]_vars
  PROVE  IInv'
<1>1. CASE UNCHANGED vars BY <1>1, ClockIInv DEF vars, IInv, TypeOK
<1>2. CASE \E r \in Requests, b \in Batches : LookUp(r, b) BY <1>2, LookUpIInv
<1>3. CASE \E r \in Requests : Insert(r) \/ CommitIngest(r) \/ RollbackIngest(r)
  BY <1>3, InsertIInv, CommitIngestIInv, RollbackIngestIInv
<1>4. CASE \E w \in Workers : StartSweep(w) \/ Upsert(w) \/ CommitJob(w) \/ AbortJob(w) \/ BreakDeadlock(w)
  BY <1>4, StartSweepIInv, UpsertIInv, CommitJobIInv, AbortJobIInv, BreakDeadlockIInv
<1>5. CASE \E w \in Workers, h \in Hours : StartHour(w, h) \/ ReadSum(w, h)
  BY <1>5, StartHourIInv, ReadSumIInv
<1>6. CASE Tick BY <1>6, ClockIInv DEF Tick, IInv, TypeOK
<1> QED BY <1>1, <1>2, <1>3, <1>4, <1>5, <1>6 DEF Next

(* Initially nothing is stored. *)
LEMMA InitIInv ==
  ASSUME Init
  PROVE  IInv
<1>1. TypeOK BY NoRequestLemma, NoJobLemma DEF Init, TypeOK
<1>2. IsFiniteSet(events) BY FS_EmptySet DEF Init
<1>3. (\A r \in Requests : RequestInv(r)) /\ HeldApart
  BY NoRequestLemma DEF Init, RequestInv, HeldApart
<1>4. \A w \in Workers : JobInv(w) BY NoJobLemma DEF Init, JobInv
<1>5. AcknowledgedStoredOncePerMonth /\ AggregateCountsStoredEvents
  BY DEF Init, AcknowledgedStoredOncePerMonth, AggregateCountsStoredEvents
<1> QED BY <1>1, <1>2, <1>3, <1>4, <1>5 DEF IInv

(* The inductive invariant of ingestion and aggregation. *)
THEOREM Invariance == Spec => []IInv
<1>1. Init => IInv BY InitIInv
<1>2. IInv /\ [Next]_vars => IInv' BY NextIInv
<1> QED BY <1>1, <1>2, PTL DEF Spec

(* ingest_usage_batch: an acknowledged key is stored, and within a month   *)
(* only once, because the month's advisory lock is held from the INSERT    *)
(* that finds no conflict to the commit.                                   *)
THEOREM StoredOnce == Spec => []AcknowledgedStoredOncePerMonth
<1>1. IInv => AcknowledgedStoredOncePerMonth BY DEF IInv
<1> QED BY <1>1, Invariance, PTL

(* aggregate_hour: an aggregate never counts what was rolled back or       *)
(* belongs to another hour, whatever sweeps overlap, die or deadlock.      *)
THEOREM AggregateSound == Spec => []AggregateCountsStoredEvents
<1>1. IInv => AggregateCountsStoredEvents BY DEF IInv
<1> QED BY <1>1, Invariance, PTL

-----------------------------------------------------------------------------
(* Windows.                                                                *)

(* Rounding down to a multiple. *)
LEMMA FloorLemma ==
  ASSUME NEW t \in Nat, NEW c \in Nat \ {0}
  PROVE  /\ Floor(t, c) \in Nat /\ t \div c \in Nat
         /\ Floor(t, c) <= t /\ t < (t \div c + 1) * c
BY DEF Floor

(* Rounding up to a multiple. *)
LEMMA RoundedUp ==
  ASSUME NEW t \in Nat, NEW c \in Nat \ {0}, NEW m \in Nat, t + c - 1 < (m + 1) * c
  PROVE  t <= m * c
<1>1. (m + 1) * c = m * c + c /\ m * c \in Nat OBVIOUS
<1> QED BY <1>1

(* A multiple that is not later than an instant is not later than the      *)
(* bucket of the instant.                                                  *)
LEMMA MultipleBelow ==
  ASSUME NEW m \in Nat, NEW t \in Nat, NEW c \in Nat \ {0}, m * c <= t
  PROVE  m * c <= (t \div c) * c
<1>1. t \div c \in Nat /\ t < (t \div c + 1) * c BY FloorLemma
<1>2. m * c < (t \div c + 1) * c BY <1>1
<1>3. m <= t \div c BY <1>1, <1>2
<1> QED BY <1>1, <1>3

(* Multiplication is associative. *)
LEMMA TimesAssociative ==
  ASSUME NEW a \in Nat, NEW b \in Nat, NEW c \in Nat
  PROVE  a * (b * c) = (a * b) * c /\ a * b \in Nat
OBVIOUS

(* A multiple of a day or of a month is a multiple of an hour. *)
LEMMA FloorIsMultiple ==
  ASSUME NEW t \in Nat, NEW d \in Nat \ {0}, NEW c \in Nat \ {0}, d % c = 0
  PROVE  \E m \in Nat : Floor(t, d) = m * c
<1> DEFINE q == t \div d
           n == d \div c
<1>1. q \in Nat /\ n \in Nat BY QuotientType
<1>2. d = n * c OBVIOUS
<1>3. Floor(t, d) = q * (n * c) BY <1>2 DEF Floor
<1> HIDE DEF q, n
<1> QED BY <1>1, <1>3, TimesAssociative

(* The windows of rate limits; those of an interval that the code knows    *)
(* start on the hour.                                                      *)
LEMMA RateWindow ==
  ASSUME now \in Nat, NEW interval
  PROVE  /\ RateWindowStart(interval) \in Nat
         /\ interval \in {"hour", "day", "month"} =>
              \E m \in Nat : RateWindowStart(interval) = m * TicksPerHour
<1>0. /\ TicksPerHour \in Nat \ {0} /\ TicksPerMonth \in Nat \ {0} /\ TicksPerMonth % TicksPerHour = 0
      /\ TicksPerDay \in Nat \ {0} /\ TicksPerDay % TicksPerHour = 0 /\ PeriodStart \in Nat
  BY UsageAssumption, QuotaAssumption
<1>1. CASE interval = "hour"
  <2>1. RateWindowStart(interval) = Floor(now, TicksPerHour) BY <1>1 DEF RateWindowStart
  <2>2. Floor(now, TicksPerHour) = (now \div TicksPerHour) * TicksPerHour BY DEF Floor
  <2> QED BY <1>0, <2>1, <2>2, FloorLemma
<1>2. CASE interval = "day"
  <2>1. RateWindowStart(interval) = Floor(now, TicksPerDay) BY <1>2 DEF RateWindowStart
  <2>2. Floor(now, TicksPerDay) \in Nat BY <1>0, FloorLemma
  <2>3. \E m \in Nat : Floor(now, TicksPerDay) = m * TicksPerHour BY <1>0, FloorIsMultiple
  <2> QED BY <2>1, <2>2, <2>3
<1>3. CASE interval = "month"
  <2>1. RateWindowStart(interval) = Floor(now, TicksPerMonth) BY <1>3 DEF RateWindowStart
  <2>2. Floor(now, TicksPerMonth) \in Nat BY <1>0, FloorLemma
  <2>3. \E m \in Nat : Floor(now, TicksPerMonth) = m * TicksPerHour BY <1>0, FloorIsMultiple
  <2> QED BY <2>1, <2>2, <2>3
<1>4. CASE interval \notin {"hour", "day", "month"}
  <2>1. RateWindowStart(interval) = PeriodStart BY <1>4 DEF RateWindowStart
  <2> QED BY <1>0, <1>4, <2>1
<1> QED BY <1>1, <1>2, <1>3, <1>4

(* The window that is counted, and the one of the clock. *)
LEMMA WindowLemma ==
  ASSUME now \in Nat, NEW f
  PROVE  /\ WindowStart(f) \in Nat /\ Opens(f) \in Nat
         /\ WindowStart(f) <= Opens(f)
         /\ AlignHourStart(Opens(f)) <= WindowStart(f)
         /\ StartsOnTheHour(f) => \E m \in Nat : WindowStart(f) = m * TicksPerHour
<1>0. TicksPerHour \in Nat \ {0} /\ PeriodStart \in Nat BY UsageAssumption, QuotaAssumption
<1>1. /\ AlignHourStart(PeriodStart) \in Nat /\ AlignHourStart(PeriodStart) <= PeriodStart
      /\ \E m \in Nat : AlignHourStart(PeriodStart) = m * TicksPerHour
  BY <1>0, FloorLemma DEF AlignHourStart, Floor
<1>2. CASE f.type # "rate_limit"
  <2>1. WindowStart(f) = AlignHourStart(PeriodStart) /\ Opens(f) = PeriodStart
    BY <1>2 DEF WindowStart, Opens
  <2> QED BY <1>0, <1>1, <2>1
<1>3. CASE f.type = "rate_limit"
  <2> DEFINE s == RateWindowStart(f.interval)
  <2>1. /\ s \in Nat
        /\ f.interval \in {"hour", "day", "month"} => \E m \in Nat : s = m * TicksPerHour
    BY RateWindow
  <2>2. WindowStart(f) = Later(AlignHourStart(PeriodStart), s) /\ Opens(f) = Later(PeriodStart, s)
    BY <1>3 DEF WindowStart, Opens
  <2>3. AlignHourStart(s) <= s BY <1>0, <2>1, FloorLemma DEF AlignHourStart
  <2> HIDE DEF s
  <2>4. WindowStart(f) \in Nat /\ Opens(f) \in Nat /\ WindowStart(f) <= Opens(f)
    BY <1>0, <1>1, <2>1, <2>2 DEF Later
  <2>5. AlignHourStart(Opens(f)) <= WindowStart(f)
    <3>1. CASE PeriodStart < s
      <4>1. Opens(f) = s /\ WindowStart(f) = s BY <1>0, <1>1, <2>1, <2>2, <3>1 DEF Later
      <4> QED BY <2>3, <4>1
    <3>2. CASE ~(PeriodStart < s)
      <4>1. Opens(f) = PeriodStart /\ AlignHourStart(PeriodStart) <= WindowStart(f)
        BY <1>0, <1>1, <2>1, <2>2, <3>2 DEF Later
      <4> QED BY <4>1
    <3> QED BY <3>1, <3>2
  <2>6. WindowStart(f) = AlignHourStart(PeriodStart) \/ WindowStart(f) = s BY <2>2 DEF Later
  <2> QED BY <1>1, <1>3, <2>1, <2>4, <2>5, <2>6 DEF StartsOnTheHour
<1> QED BY <1>2, <1>3

(* The events that _sum_usage_for_window counts. *)
Counted(start, end) ==
  UNION {agg[h] : h \in {g \in Hours : start <= g * TicksPerHour /\ g * TicksPerHour < end}}

(* An aggregated event is stored, and aggregated in its own hour. *)
LEMMA CountedLemma ==
  ASSUME IInv, NEW start, NEW end
  PROVE  /\ IsFiniteSet(Aggregated) /\ IsFiniteSet(Counted(start, end))
         /\ Counted(start, end) = {e \in Aggregated : /\ start <= Floor(e.at, TicksPerHour)
                                                      /\ Floor(e.at, TicksPerHour) < end}
         /\ \A e \in Aggregated : e.at \in Nat
<1>1. \A h \in Hours : \A e \in agg[h] : e \in events /\ Hour(e.at) = h
  BY DEF IInv, AggregateCountsStoredEvents, EventsOfHour
<1>2. \A e \in Aggregated : e \in events /\ Hour(e.at) \in Hours /\ e \in agg[Hour(e.at)]
  BY <1>1 DEF Aggregated
<1>3. \A e \in Aggregated : e.at \in Nat BY <1>2, RowTimes DEF IInv, TypeOK
<1>4. Counted(start, end) \subseteq Aggregated BY DEF Counted, Aggregated
<1>5. ASSUME NEW e \in Aggregated
      PROVE  e \in Counted(start, end) <=>
               start <= Floor(e.at, TicksPerHour) /\ Floor(e.at, TicksPerHour) < end
  <2>1. Floor(e.at, TicksPerHour) = Hour(e.at) * TicksPerHour BY DEF Floor, Hour
  <2>2. ASSUME e \in Counted(start, end)
        PROVE  start <= Hour(e.at) * TicksPerHour /\ Hour(e.at) * TicksPerHour < end
    <3>1. PICK h \in Hours : /\ start <= h * TicksPerHour /\ h * TicksPerHour < end
                             /\ e \in agg[h]
      BY <2>2 DEF Counted
    <3> QED BY <1>1, <3>1
  <2>3. ASSUME start <= Hour(e.at) * TicksPerHour, Hour(e.at) * TicksPerHour < end
        PROVE  e \in Counted(start, end)
    BY <1>2, <2>3 DEF Counted
  <2> QED BY <2>1, <2>2, <2>3
<1>6. Aggregated \in SUBSET events BY <1>2
<1>7. IsFiniteSet(Aggregated) BY <1>6, FS_Subset DEF IInv
<1>8. IsFiniteSet(Counted(start, end)) BY <1>4, <1>7, FS_Subset
<1> QED BY <1>3, <1>4, <1>5, <1>7, <1>8

(* Nothing is left out from the moment on that all usage counts, and       *)
(* nothing is counted from before the hours that the window touches.       *)
LEMMA UsageBounds ==
  ASSUME IInv, NEW f
  PROVE  LET used == SumUsage(WindowStart(f), PeriodEnd)
         IN /\ used \in Nat
            /\ Cardinality({e \in Aggregated : CountsFrom(f) <= e.at /\ e.at < PeriodEnd}) <= used
            /\ used <= Cardinality({e \in Aggregated : AlignHourStart(Opens(f)) <= e.at})
            /\ Cardinality({e \in Aggregated : AlignHourStart(Opens(f)) <= e.at}) \in Nat
            /\ Cardinality({e \in Aggregated : CountsFrom(f) <= e.at /\ e.at < PeriodEnd}) \in Nat
<1> DEFINE C == Counted(WindowStart(f), PeriodEnd)
           S == {e \in Aggregated : CountsFrom(f) <= e.at /\ e.at < PeriodEnd}
           T == {e \in Aggregated : AlignHourStart(Opens(f)) <= e.at}
<1>0. TicksPerHour \in Nat \ {0} /\ PeriodEnd \in Nat /\ now \in Nat
  BY UsageAssumption, QuotaAssumption DEF IInv, TypeOK
<1>1. SumUsage(WindowStart(f), PeriodEnd) = Cardinality(C) BY DEF SumUsage, Counted
<1>2. /\ IsFiniteSet(Aggregated) /\ IsFiniteSet(C)
      /\ C = {e \in Aggregated : /\ WindowStart(f) <= Floor(e.at, TicksPerHour)
                                 /\ Floor(e.at, TicksPerHour) < PeriodEnd}
      /\ \A e \in Aggregated : e.at \in Nat
  BY CountedLemma
<1>3. /\ WindowStart(f) \in Nat /\ Opens(f) \in Nat
      /\ WindowStart(f) <= Opens(f)
      /\ AlignHourStart(Opens(f)) <= WindowStart(f)
      /\ StartsOnTheHour(f) => \E m \in Nat : WindowStart(f) = m * TicksPerHour
  BY <1>0, WindowLemma
<1>4. AlignHourStart(Opens(f)) \in Nat BY <1>0, <1>3, FloorLemma DEF AlignHourStart
<1>5. \A e \in Aggregated : Floor(e.at, TicksPerHour) \in Nat /\ Floor(e.at, TicksPerHour) <= e.at
  BY <1>0, <1>2, FloorLemma
<1>6. C \in SUBSET T
  <2> SUFFICES ASSUME NEW e \in C PROVE AlignHourStart(Opens(f)) <= e.at BY <1>2
  <2>1. e \in Aggregated /\ WindowStart(f) <= Floor(e.at, TicksPerHour) BY <1>2
  <2>2. Floor(e.at, TicksPerHour) \in Nat /\ Floor(e.at, TicksPerHour) <= e.at /\ e.at \in Nat
    BY <1>2, <1>5, <2>1
  <2> QED BY <1>3, <1>4, <2>1, <2>2
<1>a. CountsFrom(f) \in Nat /\ \E m \in Nat : /\ WindowStart(f) <= m * TicksPerHour
                                             /\ m * TicksPerHour <= CountsFrom(f)
  <2>1. CASE StartsOnTheHour(f) BY <1>3, <2>1 DEF CountsFrom
  <2>2. CASE ~StartsOnTheHour(f)
    <3>1. Opens(f) + TicksPerHour - 1 \in Nat BY <1>0, <1>3
    <3>2. CountsFrom(f) = Floor(Opens(f) + TicksPerHour - 1, TicksPerHour)
      BY <2>2 DEF CountsFrom, AlignHourStart
    <3>3. PICK m \in Nat : /\ CountsFrom(f) = m * TicksPerHour
                           /\ Opens(f) + TicksPerHour - 1 < (m + 1) * TicksPerHour
      BY <1>0, <3>1, <3>2, FloorLemma DEF Floor
    <3>4. Opens(f) <= m * TicksPerHour BY <1>0, <1>3, <3>3, RoundedUp
    <3> QED BY <1>0, <1>3, <3>3, <3>4
  <2> QED BY <2>1, <2>2
<1>7. S \in SUBSET C
  <2> SUFFICES ASSUME NEW e \in S PROVE e \in C OBVIOUS
  <2>1. e \in Aggregated /\ CountsFrom(f) <= e.at /\ e.at < PeriodEnd /\ e.at \in Nat BY <1>2
  <2>2. PICK m \in Nat : WindowStart(f) <= m * TicksPerHour /\ m * TicksPerHour <= CountsFrom(f)
    BY <1>a
  <2>3. m * TicksPerHour \in Nat /\ m * TicksPerHour <= e.at BY <1>0, <1>a, <2>1, <2>2
  <2>4. m * TicksPerHour <= Floor(e.at, TicksPerHour)
    BY <1>0, <2>1, <2>3, MultipleBelow DEF Floor
  <2>5. Floor(e.at, TicksPerHour) < PeriodEnd /\ Floor(e.at, TicksPerHour) \in Nat
    BY <1>0, <1>5, <2>1
  <2>6. WindowStart(f) <= Floor(e.at, TicksPerHour) BY <1>3, <2>2, <2>3, <2>4, <2>5
  <2> QED BY <1>2, <2>1, <2>5, <2>6
<1>8. IsFiniteSet(S) /\ IsFiniteSet(T)
  <2>1. S \in SUBSET Aggregated /\ T \in SUBSET Aggregated OBVIOUS
  <2> QED BY <1>2, <2>1, FS_Subset
<1>9. Cardinality(C) <= Cardinality(T) BY <1>6, <1>8, FS_Subset
<1>10. Cardinality(S) <= Cardinality(C) BY <1>2, <1>7, FS_Subset
<1>11. Cardinality(C) \in Nat /\ Cardinality(S) \in Nat /\ Cardinality(T) \in Nat
  BY <1>2, <1>8, FS_CardinalityType
<1> QED BY <1>1, <1>9, <1>10, <1>11

-----------------------------------------------------------------------------
(* Answers.                                                                *)

(* The snapshot row of a feature of the plan, and the limit it works with. *)
LEMMA RowLemma ==
  ASSUME NEW f \in PlanFeatures
  PROVE  /\ FeatureRow(f).type = f.type /\ FeatureRow(f).mode = f.mode
         /\ FeatureRow(f).enabled = f.enabled
         /\ f.type \in {"boolean", "quota", "rate_limit", "seat"}
         /\ f.enabled \in BOOLEAN
         /\ EffectiveLimit(FeatureRow(f)) \in Int \cup {None}
<1>1. f \in PlanFeature BY QuotaAssumption
<1>2. f.seats.value \in Int BY <1>1 DEF PlanFeature
<1> DEFINE v == IF f.type = "seat" THEN SeatQuantity(f.seats) ELSE None
<1>3. v \in Int \cup {None} BY <1>2 DEF SeatQuantity
<1>4. FeatureRow(f) = [f EXCEPT !.seats = v] BY DEF FeatureRow
<1> HIDE DEF v
<1>5. /\ FeatureRow(f).type = f.type /\ FeatureRow(f).mode = f.mode
      /\ FeatureRow(f).enabled = f.enabled /\ FeatureRow(f).seats = v
      /\ FeatureRow(f).limit = f.limit
  BY <1>1, <1>4 DEF PlanFeature
<1>6. f.limit \in Int \cup {None} /\ f.type \in {"boolean", "quota", "rate_limit", "seat"} /\ f.enabled \in BOOLEAN
  BY <1>1 DEF PlanFeature
<1> QED BY <1>3, <1>5, <1>6 DEF EffectiveLimit

(* _decide_numeric_feature, branch by branch. *)
LEMMA NumericLemma ==
  ASSUME NEW row, NEW used \in Nat, NEW q \in Int,
         EffectiveLimit(row) \in Int \cup {None}
  PROVE  LET d == DecideNumeric(row, used, q)
         IN /\ d.limit = EffectiveLimit(row)
            /\ d.allowed /\ row.mode = "hard" /\ d.limit # None => used + q <= d.limit
            /\ ~d.allowed => /\ row.mode = "hard" /\ d.limit # None
                             /\ used + AtLeastOne(q) > d.limit
                             /\ d.remaining < AtLeastOne(q)
<1> DEFINE limit == EffectiveLimit(row)
           left  == Remaining(limit, used)
           spent == limit # None /\ used >= limit
           short == limit # None /\ used + q > limit
           hard  == row.mode = "hard"
           d     == DecideNumeric(row, used, q)
           one   == AtLeastOne(q)
<1>0. one \in Int /\ q <= one /\ 0 < one BY DEF AtLeastOne
<1>1. spent /\ hard => ~d.allowed /\ d.limit = limit /\ d.remaining = 0
  <2> HAVE spent /\ hard
  <2>1. d = Decision(FALSE, limit, used, 0, "exhausted") BY Zenon DEF DecideNumeric
  <2> HIDE DEF d
  <2> QED BY <2>1 DEF Decision
<1>2. spent /\ ~hard => d.allowed /\ d.limit = limit /\ d.remaining = 0
  <2> HAVE spent /\ ~hard
  <2>1. d = Decision(TRUE, limit, used, 0, "exceeded_soft") BY Zenon DEF DecideNumeric
  <2> HIDE DEF d
  <2> QED BY <2>1 DEF Decision
<1>3. ~spent /\ short /\ hard => ~d.allowed /\ d.limit = limit /\ d.remaining = left
  <2> HAVE ~spent /\ short /\ hard
  <2>1. d = Decision(FALSE, limit, used, left, "exhausted") BY Zenon DEF DecideNumeric
  <2> HIDE DEF d
  <2> QED BY <2>1 DEF Decision
<1>4. ~spent /\ ~(short /\ hard) => d.allowed /\ d.limit = limit /\ d.remaining = left
  <2> HAVE ~spent /\ ~(short /\ hard)
  <2>1. d = Decision(TRUE, limit, used, left, None) BY Zenon DEF DecideNumeric
  <2> HIDE DEF d
  <2> QED BY <2>1 DEF Decision
<1>5. spent \/ short => limit # None /\ used + one > limit
  <2> HAVE spent \/ short
  <2>1. limit \in Int OBVIOUS
  <2> HIDE DEF one, limit
  <2> QED BY <1>0, <2>1
<1>6. limit # None => (short <=> ~(used + q <= limit))
  <2> HAVE limit # None
  <2>1. limit \in Int OBVIOUS
  <2> QED BY <2>1
<1>7. ~spent /\ short => left < one
  <2> SUFFICES ASSUME ~spent, short PROVE left < one OBVIOUS
  <2>1. limit \in Int OBVIOUS
  <2>2. left = NotBelowZero(limit - used) BY DEF Remaining
  <2> HIDE DEF one
  <2>3. limit - used \in Int /\ limit - used < one BY <1>0, <2>1
  <2> QED BY <1>0, <2>2, <2>3 DEF NotBelowZero
<1> HIDE DEF limit, left, spent, short, hard, d, one
<1>10. d.limit = limit BY <1>1, <1>2, <1>3, <1>4
<1>11. d.allowed /\ hard /\ limit # None => used + q <= limit
  BY <1>1, <1>3, <1>6
<1>12. ~d.allowed => hard /\ limit # None /\ used + one > limit /\ d.remaining < one
  BY <1>0, <1>1, <1>2, <1>3, <1>4, <1>5, <1>7
<1> QED BY <1>10, <1>11, <1>12 DEF limit, hard, d, one

(* An answer that allows a numeric feature is that of _decide_numeric_feature. *)
LEMMA AllowedLemma ==
  ASSUME NEW f \in PlanFeatures, f.type # "boolean", NEW used \in Nat, NEW q \in Int, NEW st, NEW grace,
         EvaluateCheck(FeatureRow(f), used, q, st, grace).allowed
  PROVE  EvaluateCheck(FeatureRow(f), used, q, st, grace) = DecideNumeric(FeatureRow(f), used, q)
<1> DEFINE row == FeatureRow(f)
<1>1. /\ row.type = f.type /\ row.enabled = f.enabled
      /\ f.type \in {"quota", "rate_limit", "seat"} /\ f.enabled \in BOOLEAN
  BY RowLemma
<1>2. \A l, u, m, y : Decision(FALSE, l, u, m, y).allowed = FALSE BY DEF Decision
<1> HIDE DEF row
<1>3. EvaluateCheck(row, used, q, st, grace) = DecideFeature(row, used, q)
  BY <1>2 DEF EvaluateCheck, row
<1>4. ~row.enabled => DecideFeature(row, used, q) = Decision(FALSE, row.limit, used, Remaining(row.limit, used), "disabled")
  BY <1>1 DEF DecideFeature
<1>5. row.enabled => DecideFeature(row, used, q) = DecideNumeric(row, used, q)
  BY <1>1 DEF DecideFeature
<1> QED BY <1>2, <1>3, <1>4, <1>5 DEF row

(* An answer that denies an enabled feature to a customer in good standing *)
(* is that of _decide_numeric_feature.                                     *)
LEMMA DeniedLemma ==
  ASSUME NEW f \in PlanFeatures, f.enabled, NEW used, NEW q, NEW s, GoodStanding(s),
         ~EvaluateCheck(FeatureRow(f), used, q, s[1], s[2]).allowed
  PROVE  /\ f.type # "boolean"
         /\ EvaluateCheck(FeatureRow(f), used, q, s[1], s[2]) = DecideNumeric(FeatureRow(f), used, q)
<1> DEFINE row == FeatureRow(f)
<1>1. /\ row.type = f.type /\ row.enabled = TRUE
      /\ f.type \in {"boolean", "quota", "rate_limit", "seat"}
  BY RowLemma
<1> HIDE DEF row
<1>2. DecideAccess(s[1], s[2], row.mode).allowed
  <2>1. CASE s[1] \in {"active", "trialing"} BY <2>1 DEF DecideAccess
  <2>2. CASE s = <<"past_due", TRUE>>
    <3>1. s[1] = "past_due" /\ s[2] = TRUE BY <2>2
    <3>2. DecideAccess(s[1], s[2], row.mode)
            = [allowed |-> TRUE, mode |-> IF row.mode = "degraded" THEN "degraded" ELSE "full"]
      BY <3>1 DEF DecideAccess
    <3> QED BY <3>2
  <2> QED BY <2>1, <2>2 DEF GoodStanding
<1>3. EvaluateCheck(row, used, q, s[1], s[2]) = DecideFeature(row, used, q)
  BY <1>2 DEF EvaluateCheck
<1>4. row.type = "boolean" => DecideFeature(row, used, q).allowed
  <2> HAVE row.type = "boolean"
  <2>1. DecideFeature(row, used, q)
          = Decision(row.enabled, None, None, None, IF row.enabled THEN None ELSE "disabled")
    BY DEF DecideFeature
  <2> QED BY <1>1, <2>1 DEF Decision
<1>5. row.type # "boolean" => DecideFeature(row, used, q) = DecideNumeric(row, used, q)
  BY <1>1 DEF DecideFeature
<1> QED BY <1>1, <1>3, <1>4, <1>5 DEF row

(* "hard denies usage": for any plan, evaluate never allows a request      *)
(* beyond a hard limit, counting every aggregated event since the window   *)
(* opened.  Only a rate limit whose window _rate_window_start lets begin   *)
(* with the period misses the events of the hour in which it began.        *)
THEOREM HardLimit == Spec => []HardLimitHolds
<1>1. IInv => HardLimitHolds
  <2> SUFFICES ASSUME IInv,
                      NEW f \in PlanFeatures, f.type # "boolean", f.mode = "hard",
                      NEW ask \in Quantities \X Standings,
                      Evaluate(f)[ask].allowed, Evaluate(f)[ask].limit # None
               PROVE  Cardinality({e \in Aggregated : CountsFrom(f) <= e.at /\ e.at < PeriodEnd}) + ask[1]
                        <= Evaluate(f)[ask].limit
    BY DEF HardLimitHolds
  <2> DEFINE used == SumUsage(WindowStart(f), PeriodEnd)
             since == Cardinality({e \in Aggregated : CountsFrom(f) <= e.at /\ e.at < PeriodEnd})
             row == FeatureRow(f)
             d == DecideNumeric(row, used, ask[1])
  <2>1. used \in Nat /\ since \in Nat /\ since <= used BY UsageBounds
  <2>2. ask[1] \in Int BY QuotaAssumption
  <2>3. Evaluate(f)[ask] = EvaluateCheck(row, used, ask[1], ask[2][1], ask[2][2])
    BY DEF Evaluate, FeatureUsage
  <2>4. row.mode = "hard" /\ EffectiveLimit(row) \in Int \cup {None} BY RowLemma
  <2> HIDE DEF used, since
  <2>5. Evaluate(f)[ask] = d BY <2>1, <2>2, <2>3, AllowedLemma
  <2>6. d.limit = EffectiveLimit(row) /\ (d.allowed /\ row.mode = "hard" /\ d.limit # None => used + ask[1] <= d.limit)
    BY <2>1, <2>2, <2>4, NumericLemma
  <2> HIDE DEF d, row
  <2>7. d.limit \in Int /\ used + ask[1] <= d.limit BY <2>4, <2>5, <2>6
  <2>8. since + ask[1] <= d.limit BY <2>1, <2>2, <2>7
  <2> QED BY <2>5, <2>8 DEF since
<1> QED BY <1>1, Invariance, PTL

(* _decide_numeric_feature with _load_feature_usage: a customer in good    *)
(* standing is denied an enabled feature only if the hours its window      *)
(* touches leave less than was asked for, for any plan.                    *)
THEOREM DenialEarned == Spec => []DenialIsEarned
<1>1. IInv => DenialIsEarned
  <2> SUFFICES ASSUME IInv,
                      NEW f \in PlanFeatures, f.enabled,
                      NEW ask \in Quantities \X {s \in Standings : GoodStanding(s)},
                      ~Evaluate(f)[ask].allowed
               PROVE  /\ f.mode = "hard"
                      /\ Cardinality({e \in Aggregated : AlignHourStart(Opens(f)) <= e.at})
                           + AtLeastOne(ask[1]) > Evaluate(f)[ask].limit
                      /\ Evaluate(f)[ask].remaining < AtLeastOne(ask[1])
    BY DEF DenialIsEarned
  <2> DEFINE used == FeatureUsage(f)
             touched == Cardinality({e \in Aggregated : AlignHourStart(Opens(f)) <= e.at})
             row == FeatureRow(f)
             d == DecideNumeric(row, used, ask[1])
  <2>1. ask \in Quantities \X Standings /\ GoodStanding(ask[2]) /\ ask[1] \in Int
    BY QuotaAssumption
  <2>2. Evaluate(f)[ask] = EvaluateCheck(row, used, ask[1], ask[2][1], ask[2][2])
    BY <2>1 DEF Evaluate
  <2>3. row.mode = f.mode /\ EffectiveLimit(row) \in Int \cup {None} BY RowLemma
  <2> HIDE DEF used, touched
  <2>4. f.type # "boolean" /\ Evaluate(f)[ask] = d BY <2>1, <2>2, DeniedLemma
  <2>5. used \in Nat /\ touched \in Nat /\ used <= touched
    BY <2>4, UsageBounds DEF FeatureUsage, used, touched
  <2>6. /\ d.limit = EffectiveLimit(row)
        /\ ~d.allowed => /\ row.mode = "hard" /\ d.limit # None
                         /\ used + AtLeastOne(ask[1]) > d.limit
                         /\ d.remaining < AtLeastOne(ask[1])
    BY <2>1, <2>3, <2>5, NumericLemma
  <2> HIDE DEF d, row
  <2>7. /\ d.limit \in Int /\ row.mode = "hard"
        /\ used + AtLeastOne(ask[1]) > d.limit /\ d.remaining < AtLeastOne(ask[1])
    BY <2>3, <2>4, <2>6
  <2>8. AtLeastOne(ask[1]) \in Int BY <2>1 DEF AtLeastOne
  <2>9. touched + AtLeastOne(ask[1]) > d.limit BY <2>5, <2>7, <2>8
  <2> QED BY <2>3, <2>4, <2>7, <2>9 DEF touched
<1> QED BY <1>1, Invariance, PTL

-----------------------------------------------------------------------------
(* The build lock of the snapshot cache.                                   *)

CacheInv ==
  /\ lock \in BOOLEAN /\ expiries \in Nat
  /\ reader = [r \in Readers |-> reader[r]]
  /\ IsFiniteSet(LockHolders)
  /\ Cardinality(LockHolders) <= (IF lock THEN 1 ELSE 0) + expiries

(* A reader goes on: it is a holder of the lock after its step if the      *)
(* place it goes to is one of a holder.                                    *)
LEMMA HoldersAfter ==
  ASSUME CacheInv, NEW r \in Readers, NEW at, NEW has, Cache!Goto(r, at, has)
  PROVE  /\ reader' = [q \in Readers |-> reader'[q]]
         /\ LockHolders' = IF at \in HoldersAt THEN LockHolders \cup {r}
                                 ELSE LockHolders \ {r}
<1>1. PICK u : u = [at |-> at, has |-> has] OBVIOUS
<1>2. u.at = at BY <1>1
<1>3. /\ reader' = [q \in Readers |-> reader'[q]]
      /\ \A q \in Readers : reader'[q] = IF q = r THEN u ELSE reader[q]
  BY <1>1 DEF CacheInv, Cache!Goto
<1>4. \A q : q \in LockHolders' <=>
               q \in Readers /\ (IF q = r THEN at ELSE reader[q].at) \in HoldersAt
  BY <1>2, <1>3 DEF LockHolders
<1> QED BY <1>3, <1>4 DEF LockHolders

(* A step of a reader that lets nobody in, one that takes the free lock,   *)
(* and one of a holder that deletes the lock and leaves.                   *)
LEMMA HoldersBounded ==
  ASSUME CacheInv, NEW r \in Readers, NEW at, NEW has, Cache!Goto(r, at, has),
         UNCHANGED expiries,
         \/ UNCHANGED lock /\ (at \in HoldersAt => r \in LockHolders)
         \/ ~lock /\ lock' = TRUE
         \/ r \in LockHolders /\ at \notin HoldersAt /\ lock' = FALSE
  PROVE  CacheInv'
<1>0. PICK S, T : S = LockHolders /\ T = LockHolders' OBVIOUS
<1>1. IsFiniteSet(S) /\ Cardinality(S) \in Nat /\ lock \in BOOLEAN /\ expiries \in Nat
  BY <1>0, FS_CardinalityType DEF CacheInv
<1>2. T = IF at \in HoldersAt THEN S \cup {r} ELSE S \ {r} BY <1>0, HoldersAfter
<1>3. /\ IsFiniteSet(S \cup {r}) /\ IsFiniteSet(S \ {r})
      /\ Cardinality(S \cup {r}) = IF r \in S THEN Cardinality(S) ELSE Cardinality(S) + 1
      /\ Cardinality(S \ {r}) = IF r \in S THEN Cardinality(S) - 1 ELSE Cardinality(S)
  BY <1>1, FS_AddElement, FS_RemoveElement
<1>4. IsFiniteSet(T) BY <1>2, <1>3
<1>5. Cardinality(S) <= (IF lock THEN 1 ELSE 0) + expiries BY <1>0 DEF CacheInv
<1>6. Cardinality(T) <= (IF lock' THEN 1 ELSE 0) + expiries
  <2>1. CASE UNCHANGED lock /\ (at \in HoldersAt => r \in LockHolders)
    <3>1. Cardinality(T) <= Cardinality(S) BY <1>0, <1>1, <1>2, <1>3, <2>1
    <3>2. (IF lock' THEN 1 ELSE 0) = (IF lock THEN 1 ELSE 0) BY <2>1
    <3>3. Cardinality(T) \in Nat BY <1>4, FS_CardinalityType
    <3> QED BY <1>1, <1>5, <3>1, <3>2, <3>3
  <2>2. CASE ~lock /\ lock' = TRUE BY <1>1, <1>2, <1>3, <1>5, <2>2
  <2>3. CASE r \in LockHolders /\ at \notin HoldersAt /\ lock' = FALSE
    BY <1>0, <1>1, <1>2, <1>3, <1>5, <2>3
  <2> QED BY <2>1, <2>2, <2>3
<1>7. lock' \in BOOLEAN BY <1>1
<1> QED BY <1>0, <1>1, <1>4, <1>6, <1>7, HoldersAfter DEF CacheInv

(* The steps of an evaluate request. *)
LEMMA ReadersBounded ==
  ASSUME CacheInv, NEW r \in Readers,
         Cache!Evaluate(r) \/ Cache!ReaderStep(r) \/ Cache!BuildFails(r) \/ Cache!ReaderDies(r)
  PROVE  CacheInv'
<1>1. CASE Cache!Evaluate(r)
  <2>1. PICK at, has : Cache!Goto(r, at, has) /\ at \in {"answer", "missed"}
    BY <1>1 DEF Cache!Evaluate
  <2> QED BY <1>1, <2>1, HoldersBounded
       DEF Cache!Evaluate, HoldersAt, Cache!redisKeys, Cache!bounds
<1>2. CASE Cache!AcquireLock(r) BY <1>2, HoldersBounded DEF Cache!AcquireLock, Cache!bounds
<1>3. CASE Cache!LockTaken(r) \/ Cache!WaitHit(r) \/ Cache!WaitTimesOut(r) \/ Cache!Answer(r)
  <2>1. PICK at, has : Cache!Goto(r, at, has) /\ at \in {"wait", "answer", "buildUncached", "idle"}
    BY <1>3 DEF Cache!LockTaken, Cache!WaitHit, Cache!WaitTimesOut, Cache!Answer
  <2>2. UNCHANGED <<lock, expiries>>
    BY <1>3 DEF Cache!LockTaken, Cache!WaitHit, Cache!WaitTimesOut, Cache!Answer,
                Cache!redisKeys, Cache!bounds
  <2> QED BY <2>1, <2>2, HoldersBounded DEF HoldersAt
<1>4. CASE Cache!Recheck(r) \/ Cache!Build(r) \/ Cache!Stamp(r) \/ Cache!Store(r)
  <2>1. PICK at, has : /\ Cache!Goto(r, at, has)
                       /\ at \in HoldersAt => reader[r].at \in HoldersAt
    <3>1. CASE Cache!Recheck(r) BY <3>1 DEF Cache!Recheck, HoldersAt
    <3>2. CASE Cache!Build(r) BY <3>2 DEF Cache!Build, HoldersAt
    <3>3. CASE Cache!Stamp(r) BY <3>3 DEF Cache!Stamp, HoldersAt
    <3>4. CASE Cache!Store(r) BY <3>4 DEF Cache!Store, HoldersAt
    <3> QED BY <1>4, <3>1, <3>2, <3>3, <3>4
  <2>2. UNCHANGED <<lock, expiries>>
    BY <1>4 DEF Cache!Recheck, Cache!Build, Cache!Stamp, Cache!Store, Cache!redisKeys,
                Cache!bounds
  <2>3. at \in HoldersAt => r \in LockHolders BY <2>1 DEF LockHolders
  <2> QED BY <2>1, <2>2, <2>3, HoldersBounded
<1>5. CASE Cache!Release(r)
  <2>1. r \in LockHolders BY <1>5 DEF Cache!Release, LockHolders, HoldersAt
  <2>2. "answer" \notin HoldersAt BY DEF HoldersAt
  <2> QED BY <1>5, <2>1, <2>2, HoldersBounded DEF Cache!Release, Cache!bounds
<1>6. CASE Cache!BuildFails(r)
  <2>1. "idle" \notin HoldersAt BY DEF HoldersAt
  <2>2. CASE reader[r].at = "build" /\ lock' = FALSE
    <3>1. r \in LockHolders BY <2>2 DEF LockHolders, HoldersAt
    <3> QED BY <1>6, <2>1, <2>2, <3>1, HoldersBounded DEF Cache!BuildFails
  <2>3. CASE UNCHANGED lock BY <1>6, <2>1, <2>3, HoldersBounded DEF Cache!BuildFails
  <2> QED BY <1>6, <2>2, <2>3 DEF Cache!BuildFails
<1>7. CASE Cache!ReaderDies(r)
  <2>1. "idle" \notin HoldersAt BY DEF HoldersAt
  <2> QED BY <1>7, <2>1, HoldersBounded DEF Cache!ReaderDies, Cache!redisKeys
<1> QED BY <1>1, <1>2, <1>3, <1>4, <1>5, <1>6, <1>7 DEF Cache!ReaderStep

(* The other steps move no reader; only the lock that lapses moves.        *)
LEMMA OthersBounded ==
  ASSUME CacheInv, UNCHANGED reader,
         \/ UNCHANGED <<lock, expiries>>
         \/ lock /\ lock' = FALSE /\ expiries' = expiries + 1
  PROVE  CacheInv'
<1>1. LockHolders' = LockHolders BY DEF LockHolders
<1>2. Cardinality(LockHolders) \in Nat BY FS_CardinalityType DEF CacheInv
<1>3. CASE UNCHANGED <<lock, expiries>> BY <1>1, <1>3 DEF CacheInv
<1>4. CASE lock /\ lock' = FALSE /\ expiries' = expiries + 1
  <2>1. (IF lock THEN 1 ELSE 0) = 1 /\ (IF lock' THEN 1 ELSE 0) = 0 /\ lock' \in BOOLEAN BY <1>4
  <2>2. expiries \in Nat /\ Cardinality(LockHolders) <= 1 + expiries BY <2>1 DEF CacheInv
  <2>3. expiries' \in Nat /\ Cardinality(LockHolders) <= 0 + expiries' BY <1>2, <1>4, <2>2
  <2> QED BY <1>1, <2>1, <2>3 DEF CacheInv
<1> QED BY <1>3, <1>4

(* Stampede control: whatever processes die and locks lapse, the readers   *)
(* that build and write Redis are no more than the lock, plus one for each *)
(* time it lapsed under its holder, although a holder that outlives its    *)
(* lock deletes its successor's.                                           *)
THEOREM Stampede == Cache!Spec => []StampedeBounded
<1>1. Cache!Init => CacheInv
  <2> SUFFICES ASSUME Cache!Init PROVE CacheInv OBVIOUS
  <2>1. reader = [r \in Readers |-> reader[r]] /\ \A r \in Readers : reader[r].at = "idle"
    BY DEF Cache!Init
  <2>2. LockHolders = {} BY <2>1 DEF LockHolders, HoldersAt
  <2>3. IsFiniteSet({}) /\ Cardinality({}) = 0 BY FS_EmptySet
  <2>4. lock = FALSE /\ expiries = 0 BY DEF Cache!Init
  <2>5. lock \in BOOLEAN /\ (IF lock THEN 1 ELSE 0) = 0 BY <2>4
  <2>6. 0 <= 0 + expiries /\ expiries \in Nat BY <2>4
  <2> QED BY <2>1, <2>2, <2>3, <2>5, <2>6 DEF CacheInv
<1>2. CacheInv /\ [Cache!Next]_(Cache!vars) => CacheInv'
  <2> SUFFICES ASSUME CacheInv, [Cache!Next]_(Cache!vars) PROVE CacheInv' OBVIOUS
  <2>1. ASSUME NEW r \in Readers,
               \/ Cache!Evaluate(r) \/ Cache!ReaderStep(r)
               \/ Cache!BuildFails(r) \/ Cache!ReaderDies(r)
        PROVE  CacheInv'
    BY <2>1, ReadersBounded
  <2>2. ASSUME NEW w \in Writers,
               \/ \E kind \in WriteKinds : Cache!Write(w, kind)
               \/ Cache!WriterStep(w) \/ Cache!BumpLost(w)
        PROVE  CacheInv'
    BY <2>2, OthersBounded
       DEF Cache!Write, Cache!WriterStep, Cache!BumpVersion, Cache!DeleteSnapshot,
           Cache!BumpLost, Cache!redisKeys, Cache!bounds
  <2>3. CASE (\E p \in Procs : Cache!L1Expires(p)) \/ Cache!SnapshotExpires \/ Cache!ReplicaReplays
    BY <2>3, OthersBounded
       DEF Cache!L1Expires, Cache!SnapshotExpires, Cache!ReplicaReplays, Cache!redisKeys,
           Cache!bounds
  <2>4. CASE Cache!LockExpires BY <2>4, OthersBounded DEF Cache!LockExpires
  <2>5. CASE UNCHANGED Cache!vars BY <2>5, OthersBounded DEF Cache!vars
  <2> QED BY <2>1, <2>2, <2>3, <2>4, <2>5 DEF Cache!Next
<1>3. CacheInv => StampedeBounded BY DEF CacheInv, StampedeBounded
<1> QED BY <1>1, <1>2, <1>3, PTL DEF Cache!Spec
=============================================================================
