-------------------------- MODULE EntitlementCache --------------------------
(***************************************************************************)
(* The entitlement snapshot of one organization: read by evaluate from the *)
(* process-local L1, then from Redis, then built from PostgreSQL (primary  *)
(* or replica) under a build lock, and invalidated by a version bump after *)
(* a commit that changes what the organization is entitled to.             *)
(*                                                                         *)
(* Every await on Redis or the database is a step of its own, so requests  *)
(* of one process interleave too.  The committed entitlements are a number *)
(* that every change increments.  Time is not a number: a TTL lapses in a  *)
(* step that may come at any moment.                                       *)
(***************************************************************************)
EXTENDS Integers, FiniteSets, BuildLock

CONSTANTS
  Procs,       \* operating system processes (Uvicorn or Celery workers)
  Writers,     \* requests or tasks that change entitlements
  ProcOf,      \* reader or writer -> the process it runs in
  WriteKinds,  \* what writers do: a subset of {"change", "cancel", "invalidate"}
  HasReplica,  \* DATABASE_READ_URL is configured
  None,        \* an empty cache
  MaxWrites,   \* bound: commits that change entitlements
  MaxExpiries, \* bound: build locks that lapse before they are released
  MaxFaults    \* bound: processes dying or Redis failing

ASSUME ProcOfAssumption == ProcOf \in [Readers \cup Writers -> Procs]
ASSUME WriteKindsAssumption == WriteKinds \subseteq {"change", "cancel", "invalidate"}
ASSUME HasReplicaAssumption == HasReplica \in BOOLEAN
ASSUME NoneAssumption == None \notin [data : Nat, version : Nat]
ASSUME BoundsAssumption ==
  MaxWrites \in Nat /\ MaxExpiries \in Nat /\ MaxFaults \in Nat

VARIABLES
  db,       \* entitlements committed on the primary
  replica,  \* what the read replica has replayed
  version,  \* the version key (0: absent)
  snapshot, \* the snapshot key: data and cache_version, or None
  l1,       \* process -> its cached snapshot, or None
  writer,   \* writer -> where it is
  bumped,   \* what db was when the last bump ended (history)
  faults, writes

vars == <<db, replica, version, snapshot, lock, l1, reader, writer, bumped,
          expiries, faults, writes>>

redisKeys == <<version, snapshot, lock>>
bounds == <<expiries, faults, writes>>

Init ==
  /\ db = 0 /\ replica = 0 /\ version = 0 /\ snapshot = None /\ lock = FALSE
  /\ l1 = [p \in Procs |-> None]
  /\ reader = [r \in Readers |-> [at |-> "idle", has |-> None]]
  /\ writer = [w \in Writers |-> "idle"]
  /\ bumped = 0 /\ expiries = 0 /\ faults = 0 /\ writes = 0

-----------------------------------------------------------------------------

(* get_entitlement_version: 1 when the key is absent. *)
CurrentVersion == IF version = 0 THEN 1 ELSE version

Goto(r, at, has) == reader' = [reader EXCEPT ![r] = [at |-> at, has |-> has]]

(* evaluate: an L1 hit is answered without any other step; on a miss the   *)
(* snapshot key is read.                                                   *)
Evaluate(r) ==
  /\ reader[r].at = "idle"
  /\ l1[ProcOf[r]] = None
  /\ IF snapshot # None THEN Goto(r, "answer", snapshot) ELSE Goto(r, "missed", None)
  /\ UNCHANGED <<db, replica, redisKeys, l1, writer, bumped, bounds>>

(* Mutant: SET build_lock EX 5 without NX. *)
MutantAcquireWithoutNx(r) ==
  /\ reader[r].at = "missed"
  /\ lock' = TRUE
  /\ Goto(r, "recheck", None)
  /\ UNCHANGED <<db, replica, version, snapshot, l1, writer, bumped, bounds>>

(* SET build_lock NX EX 5. *)
AcquireLock(r) ==
  /\ reader[r].at = "missed"
  /\ ~lock
  /\ lock' = TRUE
  /\ Goto(r, "recheck", None)
  /\ UNCHANGED <<db, replica, version, snapshot, l1, writer, bumped, bounds>>

LockTaken(r) ==
  /\ reader[r].at = "missed"
  /\ lock
  /\ Goto(r, "wait", None)
  /\ UNCHANGED <<db, replica, redisKeys, l1, writer, bumped, bounds>>

(* The second GET, by the lock holder. *)
Recheck(r) ==
  /\ reader[r].at = "recheck"
  /\ IF snapshot # None THEN Goto(r, "release", snapshot) ELSE Goto(r, "build", None)
  /\ UNCHANGED <<db, replica, redisKeys, l1, writer, bumped, bounds>>

(* A poll of a waiting reader that finds the snapshot, and the end of its  *)
(* fifty polls.                                                            *)
WaitHit(r) ==
  /\ reader[r].at = "wait"
  /\ snapshot # None
  /\ Goto(r, "answer", snapshot)
  /\ UNCHANGED <<db, replica, redisKeys, l1, writer, bumped, bounds>>

(* Mutant: a reader that has waited in vain tries for the lock again. *)
MutantWaitAgain(r) ==
  /\ reader[r].at = "wait"
  /\ Goto(r, "missed", None)
  /\ UNCHANGED <<db, replica, redisKeys, l1, writer, bumped, bounds>>

WaitTimesOut(r) ==
  /\ reader[r].at = "wait"
  /\ Goto(r, "buildUncached", None)
  /\ UNCHANGED <<db, replica, redisKeys, l1, writer, bumped, bounds>>

(* select_read_session_factory: the replica while its lag is small, which  *)
(* does not mean that it has replayed everything.                          *)
ReadableData == IF HasReplica THEN {db, replica} ELSE {db}

(* The builder reads the database; the version is not known yet. *)
Build(r) ==
  /\ \E d \in ReadableData :
       \/ reader[r].at = "build" /\ Goto(r, "stamp", [data |-> d, version |-> 0])
       \/ reader[r].at = "buildUncached" /\ Goto(r, "stampUncached", [data |-> d, version |-> 0])
  /\ UNCHANGED <<db, replica, redisKeys, l1, writer, bumped, bounds>>

(* The builder raises (no subscription, database error): the lock is still *)
(* deleted, and nothing is answered.                                       *)
BuildFails(r) ==
  /\ faults < MaxFaults
  /\ faults' = faults + 1
  /\ \/ reader[r].at = "build" /\ lock' = FALSE
     \/ reader[r].at = "buildUncached" /\ UNCHANGED lock
  /\ Goto(r, "idle", None)
  /\ UNCHANGED <<db, replica, version, snapshot, l1, writer, bumped, expiries, writes>>

(* _stamp_cache_version, after the build. *)
Stamp(r) ==
  /\ LET stamped == [reader[r].has EXCEPT !.version = CurrentVersion]
     IN \/ reader[r].at = "stamp" /\ Goto(r, "store", stamped)
        \/ reader[r].at = "stampUncached" /\ Goto(r, "answer", stamped)
  /\ UNCHANGED <<db, replica, redisKeys, l1, writer, bumped, bounds>>

(* SET snapshot EX ttl. *)
Store(r) ==
  /\ reader[r].at = "store"
  /\ snapshot' = reader[r].has
  /\ Goto(r, "release", reader[r].has)
  /\ UNCHANGED <<db, replica, version, lock, l1, writer, bumped, bounds>>

(* The finally clause: the lock is deleted, whoever holds it by now. *)
Release(r) ==
  /\ reader[r].at = "release"
  /\ lock' = FALSE
  /\ Goto(r, "answer", reader[r].has)
  /\ UNCHANGED <<db, replica, version, snapshot, l1, writer, bumped, bounds>>

(* Mutant: an answer renews the snapshot in Redis (a sliding TTL). *)
MutantAnswerRenews(r) ==
  /\ reader[r].at = "answer"
  /\ l1' = [l1 EXCEPT ![ProcOf[r]] = reader[r].has]
  /\ snapshot' = reader[r].has
  /\ Goto(r, "idle", None)
  /\ UNCHANGED <<db, replica, version, lock, writer, bumped, bounds>>

(* set_l1_snapshot, and the response. *)
Answer(r) ==
  /\ reader[r].at = "answer"
  /\ l1' = [l1 EXCEPT ![ProcOf[r]] = reader[r].has]
  /\ Goto(r, "idle", None)
  /\ UNCHANGED <<db, replica, redisKeys, writer, bumped, bounds>>

(* The reader's process dies or loses Redis: its lock is left to lapse. *)
ReaderDies(r) ==
  /\ reader[r].at # "idle"
  /\ faults < MaxFaults
  /\ faults' = faults + 1
  /\ Goto(r, "idle", None)
  /\ UNCHANGED <<db, replica, redisKeys, l1, writer, bumped, expiries, writes>>

-----------------------------------------------------------------------------

WriterGoto(w, at) == writer' = [writer EXCEPT ![w] = at]

(* A commit that changes entitlements and is followed by a bump: a webhook *)
(* that moved the subscription, a plan change, the grace job.  A cancel    *)
(* commits and does not bump; the admin's invalidate bumps only.           *)
Write(w, kind) ==
  /\ writer[w] = "idle"
  /\ writes < MaxWrites
  /\ writes' = writes + 1
  /\ db' = IF kind = "invalidate" THEN db ELSE db + 1
  /\ WriterGoto(w, IF kind = "cancel" THEN "idle" ELSE "incr")
  /\ UNCHANGED <<replica, redisKeys, l1, reader, bumped, expiries, faults>>

(* increment_entitlement_version: SETNX 1 and INCR. *)
BumpVersion(w) ==
  /\ writer[w] = "incr"
  /\ version' = CurrentVersion + 1
  /\ WriterGoto(w, "delete")
  /\ UNCHANGED <<db, replica, snapshot, lock, l1, reader, bumped, bounds>>

(* DELETE snapshot, and drop_l1_snapshot in the writer's own process. *)
DeleteSnapshot(w) ==
  /\ writer[w] = "delete"
  /\ snapshot' = None
  /\ l1' = [l1 EXCEPT ![ProcOf[w]] = None]
  /\ bumped' = db
  /\ WriterGoto(w, "idle")
  /\ UNCHANGED <<db, replica, version, lock, reader, bounds>>

(* The writer dies, or Redis fails it, after its commit. *)
BumpLost(w) ==
  /\ writer[w] # "idle"
  /\ faults < MaxFaults
  /\ faults' = faults + 1
  /\ WriterGoto(w, "idle")
  /\ UNCHANGED <<db, replica, redisKeys, l1, reader, bumped, expiries, writes>>

-----------------------------------------------------------------------------

(* ENTITLEMENT_CACHE_TTL_SECONDS, ENTITLEMENT_L1_TTL_SECONDS and           *)
(* BUILD_LOCK_TTL_SECONDS lapse; the replica replays.                      *)
SnapshotExpires ==
  /\ snapshot # None
  /\ snapshot' = None
  /\ UNCHANGED <<db, replica, version, lock, l1, reader, writer, bumped, bounds>>

L1Expires(p) ==
  /\ l1[p] # None
  /\ l1' = [l1 EXCEPT ![p] = None]
  /\ UNCHANGED <<db, replica, redisKeys, reader, writer, bumped, bounds>>

LockExpires ==
  /\ lock
  /\ expiries < MaxExpiries
  /\ expiries' = expiries + 1
  /\ lock' = FALSE
  /\ UNCHANGED <<db, replica, version, snapshot, l1, reader, writer, bumped, faults, writes>>

ReplicaReplays ==
  /\ HasReplica
  /\ replica < db
  /\ replica' = replica + 1
  /\ UNCHANGED <<db, redisKeys, l1, reader, writer, bumped, bounds>>

-----------------------------------------------------------------------------

ReaderStep(r) ==
  \/ AcquireLock(r) \/ LockTaken(r) \/ Recheck(r) \/ WaitHit(r)
  \/ WaitTimesOut(r) \/ Build(r) \/ Stamp(r) \/ Store(r) \/ Release(r) \/ Answer(r)

WriterStep(w) == BumpVersion(w) \/ DeleteSnapshot(w)

Next ==
  \/ \E r \in Readers : Evaluate(r) \/ ReaderStep(r) \/ BuildFails(r) \/ ReaderDies(r)
  \/ \E w \in Writers : \/ \E kind \in WriteKinds : Write(w, kind)
                        \/ WriterStep(w)
                        \/ BumpLost(w)
  \/ \E p \in Procs : L1Expires(p)
  \/ SnapshotExpires \/ LockExpires \/ ReplicaReplays

Spec == Init /\ [][Next]_vars

(* A request that was accepted goes on (Redis and the database answer its  *)
(* awaits, or the connection breaks), TTLs lapse, and the replica catches  *)
(* up.  New requests need not come.                                        *)
FairSpec ==
  /\ Spec
  /\ \A r \in Readers : WF_vars(ReaderStep(r))
  /\ \A w \in Writers : WF_vars(WriterStep(w))
  /\ \A p \in Procs : WF_vars(L1Expires(p))
  /\ WF_vars(SnapshotExpires)
  /\ WF_vars(ReplicaReplays)

-----------------------------------------------------------------------------

Cached(s) == {s} \ {None}
AllCached == Cached(snapshot) \cup UNION {Cached(l1[p]) : p \in Procs}
               \cup UNION {Cached(reader[r].has) : r \in Readers}

(* Every evaluate request is answered, or fails: no reader waits for ever  *)
(* for a lock holder that died.                                            *)
EvaluateEnds == \A r \in Readers : reader[r].at # "idle" ~> reader[r].at = "idle"

(* Staleness ends: once the entitlements stay as they are, there comes a   *)
(* time from which no cache holds older ones, whatever bumps were lost and *)
(* whichever old build was stored last.                                    *)
StalenessEnds ==
  \A d \in 0..MaxWrites : <>[](db = d) => <>[](\A s \in AllCached : s.data = d)

(* ADR-003 decision 4: after a bump Redis does not hold entitlements older *)
(* than the bump; only another process's L1 may, for its TTL.              *)
NoSnapshotOlderThanBump == snapshot # None => snapshot.data >= bumped
=============================================================================
