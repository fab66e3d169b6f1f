----------------------------- MODULE BuildLock -----------------------------
(***************************************************************************)
(* What the build lock of the entitlement snapshot is for (redis_cache.py, *)
(* get_or_build_cached_snapshot): of the requests that miss the cache one  *)
(* builds, the others wait.  EntitlementCache moves this state.            *)
(***************************************************************************)
EXTENDS Integers, FiniteSets

CONSTANT Readers       \* evaluate requests

VARIABLES lock,        \* the build lock key exists
          reader,      \* reader -> where it is, and the snapshot in its hands
          expiries     \* build locks that lapsed before they were released

(* From the SET NX that succeeded to the DELETE. *)
HoldersAt == {"recheck", "build", "stamp", "store", "release"}

LockHolders == {r \in Readers : reader[r].at \in HoldersAt}

(* Stampede control: the builders that write Redis are as many as the      *)
(* lock, plus one for each time the lock lapsed under its holder.  A       *)
(* holder that outlives its lock deletes its successor's, but that does    *)
(* not let more of them in.                                                *)
StampedeBounded ==
  Cardinality(LockHolders) <= (IF lock THEN 1 ELSE 0) + expiries
=============================================================================
