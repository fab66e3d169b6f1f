------------------------------ MODULE ApiAccess ------------------------------
(***************************************************************************)
(* Who gets past the front door of the API: the bearer key of a request is *)
(* authenticated against a process-local cache and, on a miss, against the *)
(* database (api/deps.py, services/api_keys.py, services/hotpath_cache.py),*)
(* counted against a per-minute limit in Redis (services/rate_limit.py),   *)
(* and only then handled.  Three handlers change the keys themselves:      *)
(* issue (api/v1/organizations.py), rotate and revoke                      *)
(* (api/v1/admin/api_keys.py).                                             *)
(*                                                                         *)
(* A step ends at an await, so the requests of one process interleave, and *)
(* the answer of a query may be used after the row has changed.  Time is a *)
(* clock that every process reads.  A key stands for its digest as well:   *)
(* the hash of a row never changes, so the two indexes of the auth cache   *)
(* hold the same entries.                                                  *)
(***************************************************************************)
EXTENDS Integers, FiniteSets

CONSTANTS
  Keys,        \* rows of api_keys, the ones not issued yet included
  RootRow,     \* the keys the bootstrap issues -> organization, role, expires_at
  None,        \* no organization (a platform_admin key), or no key
  Procs,       \* Uvicorn workers
  Requests,    \* requests in flight
  ProcOf,      \* request -> the process that serves it
  TTL,         \* AUTH_CACHE_TTL_SECONDS (0: no auth cache)
  Lag,         \* REPLICA_LAG_THRESHOLD_SECONDS (0: no replica)
  Window,      \* WINDOW_SECONDS of the rate limit
  Phase,       \* where in a window the clock starts
  LimitOf,     \* role -> requests per window (0: not limited)
  Asks,        \* what clients ask for: <<their key, the operation, the key to change>>
  Wanted,      \* keys an administrator asks for: organization of the path, role
  Delay,       \* bound: ticks a session and an answer of PostgreSQL take
  RedisDelay,  \* bound: ticks an answer of Redis takes
  MaxNow,      \* bound: the clock
  Loads        \* bound: how often each of Asks is asked in a behaviour, some mixes

Root     == DOMAIN RootRow
Admin    == "platform_admin"
ReadOnly == {"revops_read", "support_read"}

\* A time that is later than any the clock or a deadline reaches.
Never == MaxNow + Lag + 2 * Delay + TTL + 1

ASSUME KeysAssumption ==
  /\ Root \subseteq Keys /\ None \notin Keys
  /\ ProcOf \in [Requests -> Procs]
ASSUME TimesAssumption ==
  /\ TTL \in Nat /\ Lag \in Nat /\ Delay \in Nat /\ RedisDelay \in Nat
  /\ MaxNow \in Nat /\ Phase \in Nat /\ Window \in Nat \ {0}
ASSUME RootAssumption ==
  \A k \in Root : /\ RootRow[k].role # Admin => RootRow[k].org # None
                  /\ RootRow[k].expires \in Nat
ASSUME LimitsAssumption ==
  /\ LimitOf[Admin] \in Int
  /\ \A k \in Root : LimitOf[RootRow[k].role] \in Int
  /\ \A w \in Wanted : LimitOf[w.role] \in Int
ASSUME AsksAssumption ==
  /\ Asks \subseteq Keys \X {"call", "issue", "rotate", "revoke"} \X Keys
  /\ Loads \subseteq [Asks -> Nat]
  /\ \A w \in Wanted : w.org # None

VARIABLES
  now,       \* the clock
  issued,    \* key -> when its row was committed
  revoked,   \* key -> when a revocation of it was first committed
  row,       \* key -> organization, role, expires_at
  misled,    \* revoked key -> when a standby last passed for current to it (history)
  origin,    \* key -> the key it replaces and when that one was read (history)
  cache,     \* process -> key -> until when its AuthContext is cached
  counter,   \* key -> window -> the Redis counter (0: absent) and when it expires
  req,       \* request -> where it is and what it holds
  admitted,  \* requests let through within a window's length of now (history)
  todo       \* ask -> how often it is still to be asked

vars == <<now, issued, revoked, row, misled, origin, cache, counter, req, admitted, todo>>

keyRows  == <<issued, revoked, row, origin>>
limiting == <<counter, admitted>>

Time    == 0..MaxNow
WindowOf(t) == (t + Phase) \div Window
Windows == {WindowOf(t) : t \in Time}
NoCount == [count |-> 0, until |-> 0]
NoOrigin == [parent |-> None, read |-> 0]

\* since: when the query in flight saw the data; found: what it saw; route:
\* the database that authenticates.
Idle == [at |-> "idle", key |-> None, op |-> "call", target |-> None,
         since |-> 0, found |-> FALSE, route |-> "primary"]

Init ==
  /\ now = 0
  /\ issued   = [k \in Keys |-> IF k \in Root THEN 0 ELSE Never]
  /\ revoked  = [k \in Keys |-> Never]
  /\ row      = [k \in Keys |-> IF k \in Root THEN RootRow[k]
                                ELSE [org |-> None, role |-> Admin, expires |-> Never]]
  /\ misled   = [k \in Keys |-> 0]
  /\ origin   = [k \in Keys |-> NoOrigin]
  /\ cache    = [p \in Procs |-> [k \in Keys |-> 0]]
  /\ counter  = [k \in Keys |-> [w \in Windows |-> NoCount]]
  /\ req      = [r \in Requests |-> Idle]
  /\ admitted = {}
  /\ todo \in Loads

-----------------------------------------------------------------------------
(* Authentication. *)

Step(r, rec) == req' = [req EXCEPT ![r] = rec]
End(r)       == Step(r, Idle)

(* A context in hand: resolve_api_rate_limit_per_minute, and the limit is  *)
(* asked for at once unless it is switched off.                            *)
Accepted(q) ==
  IF LimitOf[row[q.key].role] <= 0
  THEN [q EXCEPT !.at = "handle", !.since = 0, !.found = FALSE, !.route = "primary"]
  ELSE [q EXCEPT !.at = "limit", !.since = now, !.found = FALSE, !.route = "primary"]

(* get_cached_auth_context: younger than its TTL, and the key itself has   *)
(* not expired.                                                            *)
CacheHit(p, k) == now < cache[p][k] /\ now < row[k].expires

(* get_auth_context, up to its first await.  A hit is accepted; a lapsed   *)
(* entry is dropped on the way.                                            *)
GetAuthContext(r, k, op, t) ==
  /\ req[r].at = "idle"
  /\ todo[<<k, op, t>>] > 0
  /\ issued[k] <= now
  /\ todo' = [todo EXCEPT ![<<k, op, t>>] = @ - 1]
  /\ LET q == [Idle EXCEPT !.key = k, !.op = op, !.target = t]
     IN IF CacheHit(ProcOf[r], k)
        THEN Step(r, Accepted(q)) /\ UNCHANGED cache
        ELSE /\ Step(r, [q EXCEPT !.at = "route"])
             /\ cache' = [cache EXCEPT ![ProcOf[r]][k] = 0]
  /\ UNCHANGED <<now, keyRows, limiting, misled>>

(* select_read_session_factory: the primary, or a replica whose lag, as    *)
(* get_replica_lag_seconds has just measured it in a session of its own,   *)
(* is below the threshold.  A standby that has replayed nothing since it   *)
(* was started reports no lag whatever it shows ("blank").                 *)
Route(r) ==
  /\ req[r].at = "route"
  /\ \E route \in {"primary"} \cup (IF Lag > 0 THEN {"replica", "blank"} ELSE {}) :
       /\ Step(r, [req[r] EXCEPT !.at = "select", !.route = route,
                                  !.since = IF route = "primary" THEN 0 ELSE now])
       /\ misled' = [misled EXCEPT ![req[r].key] =
                       IF route = "blank" /\ revoked[req[r].key] <= now THEN now ELSE @]
  /\ UNCHANGED <<now, keyRows, cache, limiting, todo>>

(* Mutant: the session is opened with allow_stale. *)
MutantReadableAt(q) == {s \in Time : s <= now}

(* What a session opened on that route sees is the table as it is, or as   *)
(* it was at some moment since the lag before the measurement.  (A lag     *)
(* below the threshold reaches back Lag whole ticks.)                      *)
ReadableAt(q) ==
  {s \in Time : /\ s <= now
                /\ q.route = "primary" => s = now
                /\ q.route = "replica" => q.since <= s + Lag}

(* Mutant: the condition revoked_at IS NULL is missing. *)
MutantActiveAt(k, s) == issued[k] <= s

(* Committed and not revoked in the table as it was at time s. *)
ActiveAt(k, s) == issued[k] <= s /\ s < revoked[k]

(* authenticate: the session is opened and the SELECT by digest runs.      *)
Select(r) ==
  /\ req[r].at = "select"
  /\ \E s \in ReadableAt(req[r]) :
       Step(r, [req[r] EXCEPT !.at = "resume", !.since = now,
                              !.found = ActiveAt(req[r].key, s)])
  /\ UNCHANGED <<now, misled, keyRows, cache, limiting, todo>>

(* cache_auth_context: the entry of the key, or the old one with the cache *)
(* switched off.                                                           *)
CachedUntil(old) == IF TTL > 0 THEN now + TTL ELSE old

(* authenticate from where the SELECT returned. *)
Authenticate(r) ==
  LET q == req[r]
      ok == q.found /\ now < row[q.key].expires
  IN /\ q.at = "resume"
     /\ Step(r, IF ok THEN Accepted(q) ELSE [q EXCEPT !.at = "refused"])
     /\ cache' = [cache EXCEPT ![ProcOf[r]][q.key] = IF ok THEN CachedUntil(@) ELSE @]
     /\ UNCHANGED <<now, misled, keyRows, limiting, todo>>

(* The 401 goes out. *)
Refuse(r) ==
  /\ req[r].at = "refused"
  /\ End(r)
  /\ UNCHANGED <<now, misled, keyRows, cache, limiting, todo>>

-----------------------------------------------------------------------------
(* The rate limit.  The key of the counter names the window the process    *)
(* was in when it asked; the script runs in Redis some time later.         *)

(* INCR and, on the first increment, EXPIRE. *)
Incremented(c) ==
  [count |-> c.count + 1, until |-> IF c.count = 0 THEN now + Window ELSE c.until]

(* Mutant: the count before the increment is compared. *)
MutantAllowed(role, count) == count - 1 <= LimitOf[role]

Allowed(role, count) == count <= LimitOf[role]

(* A request let through: when, and what the counter of its window says.   *)
Admission(k, w, c) ==
  [key |-> k, at |-> now, window |-> w, count |-> c.count, until |-> c.until]

(* check_rate_limit: the request goes on, or is answered with 429. *)
CheckRateLimit(r) ==
  LET q == req[r]
      w == WindowOf(q.since)
      c == Incremented(counter[q.key][w])
  IN /\ q.at = "limit"
     /\ counter' = [counter EXCEPT ![q.key][w] = c]
     /\ IF Allowed(row[q.key].role, c.count)
        THEN /\ Step(r, [q EXCEPT !.at = "handle", !.since = 0])
             /\ admitted' = admitted \cup {Admission(q.key, w, c)}
        ELSE End(r) /\ UNCHANGED admitted
     /\ UNCHANGED <<now, misled, keyRows, cache, todo>>

(* enforce_rate_limit_for_api_key: any RedisError is a 503, whether or not *)
(* the script ran.                                                         *)
RedisError(r) ==
  LET q == req[r]
      w == WindowOf(q.since)
  IN /\ q.at = "limit"
     /\ \/ UNCHANGED counter
        \/ counter' = [counter EXCEPT ![q.key][w] = Incremented(@)]
     /\ End(r)
     /\ UNCHANGED <<now, misled, keyRows, cache, admitted, todo>>

-----------------------------------------------------------------------------
(* The handlers. *)

(* Any other route: it changes nothing here. *)
HandleCall(r) ==
  /\ req[r].at = "handle" /\ req[r].op = "call"
  /\ End(r)
  /\ UNCHANGED <<now, misled, keyRows, cache, limiting, todo>>

(* create_api_key: the row of a new key, which has no expiry. *)
NewKey(org, role) == [org |-> org, role |-> role, expires |-> Never]

(* A row is inserted and committed. *)
Issue(k, new, from) ==
  /\ issued[k] = Never
  /\ issued' = [issued EXCEPT ![k] = now]
  /\ row' = [row EXCEPT ![k] = new]
  /\ origin' = [origin EXCEPT ![k] = from]

(* post_api_key: nothing is read that could change before the commit.  A   *)
(* platform_admin key belongs to no organization.                          *)
IssueKey(r) ==
  /\ req[r].at = "handle" /\ req[r].op = "issue"
  /\ IF row[req[r].key].role = Admin
     THEN \E k \in Keys, w \in Wanted :
            Issue(k, NewKey(IF w.role = Admin THEN None ELSE w.org, w.role), NoOrigin)
     ELSE UNCHANGED <<issued, row, origin>>
  /\ End(r)
  /\ UNCHANGED <<now, misled, revoked, cache, limiting, todo>>

(* _assert_rotate_access. *)
MayRotate(actor, t) ==
  \/ row[actor].role = Admin
  \/ actor = t /\ row[t].org # None

(* _assert_revoke_access. *)
MayRevoke(actor, t) ==
  \/ row[actor].role = Admin
  \/ /\ row[t].org # None
     /\ row[actor].org = row[t].org
     /\ \/ actor = t
        \/ row[actor].role \notin ReadOnly /\ row[actor].role = row[t].role

(* _resolve_organization_id: a platform_admin key is answered with 400. *)
Permitted(op, actor, t) ==
  /\ IF op = "rotate" THEN MayRotate(actor, t) ELSE MayRevoke(actor, t)
  /\ row[t].org # None

(* Mutant: the actor's own authentication stands for the look-up. *)
MutantTargetActive(q) == q.key = q.target \/ ActiveAt(q.target, now)

(* _load_active_api_key, on the primary. *)
TargetActive(q) == ActiveAt(q.target, now)

(* The key to change is loaded, checked and loaded again as active; only   *)
(* the last look-up can find something new, the rest never changes.        *)
LoadKey(r) ==
  LET q == req[r]
  IN /\ q.at = "handle" /\ q.op \in {"rotate", "revoke"}
     /\ IF TargetActive(q) /\ Permitted(q.op, q.key, q.target)
        THEN Step(r, [q EXCEPT !.at = "flush", !.since = IF q.op = "rotate" THEN now ELSE 0])
        ELSE End(r)
     /\ UNCHANGED <<now, misled, keyRows, cache, limiting, todo>>

(* An UPDATE waits for the transaction that holds the row. *)
RowLocked(t) == \E r \in Requests : req[r].at = "commit" /\ req[r].op = "revoke"
                                    /\ req[r].target = t

Invalidated(r) == cache' = [cache EXCEPT ![ProcOf[r]][req[r].target] = 0]

(* revoke_api_key from its flush on: invalidate_auth_context reaches the   *)
(* cache of this process only, and before the commit.                      *)
FlushRevoke(r) ==
  /\ req[r].at = "flush" /\ req[r].op = "revoke"
  /\ ~RowLocked(req[r].target)
  /\ Step(r, [req[r] EXCEPT !.at = "commit"])
  /\ Invalidated(r)
  /\ UNCHANGED <<now, misled, keyRows, limiting, todo>>

(* A second revocation overwrites the time stamp of the first, which no    *)
(* query looks at.                                                         *)
CommitRevoke(r) ==
  LET t == req[r].target
  IN /\ req[r].at = "commit" /\ req[r].op = "revoke"
     /\ revoked' = [revoked EXCEPT ![t] = IF @ < now THEN @ ELSE now]
     /\ End(r)
     /\ UNCHANGED <<now, misled, issued, row, origin, cache, limiting, todo>>

(* rotate_api_key: the INSERT is flushed and the old key dropped from the  *)
(* cache of this process.                                                  *)
FlushRotate(r) ==
  /\ req[r].at = "flush" /\ req[r].op = "rotate"
  /\ Step(r, [req[r] EXCEPT !.at = "commit"])
  /\ Invalidated(r)
  /\ UNCHANGED <<now, misled, keyRows, limiting, todo>>

(* The replacement has the organization and the role of the old key, and   *)
(* not its expiry.                                                         *)
CommitRotate(r) ==
  LET t == req[r].target
  IN /\ req[r].at = "commit" /\ req[r].op = "rotate"
     /\ \E k \in Keys : Issue(k, NewKey(row[t].org, row[t].role),
                               [parent |-> t, read |-> req[r].since])
     /\ End(r)
     /\ UNCHANGED <<now, misled, revoked, cache, limiting, todo>>

(* The session is closed without a commit. *)
Rollback(r) ==
  /\ req[r].at \in {"flush", "commit"}
  /\ End(r)
  /\ UNCHANGED <<now, misled, keyRows, cache, limiting, todo>>

(* A worker process is replaced: its cache and its requests are gone. *)
Restart(p) ==
  /\ \E r \in Requests : ProcOf[r] = p /\ req[r].at # "idle"
  /\ cache' = [cache EXCEPT ![p] = [k \in Keys |-> 0]]
  /\ req' = [r \in Requests |-> IF ProcOf[r] = p THEN Idle ELSE req[r]]
  /\ UNCHANGED <<now, misled, keyRows, limiting, todo>>

(* The clock, which no outstanding answer of a store may outlast, nor the  *)
(* opening of a session on the database that was chosen for it.  Redis     *)
(* drops the counters that expire; a lapsed context, which the code drops  *)
(* when it next looks it up, is dropped here when it lapses.               *)
Tick ==
  /\ now < MaxNow
  /\ \A r \in Requests :
       /\ (\/ req[r].at = "resume"
           \/ req[r].at = "select" /\ req[r].route # "primary") => now < req[r].since + Delay
       /\ req[r].at = "limit" => now < req[r].since + RedisDelay
  /\ now' = now + 1
  /\ counter' = [k \in Keys |-> [w \in Windows |->
                   IF counter[k][w].until <= now + 1 THEN NoCount ELSE counter[k][w]]]
  /\ admitted' = {m \in admitted : now + 1 < m.at + Window}
  /\ cache' = [p \in Procs |-> [k \in Keys |->
                 IF cache[p][k] <= now + 1 THEN 0 ELSE cache[p][k]]]
  /\ UNCHANGED <<keyRows, misled, req, todo>>

Next ==
  \/ Tick
  \/ \E p \in Procs : Restart(p)
  \/ \E r \in Requests :
       \/ \E ask \in Asks : GetAuthContext(r, ask[1], ask[2], ask[3])
       \/ Route(r) \/ Select(r) \/ Authenticate(r) \/ Refuse(r)
       \/ CheckRateLimit(r) \/ RedisError(r)
       \/ HandleCall(r) \/ IssueKey(r) \/ LoadKey(r)
       \/ FlushRevoke(r) \/ CommitRevoke(r)
       \/ FlushRotate(r) \/ CommitRotate(r)
       \/ Rollback(r)

Spec == Init /\ [][Next]_vars

-----------------------------------------------------------------------------
(* Properties. *)

Later(x, y) == IF x < y THEN y ELSE x

(* Until when a revocation of a key may stay hidden.                       *)
HiddenUntil(k) == Later(revoked[k], misled[k]) + Lag + 2 * Delay + TTL

(* A revoked key is accepted only for as long as the lag of the replica,   *)
(* the opening of the session after the lag was measured, the outstanding  *)
(* answer and the cache TTL can hide the revocation, in every process:     *)
(* although invalidate_auth_context reaches one process and comes before   *)
(* the commit, so that an authentication in flight puts the key back into  *)
(* the cache that was just cleared.  A standby that passes for current     *)
(* hides it for as long as it does.                                        *)
RevocationBites ==
  \A r \in Requests : req[r].at = "limit" => req[r].since <= HiddenUntil(req[r].key)

(* Rotation without downtime: a request is refused only because its key is *)
(* revoked or expired, or was issued so recently that the replica, as it   *)
(* was measured before the session was opened, may not have it yet, or     *)
(* because a standby that has replayed nothing passed for current.         *)
RefusalIsJustified ==
  \A r \in Requests :
    LET q == req[r]
    IN q.at = "refused" => \/ revoked[q.key] <= q.since
                           \/ row[q.key].expires <= now
                           \/ q.route = "replica" /\ q.since < issued[q.key] + Lag + Delay
                           \/ q.route = "blank"

(* A replacement key stands for the key it replaces, and no rotation that  *)
(* looked after a revocation was committed replaces the revoked key,       *)
(* although a cached authentication may still let its request in.          *)
ReplacementOfLiveKey ==
  \A k \in Keys :
    LET p == origin[k].parent
    IN issued[k] # Never /\ p # None =>
         /\ origin[k].read <= revoked[p]
         /\ row[k].org = row[p].org /\ row[k].role = row[p].role

(* In any stretch of a window's length less than five times the limit is  *)
(* let through while Redis answers within a window, however fast it is:    *)
(* twice is the price of fixed windows, the rest comes from requests that  *)
(* name a window while it lasts and are counted after it, in its last life *)
(* or, when the counter has expired while they waited, in one more: those  *)
(* of the last two windows may fall into the same stretch.                 *)
BurstBounded ==
  \A k \in Keys :
    LET limit == LimitOf[row[k].role]
    IN RedisDelay < Window /\ limit > 0 =>
         Cardinality({m \in admitted : m.key = k}) <= 5 * limit - 2
=============================================================================
