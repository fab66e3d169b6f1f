-------------------------- MODULE ApiAccessProofs --------------------------
(***************************************************************************)
(* Theorems about ApiAccess, for any keys, worker processes and requests,  *)
(* any cache TTL, replica lag and delay of the stores, any rate window and *)
(* place of the clock in it, and any limit of a role.  A tick may be as    *)
(* short as one likes: every bound is stated in the constants that are     *)
(* measured in it.                                                         *)
(***************************************************************************)
EXTENDS ApiAccess, FiniteSetTheorems, TLAPS

TypeOK ==
  /\ now \in 0..MaxNow
  /\ issued \in [Keys -> Nat] /\ revoked \in [Keys -> Nat]
  /\ misled \in [Keys -> Nat] /\ \A k \in Keys : misled[k] <= now
  /\ row = [k \in Keys |-> row[k]] /\ \A k \in Keys : row[k].expires \in Nat
  /\ origin = [k \in Keys |-> origin[k]]
  /\ cache \in [Procs -> [Keys -> Nat]]
  /\ req = [r \in Requests |-> req[r]]

(* A cached context lapses within the TTL, and no later than the           *)
(* revocation of the key allows.                                           *)
CacheOK ==
  \A p \in Procs, k \in Keys :
    cache[p][k] <= now + TTL /\ cache[p][k] <= HiddenUntil(k)

(* A request: its key is one that was issued. *)
IsReq(q) ==
  /\ q = [at |-> q.at, key |-> q.key, op |-> q.op, target |-> q.target,
          since |-> q.since, found |-> q.found, route |-> q.route]
  /\ q.since \in Nat /\ q.since <= now /\ q.found \in BOOLEAN
  /\ q.at # "idle" => q.key \in Keys /\ q.target \in Keys /\ issued[q.key] <= now

(* Until when a session that is opened may still not show a revocation. *)
Shown(k) == Later(revoked[k], misled[k])

(* The session on a standby is opened within the delay. *)
SelectOK(q) ==
  /\ q.route \in {"primary", "replica", "blank"}
  /\ q.route # "primary" => now <= q.since + Delay
  /\ q.route = "blank" => q.since <= Shown(q.key)

(* The query is answered within the delay; an active key was not revoked   *)
(* earlier than the lag when that was measured, and another was revoked or *)
(* is new to the replica.                                                  *)
ResumeOK(q) ==
  /\ now <= q.since + Delay
  /\ q.found => q.since <= Shown(q.key) + Lag + Delay
  /\ ~q.found => \/ revoked[q.key] <= q.since
                 \/ q.route = "replica" /\ q.since < issued[q.key] + Lag + Delay
                 \/ q.route = "blank"

LimitOK(q) == q.since <= HiddenUntil(q.key)

RefusedOK(q) == \/ revoked[q.key] <= q.since
                \/ row[q.key].expires <= now
                \/ q.route = "replica" /\ q.since < issued[q.key] + Lag + Delay
                \/ q.route = "blank"

(* The key that is about to be replaced was active when it was read. *)
RotateOK(q) == issued[q.target] <= now /\ q.since <= revoked[q.target]

ReqOK(q) ==
  /\ IsReq(q)
  /\ q.at = "select" => SelectOK(q)
  /\ q.at = "resume" => ResumeOK(q)
  /\ q.at = "limit" => LimitOK(q)
  /\ q.at = "refused" => RefusedOK(q)
  /\ q.at \in {"flush", "commit"} /\ q.op = "rotate" => RotateOK(q)

(* A replacement and the issued key it stands for. *)
OriginOK(k) ==
  LET p == origin[k].parent
  IN issued[k] # Never /\ p # None =>
       /\ p \in Keys /\ issued[p] <= now
       /\ origin[k].read \in Nat /\ origin[k].read <= now
       /\ origin[k].read <= revoked[p]
       /\ row[k].org = row[p].org /\ row[k].role = row[p].role

IInv == /\ TypeOK
        /\ CacheOK
        /\ \A r \in Requests : ReqOK(req[r])
        /\ \A k \in Keys : OriginOK(k)

-----------------------------------------------------------------------------
(* Lemmas.                                                                 *)

(* No clock and no deadline reaches Never. *)
LEMMA NeverLate == Never \in Nat /\ MaxNow < Never
BY TimesAssumption DEF Never

(* What bounds a revocation is not before it, and not before a misleading  *)
(* look-up.                                                                *)
LEMMA Bounds ==
  ASSUME IInv, NEW k \in Keys
  PROVE  /\ now \in Nat /\ revoked[k] \in Nat /\ misled[k] \in Nat /\ misled[k] <= now
         /\ Shown(k) \in Nat /\ revoked[k] <= Shown(k) /\ misled[k] <= Shown(k)
         /\ HiddenUntil(k) \in Nat /\ HiddenUntil(k) = Shown(k) + Lag + 2 * Delay + TTL
<1>1. now \in Nat /\ revoked[k] \in Nat /\ misled[k] \in Nat /\ misled[k] <= now
  BY DEF IInv, TypeOK
<1>2. Shown(k) \in Nat /\ revoked[k] <= Shown(k) /\ misled[k] <= Shown(k)
  BY <1>1 DEF Shown, Later
<1>3. HiddenUntil(k) = Shown(k) + Lag + 2 * Delay + TTL BY DEF Shown, HiddenUntil
<1> QED BY <1>1, <1>2, <1>3, TimesAssumption

LEMMA IdleOK ==
  ASSUME IInv PROVE ReqOK(Idle) /\ Idle.at = "idle"
<1>1. IsReq(Idle) BY DEF IInv, TypeOK, Idle, IsReq
<1> QED BY <1>1 DEF Idle, ReqOK

(* A request becomes u, and of the rest only the cache changes. *)
LEMMA ReqMoves ==
  ASSUME IInv, NEW r \in Requests, NEW u, ReqOK(u), req' = [req EXCEPT ![r] = u],
         cache' \in [Procs -> [Keys -> Nat]], CacheOK',
         UNCHANGED <<now, misled, issued, revoked, row, origin>>
  PROVE  IInv'
<1>1. /\ req' = [s \in Requests |-> req'[s]]
      /\ \A s \in Requests : req'[s] = IF s = r THEN u ELSE req[s]
  BY DEF IInv, TypeOK
<1>2. TypeOK' BY <1>1 DEF IInv, TypeOK
<1>3. ASSUME NEW s \in Requests PROVE ReqOK(req[s])'
  <2>1. ReqOK(req'[s]) BY <1>1 DEF IInv
  <2> QED BY <2>1
     DEF ReqOK, IsReq, SelectOK, ResumeOK, LimitOK, RefusedOK, RotateOK, Shown, HiddenUntil
<1>4. \A k \in Keys : OriginOK(k)' BY DEF IInv, OriginOK
<1> QED BY <1>2, <1>3, <1>4 DEF IInv

(* The request is answered and gone. *)
LEMMA ReqEnds ==
  ASSUME IInv, NEW r \in Requests, End(r),
         UNCHANGED <<now, misled, issued, revoked, row, origin, cache>>
  PROVE  IInv'
<1>1. CacheOK' /\ cache' \in [Procs -> [Keys -> Nat]] BY DEF IInv, TypeOK, CacheOK, HiddenUntil
<1>2. PICK u : u = Idle OBVIOUS
<1>3. ReqOK(u) /\ req' = [req EXCEPT ![r] = u] BY <1>2, IdleOK DEF End, Step
<1> QED BY <1>1, <1>3, ReqMoves

(* The fields of a request after an update of some of them. *)
LEMMA ReqFields ==
  ASSUME NEW a, NEW k, NEW o, NEW t, NEW s, NEW f, NEW w, NEW u,
         u = [at |-> a, key |-> k, op |-> o, target |-> t, since |-> s, found |-> f,
              route |-> w]
  PROVE  /\ u.at = a /\ u.key = k /\ u.op = o /\ u.target = t /\ u.since = s /\ u.found = f
         /\ u.route = w
OBVIOUS

(* A request that is let in with its context. *)
LEMMA AcceptedOK ==
  ASSUME IInv, NEW q, IsReq(q), q.key \in Keys, q.target \in Keys, issued[q.key] <= now,
         now <= HiddenUntil(q.key),
         NEW u, u = Accepted(q)
  PROVE  ReqOK(u)
<1>0. now \in Nat BY DEF IInv, TypeOK
<1>1. CASE LimitOf[row[q.key].role] <= 0
  <2>1. u = [q EXCEPT !.at = "handle", !.since = 0, !.found = FALSE, !.route = "primary"]
    BY <1>1 DEF Accepted
  <2>2. u = [at |-> "handle", key |-> q.key, op |-> q.op, target |-> q.target,
             since |-> 0, found |-> FALSE, route |-> "primary"]
    BY <2>1 DEF IsReq
  <2>3. /\ u.at = "handle" /\ u.key = q.key /\ u.op = q.op /\ u.target = q.target
        /\ u.since = 0 /\ u.found = FALSE /\ u.route = "primary"
    BY <2>2, ReqFields
  <2>4. IsReq(u) BY <1>0, <2>2, <2>3 DEF IsReq
  <2> QED BY <2>3, <2>4 DEF ReqOK
<1>2. CASE ~(LimitOf[row[q.key].role] <= 0)
  <2>1. u = [q EXCEPT !.at = "limit", !.since = now, !.found = FALSE, !.route = "primary"]
    BY <1>2 DEF Accepted
  <2>2. u = [at |-> "limit", key |-> q.key, op |-> q.op, target |-> q.target,
             since |-> now, found |-> FALSE, route |-> "primary"]
    BY <2>1 DEF IsReq
  <2>3. /\ u.at = "limit" /\ u.key = q.key /\ u.op = q.op /\ u.target = q.target
        /\ u.since = now /\ u.found = FALSE /\ u.route = "primary"
    BY <2>2, ReqFields
  <2>4. IsReq(u) BY <1>0, <2>2, <2>3 DEF IsReq
  <2> QED BY <2>3, <2>4 DEF ReqOK, LimitOK
<1> QED BY <1>1, <1>2

(* An entry of the cache of a process is written. *)
LEMMA CacheSet ==
  ASSUME IInv, NEW p \in Procs, NEW k \in Keys, NEW n \in Nat,
         n <= now + TTL, n <= HiddenUntil(k),
         cache' = [cache EXCEPT ![p][k] = n], UNCHANGED <<now, misled, revoked>>
  PROVE  cache' \in [Procs -> [Keys -> Nat]] /\ CacheOK'
<1>1. cache \in [Procs -> [Keys -> Nat]] BY DEF IInv, TypeOK
<1>2. cache' \in [Procs -> [Keys -> Nat]] BY <1>1
<1>3. \A o \in Procs, l \in Keys : cache'[o][l] = IF o = p /\ l = k THEN n ELSE cache[o][l]
  BY <1>1
<1> QED BY <1>2, <1>3 DEF IInv, CacheOK, HiddenUntil

LEMMA CacheKept ==
  ASSUME IInv, UNCHANGED <<now, misled, revoked, cache>>
  PROVE  cache' \in [Procs -> [Keys -> Nat]] /\ CacheOK'
BY DEF IInv, TypeOK, CacheOK, HiddenUntil

(* An entry is dropped, which invalidate_auth_context does, or a look-up   *)
(* that finds it lapsed.                                                   *)
LEMMA CacheDrop ==
  ASSUME IInv, NEW p \in Procs, NEW k \in Keys,
         cache' = [cache EXCEPT ![p][k] = 0], UNCHANGED <<now, misled, revoked>>
  PROVE  cache' \in [Procs -> [Keys -> Nat]] /\ CacheOK'
<1>1. 0 \in Nat /\ 0 <= now + TTL /\ 0 <= HiddenUntil(k)
  BY Bounds, TimesAssumption
<1> QED BY <1>1, CacheSet

-----------------------------------------------------------------------------
(* Authentication.                                                         *)

(* A request arrives: a hit is accepted while the entry lives, a miss      *)
(* asks for a database.                                                    *)
LEMMA GetAuthContextIInv ==
  ASSUME IInv, NEW r \in Requests, NEW k \in Keys, NEW op, NEW t \in Keys,
         GetAuthContext(r, k, op, t)
  PROVE  IInv'
<1>0. PICK q : q = [Idle EXCEPT !.key = k, !.op = op, !.target = t] OBVIOUS
<1>1. UNCHANGED <<now, misled, issued, revoked, row, origin>> /\ issued[k] <= now
  BY DEF GetAuthContext, keyRows
<1>2. q = [at |-> "idle", key |-> k, op |-> op, target |-> t, since |-> 0, found |-> FALSE,
            route |-> "primary"]
  BY <1>0 DEF Idle
<1>3. /\ q.at = "idle" /\ q.key = k /\ q.op = op /\ q.target = t /\ q.since = 0
      /\ q.found = FALSE /\ q.route = "primary"
  BY <1>2, ReqFields
<1>4. now \in Nat /\ revoked[k] \in Nat /\ ProcOf[r] \in Procs BY KeysAssumption DEF IInv, TypeOK
<1>5. IsReq(q) BY <1>2, <1>3, <1>4 DEF IsReq
<1>6. CASE CacheHit(ProcOf[r], k)
  <2>0. PICK u : u = Accepted(q) OBVIOUS
  <2>1. req' = [req EXCEPT ![r] = u] /\ cache' = cache
    BY <1>0, <1>6, <2>0 DEF GetAuthContext, Step
  <2>2. now <= HiddenUntil(k)
    <3>1. /\ now < cache[ProcOf[r]][k] /\ cache[ProcOf[r]][k] \in Nat
          /\ cache[ProcOf[r]][k] <= HiddenUntil(k)
      BY <1>4, <1>6 DEF CacheHit, IInv, TypeOK, CacheOK
    <3> QED BY <1>4, <3>1, Bounds
  <2>3. ReqOK(u) BY <1>1, <1>3, <1>5, <2>0, <2>2, AcceptedOK
  <2> QED BY <1>1, <2>1, <2>3, CacheKept, ReqMoves
<1>7. CASE ~CacheHit(ProcOf[r], k)
  <2>0. PICK u : u = [q EXCEPT !.at = "route"] OBVIOUS
  <2>1. req' = [req EXCEPT ![r] = u] /\ cache' = [cache EXCEPT ![ProcOf[r]][k] = 0]
    BY <1>0, <1>7, <2>0 DEF GetAuthContext, Step
  <2>2. u = [at |-> "route", key |-> k, op |-> op, target |-> t, since |-> 0, found |-> FALSE,
             route |-> "primary"]
    BY <1>2, <2>0
  <2>3. /\ u.at = "route" /\ u.key = k /\ u.op = op /\ u.target = t /\ u.since = 0
        /\ u.found = FALSE /\ u.route = "primary"
    BY <2>2, ReqFields
  <2>4. ReqOK(u) BY <1>1, <1>4, <2>2, <2>3 DEF ReqOK, IsReq
  <2> QED BY <1>1, <1>4, <2>1, <2>4, CacheDrop, ReqMoves
<1> QED BY <1>6, <1>7

(* A database is chosen: the bounds of every request that looks the key up *)
(* grow when the standby passes for current.                               *)
LEMMA RouteIInv ==
  ASSUME IInv, NEW r \in Requests, Route(r)
  PROVE  IInv'
<1>0. PICK q : q = req[r] OBVIOUS
<1>1. PICK route \in {"primary", "replica", "blank"} :
        /\ req' = [req EXCEPT ![r] = [req[r] EXCEPT !.at = "select", !.route = route,
                                         !.since = IF route = "primary" THEN 0 ELSE now]]
        /\ misled' = [misled EXCEPT ![req[r].key] =
                        IF route = "blank" /\ revoked[req[r].key] <= now THEN now ELSE @]
  BY DEF Route, Step
<1>2. PICK n : n = IF route = "primary" THEN 0 ELSE now OBVIOUS
<1>3. PICK u : u = [q EXCEPT !.at = "select", !.route = route, !.since = n] OBVIOUS
<1>4. /\ q.at = "route" /\ IsReq(q) /\ req' = [req EXCEPT ![r] = u]
      /\ UNCHANGED <<now, issued, revoked, row, origin, cache>>
  BY <1>0, <1>1, <1>2, <1>3 DEF Route, IInv, ReqOK, keyRows
<1>5. /\ q.key \in Keys /\ q.target \in Keys /\ issued[q.key] <= now
      /\ now \in Nat /\ n \in Nat /\ n <= now /\ misled \in [Keys -> Nat]
  BY <1>2, <1>4 DEF IsReq, IInv, TypeOK
<1>6. PICK m : m = IF route = "blank" /\ revoked[q.key] <= now THEN now ELSE misled[q.key]
  OBVIOUS
<1>7. /\ m \in Nat /\ misled[q.key] <= m /\ m <= now
      /\ route = "blank" => m = now \/ now < revoked[q.key]
  BY <1>5, <1>6, Bounds
<1>8. /\ misled' \in [Keys -> Nat]
      /\ \A k \in Keys : misled'[k] = IF k = q.key THEN m ELSE misled[k]
  BY <1>0, <1>1, <1>5, <1>6, <1>7
<1>9. ASSUME NEW k \in Keys
      PROVE  /\ misled'[k] \in Nat /\ misled'[k] <= now'
             /\ Shown(k) <= Shown(k)' /\ HiddenUntil(k) <= HiddenUntil(k)'
             /\ Shown(k) \in Nat /\ Shown(k)' \in Nat
             /\ HiddenUntil(k) \in Nat /\ HiddenUntil(k)' \in Nat
  <2>1. /\ misled'[k] \in Nat /\ misled[k] <= misled'[k] /\ misled'[k] <= now' /\ now' = now
        /\ revoked' = revoked
    BY <1>4, <1>5, <1>7, <1>8, Bounds
  <2>2. Shown(k) <= Shown(k)' /\ Shown(k)' \in Nat BY <2>1, Bounds DEF Shown, Later
  <2>3. HiddenUntil(k)' = Shown(k)' + Lag + 2 * Delay + TTL BY DEF HiddenUntil, Shown
  <2> QED BY <2>1, <2>2, <2>3, Bounds, TimesAssumption
<1>10. u = [at |-> "select", key |-> q.key, op |-> q.op, target |-> q.target,
            since |-> n, found |-> q.found, route |-> route]
  BY <1>3, <1>4 DEF IsReq
<1>11. /\ u.at = "select" /\ u.key = q.key /\ u.op = q.op /\ u.target = q.target
       /\ u.since = n /\ u.found = q.found /\ u.route = route
  BY <1>10, ReqFields
<1>12. IsReq(u)' BY <1>4, <1>5, <1>10, <1>11 DEF IsReq
<1>13. SelectOK(u)'
  <2>1. route # "primary" => n = now /\ now' <= n + Delay
    BY <1>2, <1>4, <1>5, TimesAssumption
  <2>2. route = "blank" => now <= Shown(q.key)'
    BY <1>4, <1>5, <1>7, <1>8, Bounds DEF Shown, Later
  <2> QED BY <1>11, <2>1, <2>2 DEF SelectOK, Shown
<1>14. /\ req' = [s \in Requests |-> req'[s]]
       /\ \A s \in Requests : req'[s] = IF s = r THEN u ELSE req[s]
  BY <1>4 DEF IInv, TypeOK
<1>15. TypeOK' BY <1>4, <1>8, <1>9, <1>14 DEF IInv, TypeOK
<1>16. ASSUME NEW p \in Procs, NEW k \in Keys
       PROVE  cache'[p][k] <= now' + TTL /\ cache'[p][k] <= HiddenUntil(k)'
  <2>1. /\ cache' = cache /\ cache[p][k] \in Nat
        /\ cache[p][k] <= now + TTL /\ cache[p][k] <= HiddenUntil(k)
    BY <1>4 DEF IInv, TypeOK, CacheOK
  <2> QED BY <1>4, <1>9, <2>1
<1>17. CacheOK' BY <1>16 DEF CacheOK, HiddenUntil
<1>18. ASSUME NEW s \in Requests PROVE ReqOK(req[s])'
  <2>1. CASE s = r BY <1>11, <1>12, <1>13, <1>14, <2>1
                   DEF ReqOK, IsReq, SelectOK, Shown
  <2>2. CASE s # r
    <3>0. PICK o : o = req[s] OBVIOUS
    <3>1. ReqOK(o) /\ req'[s] = o BY <1>14, <2>2, <3>0 DEF IInv
    <3>2. IsReq(o)' BY <1>4, <3>1 DEF ReqOK, IsReq
    <3>3. CASE o.at = "idle" BY <3>1, <3>2, <3>3 DEF ReqOK, IsReq
    <3>4. CASE o.at # "idle"
      <4>1. o.key \in Keys /\ o.since \in Nat BY <3>1, <3>4 DEF ReqOK, IsReq
      <4>2. o.at = "select" => SelectOK(o)'
        BY <1>4, <1>9, <3>1, <4>1 DEF ReqOK, SelectOK
      <4>3. o.at = "resume" => ResumeOK(o)'
        <5>1. o.at = "resume" /\ o.found => o.since <= Shown(o.key)' + Lag + Delay
          BY <1>9, <3>1, <4>1, TimesAssumption DEF ReqOK, ResumeOK
        <5> QED BY <1>4, <3>1, <5>1 DEF ReqOK, ResumeOK
      <4>4. o.at = "limit" => LimitOK(o)' BY <1>9, <3>1, <4>1 DEF ReqOK, LimitOK
      <4>5. o.at = "refused" => RefusedOK(o)' BY <1>4, <3>1 DEF ReqOK, RefusedOK
      <4>6. o.at \in {"flush", "commit"} /\ o.op = "rotate" => RotateOK(o)'
        BY <1>4, <3>1 DEF ReqOK, RotateOK
      <4>7. ReqOK(o)' BY <3>2, <4>2, <4>3, <4>4, <4>5, <4>6 DEF ReqOK
      <4> QED BY <3>1, <4>7
              DEF ReqOK, IsReq, SelectOK, ResumeOK, LimitOK, RefusedOK, RotateOK, Shown, HiddenUntil
    <3> QED BY <3>3, <3>4
  <2> QED BY <2>1, <2>2
<1>19. ASSUME NEW k \in Keys PROVE OriginOK(k)'
  <2>1. OriginOK(k) BY DEF IInv
  <2> QED BY <1>4, <2>1 DEF OriginOK
<1> QED BY <1>15, <1>17, <1>18, <1>19 DEF IInv

(* The SELECT answers with the table as it was at most the lag before that *)
(* was measured.                                                           *)
LEMMA SelectIInv ==
  ASSUME IInv, NEW r \in Requests, Select(r)
  PROVE  IInv'
<1>0. PICK q : q = req[r] OBVIOUS
<1>1. PICK s \in ReadableAt(q) :
        req' = [req EXCEPT ![r] = [req[r] EXCEPT !.at = "resume", !.since = now,
                                                 !.found = ActiveAt(req[r].key, s)]]
  BY <1>0 DEF Select, Step
<1>2. PICK f : f = ActiveAt(q.key, s) OBVIOUS
<1>3. PICK u : u = [q EXCEPT !.at = "resume", !.since = now, !.found = f] OBVIOUS
<1>4. /\ q.at = "select" /\ IsReq(q) /\ SelectOK(q) /\ req' = [req EXCEPT ![r] = u]
      /\ UNCHANGED <<now, misled, issued, revoked, row, origin, cache>>
  BY <1>0, <1>1, <1>2, <1>3 DEF Select, IInv, ReqOK, keyRows
<1>5. u = [at |-> "resume", key |-> q.key, op |-> q.op, target |-> q.target,
           since |-> now, found |-> f, route |-> q.route]
  BY <1>3, <1>4 DEF IsReq
<1>6. /\ u.at = "resume" /\ u.key = q.key /\ u.op = q.op /\ u.target = q.target
      /\ u.since = now /\ u.found = f /\ u.route = q.route
  BY <1>5, ReqFields
<1>7. /\ q.key \in Keys /\ q.target \in Keys /\ issued[q.key] <= now /\ q.since \in Nat
      /\ now \in Nat /\ revoked[q.key] \in Nat /\ issued[q.key] \in Nat
  BY <1>4 DEF IsReq, IInv, TypeOK
<1>8. f \in BOOLEAN BY <1>2 DEF ActiveAt
<1>9. IsReq(u) BY <1>5, <1>6, <1>7, <1>8 DEF IsReq
<1>10. /\ s \in Nat /\ s <= now
       /\ q.route = "primary" => s = now
       /\ q.route = "replica" => now <= s + Lag + Delay
       /\ q.route = "blank" => now <= Shown(q.key) + Delay
  <2>1. /\ s \in Nat /\ s <= now
        /\ q.route = "primary" => s = now
        /\ q.route = "replica" => q.since <= s + Lag
    BY DEF ReadableAt, Time
  <2> QED BY <1>4, <1>7, <2>1, Bounds, TimesAssumption DEF SelectOK
<1>a. ActiveAt(q.key, s) => now <= Shown(q.key) + Lag + Delay
  BY <1>4, <1>7, <1>10, Bounds, TimesAssumption DEF ActiveAt, SelectOK
<1>b. ~ActiveAt(q.key, s) => \/ revoked[q.key] <= now
                             \/ q.route = "replica" /\ now < issued[q.key] + Lag + Delay
                             \/ q.route = "blank"
  BY <1>4, <1>7, <1>10, TimesAssumption DEF ActiveAt, SelectOK
<1>11. f => now <= Shown(q.key) + Lag + Delay BY <1>2, <1>a, Zenon
<1>12. ~f => \/ revoked[q.key] <= now
             \/ q.route = "replica" /\ now < issued[q.key] + Lag + Delay
             \/ q.route = "blank"
  BY <1>2, <1>b, Zenon
<1>13. ResumeOK(u) BY <1>6, <1>7, <1>11, <1>12, TimesAssumption DEF ResumeOK
<1>14. ReqOK(u) BY <1>6, <1>9, <1>13 DEF ReqOK
<1> QED BY <1>4, <1>14, CacheKept, ReqMoves

(* authenticate goes on: an active key that has not expired is accepted    *)
(* and cached, any other refused.                                          *)
LEMMA AuthenticateIInv ==
  ASSUME IInv, NEW r \in Requests, Authenticate(r)
  PROVE  IInv'
<1>0. PICK q : q = req[r] OBVIOUS
<1>1. q.at = "resume" /\ IsReq(q) /\ ResumeOK(q) BY <1>0 DEF Authenticate, IInv, ReqOK
<1>2. /\ q.key \in Keys /\ q.target \in Keys /\ issued[q.key] <= now
      /\ now \in Nat /\ revoked[q.key] \in Nat /\ issued[q.key] \in Nat
      /\ row[q.key].expires \in Nat /\ ProcOf[r] \in Procs /\ q.since \in Nat /\ q.since <= now
  BY <1>1, KeysAssumption DEF IsReq, IInv, TypeOK
<1>3. UNCHANGED <<now, misled, issued, revoked, row, origin>> BY DEF Authenticate, keyRows
<1>4. CASE q.found /\ now < row[q.key].expires
  <2>0. PICK u, n : u = Accepted(q) /\ n = CachedUntil(cache[ProcOf[r]][q.key]) OBVIOUS
  <2>1. req' = [req EXCEPT ![r] = u] /\ cache' = [cache EXCEPT ![ProcOf[r]][q.key] = n]
    BY <1>0, <1>4, <2>0 DEF Authenticate, Step
  <2>2. now <= Shown(q.key) + Lag + 2 * Delay
    BY <1>1, <1>2, <1>4, Bounds, TimesAssumption DEF ResumeOK
  <2>3. ReqOK(u) BY <1>1, <1>2, <2>0, <2>2, Bounds, AcceptedOK, TimesAssumption
  <2>4. n \in Nat /\ n <= now + TTL /\ n <= HiddenUntil(q.key)
    <3>1. CASE TTL > 0 BY <1>2, <2>0, <2>2, <3>1, Bounds, TimesAssumption DEF CachedUntil
    <3>2. CASE ~(TTL > 0) BY <1>2, <2>0, <3>2 DEF CachedUntil, IInv, TypeOK, CacheOK
    <3> QED BY <3>1, <3>2
  <2>5. cache' \in [Procs -> [Keys -> Nat]] /\ CacheOK' BY <1>2, <1>3, <2>1, <2>4, CacheSet
  <2> QED BY <1>3, <2>1, <2>3, <2>5, ReqMoves
<1>5. CASE ~(q.found /\ now < row[q.key].expires)
  <2>0. PICK u : u = [q EXCEPT !.at = "refused"] OBVIOUS
  <2>1. req' = [req EXCEPT ![r] = u] BY <1>0, <1>5, <2>0 DEF Authenticate, Step
  <2>2. cache' = cache
    <3>1. cache' = [cache EXCEPT ![ProcOf[r]][q.key] = cache[ProcOf[r]][q.key]]
      BY <1>0, <1>5 DEF Authenticate
    <3> QED BY <1>2, <3>1 DEF IInv, TypeOK
  <2>3. u = [at |-> "refused", key |-> q.key, op |-> q.op, target |-> q.target,
             since |-> q.since, found |-> q.found, route |-> q.route]
    BY <1>1, <2>0 DEF IsReq
  <2>4. /\ u.at = "refused" /\ u.key = q.key /\ u.op = q.op /\ u.target = q.target
        /\ u.since = q.since /\ u.found = q.found /\ u.route = q.route
    BY <2>3, ReqFields
  <2>5. IsReq(u) BY <1>1, <1>2, <2>3, <2>4 DEF IsReq
  <2>6. RefusedOK(u) BY <1>1, <1>2, <1>5, <2>4 DEF RefusedOK, ResumeOK, IsReq
  <2>7. ReqOK(u) BY <2>4, <2>5, <2>6 DEF ReqOK
  <2> QED BY <1>3, <2>1, <2>2, <2>7, CacheKept, ReqMoves
<1> QED BY <1>4, <1>5

-----------------------------------------------------------------------------
(* The rate limit and the handlers.                                        *)

(* A request that moves on with its key, its operation and its target. *)
LEMMA ReqGoesOn ==
  ASSUME IInv, NEW r \in Requests, req[r].at # "idle", NEW x \in {"handle", "flush", "commit"},
         NEW n \in Nat, n <= now,
         x \in {"flush", "commit"} /\ req[r].op = "rotate" =>
           issued[req[r].target] <= now /\ n <= revoked[req[r].target]
  PROVE  ReqOK([req[r] EXCEPT !.at = x, !.since = n])
<1>0. PICK q : q = req[r] OBVIOUS
<1>a. PICK u : u = [req[r] EXCEPT !.at = x, !.since = n] OBVIOUS
<1>1. IsReq(q) BY <1>0 DEF IInv, ReqOK
<1>2. u = [at |-> x, key |-> q.key, op |-> q.op, target |-> q.target,
           since |-> n, found |-> q.found, route |-> q.route]
  BY <1>0, <1>a, <1>1 DEF IsReq
<1>3. /\ u.at = x /\ u.key = q.key /\ u.op = q.op /\ u.target = q.target
      /\ u.since = n /\ u.found = q.found /\ u.route = q.route
  BY <1>2, ReqFields
<1>4. IsReq(u) BY <1>0, <1>1, <1>2, <1>3 DEF IsReq
<1>5. ReqOK(u) BY <1>0, <1>3, <1>4 DEF ReqOK, RotateOK
<1> QED BY <1>a, <1>5

(* The limit lets the request through, answers it with 429, or Redis       *)
(* fails.                                                                  *)
LEMMA LimitIInv ==
  ASSUME IInv, NEW r \in Requests, CheckRateLimit(r) \/ RedisError(r)
  PROVE  IInv'
<1>1. UNCHANGED <<now, misled, issued, revoked, row, origin, cache>> /\ req[r].at = "limit"
  <2>1. CASE CheckRateLimit(r)
    <3>1. UNCHANGED <<now, misled, keyRows, cache, todo>> /\ req[r].at = "limit"
      BY <2>1 DEF CheckRateLimit
    <3> QED BY <3>1 DEF keyRows
  <2>2. CASE RedisError(r)
    <3>1. UNCHANGED <<now, misled, keyRows, cache, admitted, todo>> /\ req[r].at = "limit"
      BY <2>2 DEF RedisError
    <3> QED BY <3>1 DEF keyRows
  <2> QED BY <2>1, <2>2
<1>2. CASE End(r) BY <1>1, <1>2, ReqEnds
<1>3. CASE Step(r, [req[r] EXCEPT !.at = "handle", !.since = 0])
  <2>0. PICK u : u = [req[r] EXCEPT !.at = "handle", !.since = 0] OBVIOUS
  <2>1. req' = [req EXCEPT ![r] = u] BY <1>3, <2>0 DEF Step
  <2>2. 0 \in Nat /\ 0 <= now BY DEF IInv, TypeOK
  <2>3. ReqOK(u) BY <1>1, <2>0, <2>2, ReqGoesOn
  <2> QED BY <1>1, <2>1, <2>3, CacheKept, ReqMoves
<1> QED BY <1>2, <1>3 DEF CheckRateLimit, RedisError

(* The key to change is loaded: a rotation goes on only with a key that is *)
(* not revoked.                                                            *)
LEMMA LoadKeyIInv ==
  ASSUME IInv, NEW r \in Requests, LoadKey(r)
  PROVE  IInv'
<1>1. UNCHANGED <<now, misled, issued, revoked, row, origin, cache>> /\ req[r].at = "handle"
  BY DEF LoadKey, keyRows
<1>2. CASE End(r) BY <1>1, <1>2, ReqEnds
<1>3. CASE ~End(r)
  <2>0. PICK n, u : /\ n = IF req[r].op = "rotate" THEN now ELSE 0
                    /\ u = [req[r] EXCEPT !.at = "flush", !.since = n]
    OBVIOUS
  <2>1. TargetActive(req[r]) /\ req' = [req EXCEPT ![r] = u]
    BY <1>3, <2>0 DEF LoadKey, Step
  <2>2. n \in Nat /\ n <= now BY <2>0 DEF IInv, TypeOK
  <2>3. req[r].target \in Keys BY <1>1 DEF IInv, ReqOK, IsReq
  <2>4. issued[req[r].target] <= now /\ (req[r].op = "rotate" => n <= revoked[req[r].target])
    BY <2>0, <2>1, <2>3 DEF TargetActive, ActiveAt, IInv, TypeOK
  <2>5. ReqOK(u) BY <1>1, <2>0, <2>2, <2>4, ReqGoesOn
  <2> QED BY <1>1, <2>1, <2>5, CacheKept, ReqMoves
<1> QED BY <1>2, <1>3

(* The change is flushed and the key dropped from this process's cache. *)
LEMMA FlushIInv ==
  ASSUME IInv, NEW r \in Requests, FlushRevoke(r) \/ FlushRotate(r)
  PROVE  IInv'
<1>0. PICK q, u : q = req[r] /\ u = [req[r] EXCEPT !.at = "commit"] OBVIOUS
<1>1. /\ UNCHANGED <<now, misled, issued, revoked, row, origin>>
      /\ q.at = "flush" /\ ReqOK(q) /\ req' = [req EXCEPT ![r] = u]
      /\ cache' = [cache EXCEPT ![ProcOf[r]][q.target] = 0]
  BY <1>0 DEF FlushRevoke, FlushRotate, keyRows, Step, Invalidated, IInv
<1>2. q.target \in Keys /\ ProcOf[r] \in Procs BY <1>1, KeysAssumption DEF ReqOK, IsReq
<1>3. u = [at |-> "commit", key |-> q.key, op |-> q.op, target |-> q.target,
           since |-> q.since, found |-> q.found, route |-> q.route]
  BY <1>0, <1>1 DEF ReqOK, IsReq
<1>4. /\ u.at = "commit" /\ u.key = q.key /\ u.op = q.op /\ u.target = q.target
      /\ u.since = q.since /\ u.found = q.found /\ u.route = q.route
  BY <1>3, ReqFields
<1>5. IsReq(u) BY <1>1, <1>3, <1>4 DEF ReqOK, IsReq
<1>6. ReqOK(u) BY <1>1, <1>4, <1>5 DEF ReqOK, RotateOK
<1> QED BY <1>1, <1>2, <1>6, CacheDrop, ReqMoves

(* The answers that change nothing here. *)
LEMMA AnswersIInv ==
  ASSUME IInv, NEW r \in Requests, Refuse(r) \/ HandleCall(r) \/ Rollback(r)
  PROVE  IInv'
BY ReqEnds DEF Refuse, HandleCall, Rollback, keyRows

(* A row is inserted.  Its id was never issued, so no request carries it   *)
(* and no other key replaces it.                                           *)
LEMMA IssueIInv ==
  ASSUME IInv, NEW r \in Requests, End(r), NEW k \in Keys, NEW org, NEW role, NEW from,
         Issue(k, NewKey(org, role), from),
         from.parent # None =>
           /\ from.parent \in Keys /\ issued[from.parent] <= now
           /\ from.read \in Nat /\ from.read <= now /\ from.read <= revoked[from.parent]
           /\ org = row[from.parent].org /\ role = row[from.parent].role,
         UNCHANGED <<now, misled, revoked, cache>>
  PROVE  IInv'
<1>0. PICK new : new = NewKey(org, role) OBVIOUS
<1>1. new.org = org /\ new.role = role /\ new.expires \in Nat BY <1>0, NeverLate DEF NewKey
<1>2. /\ issued[k] = Never /\ now \in Nat /\ now < Never
      /\ issued \in [Keys -> Nat] /\ revoked \in [Keys -> Nat]
  BY NeverLate, TimesAssumption DEF Issue, IInv, TypeOK
<1>3. /\ issued' \in [Keys -> Nat] /\ row' = [l \in Keys |-> row'[l]]
      /\ origin' = [l \in Keys |-> origin'[l]]
      /\ \A l \in Keys : /\ issued'[l] = IF l = k THEN now ELSE issued[l]
                         /\ row'[l] = IF l = k THEN new ELSE row[l]
                         /\ origin'[l] = IF l = k THEN from ELSE origin[l]
  BY <1>0, <1>2 DEF Issue, IInv, TypeOK
<1>4. \A l \in Keys : issued[l] <= now => l # k BY <1>2
<1>5. PICK i : i = Idle OBVIOUS
<1>6. /\ req' = [s \in Requests |-> req'[s]]
      /\ \A s \in Requests : req'[s] = IF s = r THEN i ELSE req[s]
      /\ ReqOK(i) /\ i.at = "idle"
  BY <1>5, IdleOK DEF End, Step, IInv, TypeOK
<1>7. TypeOK' BY <1>1, <1>3, <1>6 DEF IInv, TypeOK
<1>8. CacheOK' BY CacheKept
<1>9. ASSUME NEW s \in Requests PROVE ReqOK(req[s])'
  <2>1. ReqOK(req'[s]) BY <1>6 DEF IInv
  <2>2. req'[s].at # "idle" =>
          /\ issued'[req'[s].key] = issued[req'[s].key] /\ row'[req'[s].key] = row[req'[s].key]
          /\ req'[s].key \in Keys
    BY <1>3, <1>4, <2>1 DEF ReqOK, IsReq
  <2>3. req'[s].at \in {"flush", "commit"} /\ req'[s].op = "rotate" =>
          issued'[req'[s].target] = issued[req'[s].target]
    BY <1>3, <1>4, <2>1 DEF ReqOK, IsReq, RotateOK
  <2> QED BY <2>1, <2>2, <2>3
     DEF ReqOK, IsReq, SelectOK, ResumeOK, LimitOK, RefusedOK, RotateOK, Shown, HiddenUntil
<1>10. ASSUME NEW l \in Keys PROVE OriginOK(l)'
  <2>1. CASE l = k BY <1>1, <1>2, <1>3, <1>4, <2>1 DEF OriginOK
  <2>2. CASE l # k BY <1>2, <1>3, <1>4, <2>2 DEF IInv, OriginOK
  <2> QED BY <2>1, <2>2
<1> QED BY <1>7, <1>8, <1>9, <1>10 DEF IInv

(* post_api_key. *)
LEMMA IssueKeyIInv ==
  ASSUME IInv, NEW r \in Requests, IssueKey(r)
  PROVE  IInv'
<1>1. End(r) /\ UNCHANGED <<now, misled, revoked, cache>> BY DEF IssueKey
<1>2. CASE UNCHANGED <<issued, row, origin>> BY <1>1, <1>2, ReqEnds
<1>3. CASE \E k \in Keys, w \in Wanted :
             Issue(k, NewKey(IF w.role = Admin THEN None ELSE w.org, w.role), NoOrigin)
  <2>1. PICK k \in Keys, w \in Wanted :
             Issue(k, NewKey(IF w.role = Admin THEN None ELSE w.org, w.role), NoOrigin)
    BY <1>3
  <2>2. NoOrigin.parent = None BY DEF NoOrigin
  <2> QED BY <1>1, <2>1, <2>2, IssueIInv
<1> QED BY <1>2, <1>3 DEF IssueKey

(* rotate_api_key: the replacement takes organization and role over. *)
LEMMA CommitRotateIInv ==
  ASSUME IInv, NEW r \in Requests, CommitRotate(r)
  PROVE  IInv'
<1>0. PICK t, from : t = req[r].target /\ from = [parent |-> t, read |-> req[r].since] OBVIOUS
<1>1. PICK k \in Keys : Issue(k, NewKey(row[t].org, row[t].role), from)
  BY <1>0 DEF CommitRotate
<1>2. /\ End(r) /\ UNCHANGED <<now, misled, revoked, cache>>
      /\ req[r].at = "commit" /\ req[r].op = "rotate" /\ ReqOK(req[r])
  BY DEF CommitRotate, IInv
<1>3. from.parent = t /\ from.read = req[r].since BY <1>0
<1>4. /\ t \in Keys /\ issued[t] <= now /\ req[r].since \in Nat /\ req[r].since <= now
      /\ req[r].since <= revoked[t]
  BY <1>0, <1>2 DEF ReqOK, IsReq, RotateOK
<1> QED BY <1>1, <1>2, <1>3, <1>4, IssueIInv

(* A revocation is committed.  Whatever was read or cached until now is    *)
(* not later than it.                                                      *)
LEMMA CommitRevokeIInv ==
  ASSUME IInv, NEW r \in Requests, CommitRevoke(r)
  PROVE  IInv'
<1>0. PICK t, n, i : /\ t = req[r].target /\ i = Idle
                     /\ n = IF revoked[t] < now THEN revoked[t] ELSE now
  OBVIOUS
<1>1. /\ revoked' = [revoked EXCEPT ![t] = n] /\ End(r)
      /\ UNCHANGED <<now, misled, issued, row, origin, cache>>
      /\ req[r].at = "commit" /\ ReqOK(req[r])
  BY <1>0 DEF CommitRevoke, IInv
<1>2. /\ t \in Keys /\ now \in Nat /\ issued \in [Keys -> Nat] /\ revoked \in [Keys -> Nat]
      /\ cache \in [Procs -> [Keys -> Nat]]
  BY <1>0, <1>1 DEF ReqOK, IsReq, IInv, TypeOK
<1>3. n \in Nat /\ n <= now /\ n <= revoked[t] /\ (n = now \/ n = revoked[t]) BY <1>0, <1>2
<1>4. /\ revoked' \in [Keys -> Nat]
      /\ \A k \in Keys : revoked'[k] = IF k = t THEN n ELSE revoked[k]
  BY <1>1, <1>2, <1>3
<1>5. \A k \in Keys : revoked'[k] <= revoked[k] /\ (revoked'[k] = now \/ revoked'[k] = revoked[k])
  BY <1>2, <1>3, <1>4
<1>6. /\ req' = [s \in Requests |-> req'[s]]
      /\ \A s \in Requests : req'[s] = IF s = r THEN i ELSE req[s]
      /\ ReqOK(i)
  BY <1>0, <1>1, IdleOK DEF End, Step, IInv, TypeOK
<1>7. TypeOK' BY <1>1, <1>4, <1>6 DEF IInv, TypeOK
<1>a. ASSUME NEW k \in Keys
      PROVE  /\ Shown(k)' \in Nat
             /\ Shown(k)' = Shown(k) \/ now <= Shown(k)'
             /\ HiddenUntil(k)' \in Nat
             /\ HiddenUntil(k)' = HiddenUntil(k) \/ now + Lag + 2 * Delay + TTL <= HiddenUntil(k)'
  <2>1. /\ revoked'[k] \in Nat
        /\ revoked'[k] = now \/ revoked'[k] = revoked[k]
        /\ misled'[k] = misled[k] /\ misled[k] \in Nat
    BY <1>1, <1>4, <1>5, Bounds
  <2>2. Shown(k)' \in Nat /\ (Shown(k)' = Shown(k) \/ now <= Shown(k)')
    BY <2>1, Bounds DEF Shown, Later
  <2>3. HiddenUntil(k)' = Shown(k)' + Lag + 2 * Delay + TTL BY DEF HiddenUntil, Shown
  <2> QED BY <1>2, <2>2, <2>3, Bounds, TimesAssumption
<1>8. CacheOK'
  <2>1. ASSUME NEW p \in Procs, NEW k \in Keys
        PROVE  cache'[p][k] <= now' + TTL /\ cache'[p][k] <= HiddenUntil(k)'
    <3>1. /\ cache'[p][k] = cache[p][k] /\ cache[p][k] \in Nat /\ now' = now
          /\ cache[p][k] <= now + TTL /\ cache[p][k] <= HiddenUntil(k)
      BY <1>1, <1>2 DEF IInv, CacheOK
    <3> QED BY <1>2, <1>a, <3>1, TimesAssumption
  <2> QED BY <2>1 DEF CacheOK, HiddenUntil
<1>9. ASSUME NEW s \in Requests PROVE ReqOK(req[s])'
  <2>1. ReqOK(req'[s]) BY <1>6 DEF IInv
  <2>2. IsReq(req[s])' BY <1>1, <2>1 DEF ReqOK, IsReq
  <2>3. CASE req'[s].at = "idle" BY <2>2, <2>3 DEF ReqOK
  <2>4. CASE req'[s].at # "idle"
    <3>0. PICK q : q = req'[s] OBVIOUS
    <3>1. /\ q.key \in Keys /\ q.target \in Keys /\ q.since \in Nat /\ q.since <= now
          /\ q.found \in BOOLEAN
      BY <2>1, <2>4, <3>0 DEF ReqOK, IsReq
    <3>a. q.at = "select" => SelectOK(q)'
      BY <1>1, <1>2, <1>a, <2>1, <3>0, <3>1 DEF ReqOK, SelectOK
    <3>2. q.at = "resume" => ResumeOK(q)'
      <4>1. q.at = "resume" /\ q.found => q.since <= Shown(q.key)' + Lag + Delay
        BY <1>2, <1>a, <2>1, <3>0, <3>1, TimesAssumption DEF ReqOK, ResumeOK
      <4>2. q.at = "resume" => ResumeOK(q) BY <2>1, <3>0 DEF ReqOK
      <4>3. revoked'[q.key] <= revoked[q.key] /\ revoked'[q.key] \in Nat /\ revoked[q.key] \in Nat
        BY <1>2, <1>4, <1>5, <3>1
      <4> QED BY <1>1, <3>1, <4>1, <4>2, <4>3 DEF ResumeOK
    <3>3. q.at = "limit" => LimitOK(q)'
      BY <1>2, <1>a, <2>1, <3>0, <3>1, TimesAssumption DEF ReqOK, LimitOK
    <3>4. q.at = "refused" => RefusedOK(q)'
      BY <1>1, <1>2, <1>4, <1>5, <2>1, <3>0, <3>1 DEF ReqOK, RefusedOK
    <3>5. q.at \in {"flush", "commit"} /\ q.op = "rotate" => RotateOK(q)'
      BY <1>1, <1>2, <1>4, <1>5, <2>1, <3>0, <3>1 DEF ReqOK, RotateOK
    <3> QED BY <2>2, <3>0, <3>a, <3>2, <3>3, <3>4, <3>5
             DEF ReqOK, ResumeOK, LimitOK, RefusedOK, RotateOK
  <2> QED BY <2>3, <2>4
<1>10. ASSUME NEW k \in Keys PROVE OriginOK(k)'
  <2>1. OriginOK(k) BY DEF IInv
  <2> QED BY <1>1, <1>2, <1>4, <1>5, <2>1 DEF OriginOK
<1> QED BY <1>7, <1>8, <1>9, <1>10 DEF IInv

-----------------------------------------------------------------------------
(* The process and the clock.                                              *)

(* A worker is replaced: its requests and its cache are gone. *)
LEMMA RestartIInv ==
  ASSUME IInv, NEW p \in Procs, Restart(p)
  PROVE  IInv'
<1>0. PICK i : i = Idle OBVIOUS
<1>1. UNCHANGED <<now, misled, issued, revoked, row, origin>> BY DEF Restart, keyRows
<1>2. /\ req' = [r \in Requests |-> req'[r]]
      /\ \A r \in Requests : req'[r] = i \/ req'[r] = req[r]
      /\ ReqOK(i)
  BY <1>0, IdleOK DEF Restart
<1>3. /\ cache' \in [Procs -> [Keys -> Nat]]
      /\ \A o \in Procs, k \in Keys : cache'[o][k] = IF o = p THEN 0 ELSE cache[o][k]
  BY DEF Restart, IInv, TypeOK
<1>4. TypeOK' BY <1>1, <1>2, <1>3 DEF IInv, TypeOK
<1>5. \A k \in Keys : HiddenUntil(k)' = HiddenUntil(k) BY <1>1 DEF HiddenUntil
<1>6. CacheOK'
  <2>1. \A o \in Procs, k \in Keys :
          0 <= now + TTL /\ 0 <= HiddenUntil(k)
    BY Bounds, TimesAssumption
  <2> QED BY <1>1, <1>3, <1>5, <2>1 DEF IInv, CacheOK
<1>7. ASSUME NEW s \in Requests PROVE ReqOK(req[s])'
  <2>1. ReqOK(req'[s]) BY <1>2 DEF IInv
  <2> QED BY <1>1, <2>1
     DEF ReqOK, IsReq, SelectOK, ResumeOK, LimitOK, RefusedOK, RotateOK, Shown, HiddenUntil
<1>8. \A k \in Keys : OriginOK(k)' BY <1>1 DEF IInv, OriginOK
<1> QED BY <1>4, <1>6, <1>7, <1>8 DEF IInv

(* The clock: no answer of a store outlasts the delay. *)
LEMMA TickIInv ==
  ASSUME IInv, Tick
  PROVE  IInv'
<1>1. /\ now' = now + 1 /\ now < MaxNow /\ now \in Nat
      /\ UNCHANGED <<misled, issued, revoked, row, origin, req>>
  BY DEF Tick, keyRows, IInv, TypeOK
<1>2. /\ cache' \in [Procs -> [Keys -> Nat]]
      /\ \A p \in Procs, k \in Keys : cache'[p][k] = 0 \/ cache'[p][k] = cache[p][k]
  BY <1>1 DEF Tick, IInv, TypeOK
<1>a. \A k \in Keys : /\ Shown(k)' = Shown(k) /\ HiddenUntil(k)' = HiddenUntil(k)
                      /\ HiddenUntil(k) \in Nat /\ misled[k] \in Nat /\ misled[k] <= now
  BY <1>1, Bounds DEF Shown, HiddenUntil
<1>3. issued \in [Keys -> Nat] /\ revoked \in [Keys -> Nat] /\ cache \in [Procs -> [Keys -> Nat]]
  BY DEF IInv, TypeOK
<1>4. TypeOK'
  <2>1. now' \in 0..MaxNow BY <1>1, TimesAssumption
  <2>2. \A k \in Keys : misled'[k] <= now' BY <1>1, <1>a
  <2> QED BY <1>1, <1>2, <2>1, <2>2 DEF IInv, TypeOK
<1>5. ASSUME NEW p \in Procs, NEW k \in Keys
      PROVE  cache'[p][k] <= now' + TTL /\ cache'[p][k] <= HiddenUntil(k)
  <2>1. /\ cache[p][k] \in Nat /\ revoked[k] \in Nat
        /\ cache[p][k] <= now + TTL /\ cache[p][k] <= HiddenUntil(k)
    BY <1>3 DEF IInv, CacheOK
  <2> QED BY <1>1, <1>2, <1>a, <2>1, TimesAssumption
<1>6. CacheOK' BY <1>1, <1>5, <1>a DEF CacheOK
<1>7. ASSUME NEW s \in Requests PROVE ReqOK(req[s])'
  <2>0. PICK q : q = req[s] OBVIOUS
  <2>1. ReqOK(q) /\ q.since \in Nat BY <2>0 DEF IInv, ReqOK, IsReq
  <2>2. IsReq(q)' BY <1>1, <1>3, <2>1 DEF ReqOK, IsReq
  <2>3. q.at # "idle" => q.key \in Keys /\ q.target \in Keys BY <2>1 DEF ReqOK, IsReq
  <2>4. /\ q.at = "resume" => now < q.since + Delay
        /\ q.at = "select" /\ q.route # "primary" => now < q.since + Delay
    BY <2>0 DEF Tick
  <2>a. q.at = "select" => SelectOK(q)'
    <3>1. q.at = "select" => SelectOK(q) /\ (q.route # "primary" => now' <= q.since + Delay)
      BY <1>1, <2>1, <2>4, TimesAssumption DEF ReqOK
    <3> QED BY <1>a, <2>3, <3>1 DEF SelectOK
  <2>5. q.at = "resume" => ResumeOK(q)'
    <3>1. q.at = "resume" => ResumeOK(q) /\ now' <= q.since + Delay
      BY <1>1, <2>1, <2>4, TimesAssumption DEF ReqOK
    <3> QED BY <1>1, <1>a, <2>3, <3>1 DEF ResumeOK
  <2>6. q.at = "limit" => LimitOK(q)' BY <1>1, <1>a, <2>1, <2>3 DEF ReqOK, LimitOK
  <2>7. q.at = "refused" => RefusedOK(q)'
    <3>1. q.at = "refused" => RefusedOK(q) /\ row[q.key].expires \in Nat
      BY <2>1, <2>3 DEF ReqOK, IInv, TypeOK
    <3> QED BY <1>1, <3>1 DEF RefusedOK
  <2>8. q.at \in {"flush", "commit"} /\ q.op = "rotate" => RotateOK(q)'
    BY <1>1, <1>3, <2>1, <2>3 DEF ReqOK, RotateOK
  <2> QED BY <1>1, <2>0, <2>2, <2>a, <2>5, <2>6, <2>7, <2>8
           DEF ReqOK, IsReq, SelectOK, ResumeOK, LimitOK, RefusedOK, RotateOK, Shown, HiddenUntil
<1>8. ASSUME NEW k \in Keys PROVE OriginOK(k)'
  <2>1. OriginOK(k) BY DEF IInv
  <2> QED BY <1>1, <1>3, <2>1 DEF OriginOK
<1> QED BY <1>4, <1>6, <1>7, <1>8 DEF IInv

-----------------------------------------------------------------------------
(* The theorems.                                                           *)

(* No step of the API, of its stores or of the clock breaks the invariant. *)
LEMMA NextIInv == IInv /\ [Next]_vars => IInv'
<1> SUFFICES ASSUME IInv, [Next]_vars PROVE IInv' OBVIOUS
<1>1. CASE Tick BY <1>1, TickIInv
<1>2. CASE \E p \in Procs : Restart(p) BY <1>2, RestartIInv
<1>3. ASSUME NEW r \in Requests, NEW ask \in Asks, GetAuthContext(r, ask[1], ask[2], ask[3])
      PROVE  IInv'
  <2>1. ask[1] \in Keys /\ ask[3] \in Keys BY AsksAssumption
  <2> QED BY <1>3, <2>1, GetAuthContextIInv
<1>4. ASSUME NEW r \in Requests,
             \/ Route(r) \/ Select(r) \/ Authenticate(r) \/ Refuse(r)
             \/ CheckRateLimit(r) \/ RedisError(r)
             \/ HandleCall(r) \/ IssueKey(r) \/ LoadKey(r)
             \/ FlushRevoke(r) \/ CommitRevoke(r)
             \/ FlushRotate(r) \/ CommitRotate(r)
             \/ Rollback(r)
      PROVE  IInv'
  BY <1>4, RouteIInv, SelectIInv, AuthenticateIInv, AnswersIInv, LimitIInv,
     IssueKeyIInv, LoadKeyIInv,
     FlushIInv, CommitRevokeIInv, CommitRotateIInv
<1>5. CASE UNCHANGED vars
  <2>1. UNCHANGED <<now, misled, issued, revoked, row, origin, cache, req>> BY <1>5 DEF vars
  <2>2. TypeOK' /\ CacheOK' BY <2>1 DEF IInv, TypeOK, CacheOK, HiddenUntil
  <2>3. \A r \in Requests : ReqOK(req[r])'
    BY <2>1
       DEF IInv, ReqOK, IsReq, SelectOK, ResumeOK, LimitOK, RefusedOK, RotateOK, Shown, HiddenUntil
  <2>4. \A k \in Keys : OriginOK(k)' BY <2>1 DEF IInv, OriginOK
  <2> QED BY <2>2, <2>3, <2>4 DEF IInv
<1> QED BY <1>1, <1>2, <1>3, <1>4, <1>5 DEF Next

(* At first only the keys of the bootstrap exist and nobody has asked. *)
LEMMA InitIInv == Init => IInv
<1> SUFFICES ASSUME Init PROVE IInv OBVIOUS
<1>1. now = 0 /\ now \in 0..MaxNow BY TimesAssumption DEF Init
<1>2. issued \in [Keys -> Nat] /\ revoked \in [Keys -> Nat] BY NeverLate DEF Init
<1>3. row = [k \in Keys |-> row[k]] /\ \A k \in Keys : row[k].expires \in Nat
  <2>1. row = [k \in Keys |-> row[k]] BY DEF Init
  <2>2. ASSUME NEW k \in Keys PROVE row[k].expires \in Nat
    <3>1. CASE k \in Root
      <4>1. row[k] = RootRow[k] BY <3>1 DEF Init
      <4> QED BY <3>1, <4>1, RootAssumption
    <3>2. CASE k \notin Root
      <4>1. row[k] = [org |-> None, role |-> Admin, expires |-> Never] BY <3>2 DEF Init
      <4> QED BY <4>1, NeverLate
    <3> QED BY <3>1, <3>2
  <2> QED BY <2>1, <2>2
<1>4. cache \in [Procs -> [Keys -> Nat]] /\ \A p \in Procs, k \in Keys : cache[p][k] = 0
  BY DEF Init
<1>5. req = [r \in Requests |-> req[r]] /\ \A r \in Requests : req[r] = Idle BY DEF Init
<1>a. misled \in [Keys -> Nat] /\ \A k \in Keys : misled[k] = 0 BY DEF Init
<1>6. TypeOK
  <2>1. origin = [k \in Keys |-> origin[k]] BY DEF Init
  <2> QED BY <1>1, <1>2, <1>3, <1>4, <1>5, <1>a, <2>1 DEF TypeOK
<1>7. CacheOK BY <1>1, <1>2, <1>4, <1>a, TimesAssumption DEF CacheOK, HiddenUntil, Later
<1>8. ReqOK(Idle)
  <2>1. IsReq(Idle) BY <1>1 DEF Idle, IsReq
  <2> QED BY <2>1 DEF Idle, ReqOK
<1>9. \A k \in Keys : origin[k].parent = None BY DEF Init, NoOrigin
<1>10. \A k \in Keys : OriginOK(k) BY <1>9 DEF OriginOK
<1> QED BY <1>5, <1>6, <1>7, <1>8, <1>10 DEF IInv

(* The inductive invariant holds in every reachable state. *)
THEOREM Invariance == Spec => []IInv
BY InitIInv, NextIInv, PTL DEF Spec

(* However the processes interleave, a revoked key is let in only for as   *)
(* long as the replica's lag when it was measured, the session opened      *)
(* after that, the outstanding answer and the cache TTL can hide the       *)
(* revocation, and as long as a standby passes for current that is not,    *)
(* although invalidate_auth_context reaches one process only and comes     *)
(* before the commit.                                                      *)
THEOREM RevocationHolds == Spec => []RevocationBites
<1>1. IInv => RevocationBites BY DEF IInv, ReqOK, LimitOK, RevocationBites
<1> QED BY <1>1, Invariance, PTL

(* authenticate refuses a request only because its key is revoked or       *)
(* expired, newer than what the replica, whose lag was measured before the *)
(* session was opened, has to show, or looked up on a standby that has     *)
(* replayed nothing.                                                       *)
THEOREM RefusalsJustified == Spec => []RefusalIsJustified
<1>1. IInv => RefusalIsJustified BY DEF IInv, ReqOK, RefusedOK, RefusalIsJustified
<1> QED BY <1>1, Invariance, PTL

(* rotate_api_key never replaces a key that was revoked before it was read, *)
(* and the replacement has the organization and the role of the old key.   *)
THEOREM ReplacementsLive == Spec => []ReplacementOfLiveKey
<1>1. IInv => ReplacementOfLiveKey BY DEF IInv, OriginOK, ReplacementOfLiveKey
<1> QED BY <1>1, Invariance, PTL

-----------------------------------------------------------------------------
(* The rate limit.                                                         *)

Limit(k) == LimitOf[row[k].role]

(* The counter of a window while it exists, and what it has let through:   *)
(* what was counted before it was started again expired by then.           *)
CounterOK(k, w) ==
  LET c == counter[k][w]
  IN /\ c.count \in Nat /\ c.until \in Nat
     /\ c.count > 0 =>
             /\ now < c.until /\ c.until <= now + Window
             /\ (w + 1) * Window <= c.until + Phase
     /\ \A m \in admitted : m.key = k /\ m.window = w =>
          IF c.count = 0 THEN m.until <= now
          ELSE (m.until = c.until /\ m.count <= c.count) \/ m.until + Window <= c.until

(* A request that was let through: it ran within the delay of its window,  *)
(* and while the counter that it incremented lived.                        *)
AdmissionOK(m) ==
  /\ m.key \in Keys /\ issued[m.key] <= now
  /\ m.at \in Nat /\ m.window \in Nat /\ m.count \in Nat /\ m.until \in Nat
  /\ m.at <= now /\ now < m.at + Window
  /\ m.window * Window <= m.at + Phase
  /\ m.at + Phase < (m.window + 1) * Window + RedisDelay
  /\ (m.window + 1) * Window <= m.until + Phase /\ m.at < m.until /\ m.until <= m.at + Window
  /\ 1 <= m.count /\ m.count <= Limit(m.key)
  /\ m.count = 1 => m.until = m.at + Window

(* A life of a counter gives each number once, and two lives of one        *)
(* counter are a window apart.                                             *)
AdmissionsApart ==
  \A m, o \in admitted : m.key = o.key /\ m.window = o.window =>
    /\ m.until = o.until /\ m.count = o.count => m = o
    /\ m.until = o.until \/ m.until + Window <= o.until \/ o.until + Window <= m.until

BurstInv ==
  /\ counter = [k \in Keys |-> [w \in Windows |-> counter[k][w]]]
  /\ \A k \in Keys : Limit(k) \in Int
  /\ \A r \in Requests : req[r].at = "limit" => now <= req[r].since + RedisDelay
  /\ \A k \in Keys, w \in Windows : CounterOK(k, w)
  /\ \A m \in admitted : AdmissionOK(m)
  /\ AdmissionsApart

(* A window and its bounds. *)
LEMMA WindowBounds ==
  ASSUME NEW t \in Nat
  PROVE  /\ WindowOf(t) \in Nat
         /\ WindowOf(t) * Window <= t + Phase /\ t + Phase < (WindowOf(t) + 1) * Window
<1>1. PICK n \in Nat : n = t + Phase BY TimesAssumption
<1>2. n \div Window \in Nat /\ (n \div Window) * Window <= n /\ n < (n \div Window + 1) * Window
  BY TimesAssumption
<1> QED BY <1>1, <1>2 DEF WindowOf

(* A step that runs no script and does not pass time. *)
LEMMA BurstQuiet ==
  ASSUME IInv, BurstInv, UNCHANGED <<now, counter, admitted>>,
         \A k \in Keys : LimitOf[row'[k].role] \in Int,
         \A k \in Keys : issued[k] <= now => issued'[k] = issued[k] /\ row'[k] = row[k],
         \A r \in Requests : req'[r].at = "limit" => now <= req'[r].since + RedisDelay
  PROVE  BurstInv'
<1>1. \A k \in Keys : Limit(k)' \in Int BY DEF Limit
<1>2. \A k \in Keys, w \in Windows : CounterOK(k, w)' BY DEF BurstInv, CounterOK
<1>3. ASSUME NEW m \in admitted PROVE AdmissionOK(m)'
  <2>1. AdmissionOK(m) BY DEF BurstInv
  <2>2. m.key \in Keys /\ issued[m.key] <= now BY <2>1 DEF AdmissionOK
  <2>3. issued'[m.key] = issued[m.key] /\ Limit(m.key)' = Limit(m.key) BY <2>2 DEF Limit
  <2> QED BY <2>1, <2>3 DEF AdmissionOK
<1>4. AdmissionsApart' BY DEF BurstInv, AdmissionsApart
<1> QED BY <1>1, <1>2, <1>3, <1>4 DEF BurstInv

(* A request becomes u, which asks for the limit now if it does. *)
LEMMA BurstReqMoves ==
  ASSUME IInv, BurstInv, NEW r \in Requests, NEW u, req' = [req EXCEPT ![r] = u],
         u.at = "limit" => u.since = now,
         UNCHANGED <<now, issued, row, counter, admitted>>
  PROVE  BurstInv'
<1>1. \A s \in Requests : req'[s] = IF s = r THEN u ELSE req[s] BY DEF IInv, TypeOK
<1>2. now \in Nat BY DEF IInv, TypeOK
<1>3. \A s \in Requests : req'[s].at = "limit" => now <= req'[s].since + RedisDelay
  BY <1>1, <1>2, TimesAssumption DEF BurstInv
<1>4. \A k \in Keys : LimitOf[row'[k].role] \in Int BY DEF BurstInv, Limit
<1> QED BY <1>3, <1>4, BurstQuiet

(* A context in hand: the limit is asked for at once. *)
LEMMA AcceptedNow ==
  ASSUME NEW q, IsReq(q), NEW u, u = Accepted(q)
  PROVE  u.at = "limit" => u.since = now
BY DEF Accepted, IsReq

(* Idle asks for nothing. *)
LEMMA BurstReqEnds ==
  ASSUME IInv, BurstInv, NEW r \in Requests, End(r),
         UNCHANGED <<now, issued, row, counter, admitted>>
  PROVE  BurstInv'
<1>1. PICK u : u = Idle OBVIOUS
<1>2. u.at = "idle" /\ req' = [req EXCEPT ![r] = u] BY <1>1, IdleOK DEF End, Step
<1> QED BY <1>2, BurstReqMoves

(* get_auth_context and authenticate. *)
LEMMA BurstAuthenticate ==
  ASSUME IInv, BurstInv, NEW r \in Requests,
         \/ \E ask \in Asks : GetAuthContext(r, ask[1], ask[2], ask[3])
         \/ Route(r) \/ Select(r) \/ Authenticate(r)
  PROVE  BurstInv'
<1>0. IsReq(req[r]) BY DEF IInv, ReqOK
<1>1. UNCHANGED <<now, issued, row, counter, admitted>>
  BY DEF GetAuthContext, Route, Select, Authenticate, keyRows, limiting
<1>2. ASSUME NEW ask \in Asks, GetAuthContext(r, ask[1], ask[2], ask[3]) PROVE BurstInv'
  <2>1. PICK q : q = [Idle EXCEPT !.key = ask[1], !.op = ask[2], !.target = ask[3]] OBVIOUS
  <2>2. /\ q = [at |-> "idle", key |-> ask[1], op |-> ask[2], target |-> ask[3],
                since |-> 0, found |-> FALSE, route |-> "primary"]
    BY <2>1 DEF Idle
  <2>3. now \in Nat BY DEF IInv, TypeOK
  <2>4. IsReq(q) BY <2>2, <2>3 DEF IsReq
  <2>5. PICK u : req' = [req EXCEPT ![r] = u]
                 /\ (u = Accepted(q) \/ u = [q EXCEPT !.at = "route"])
    BY <1>2, <2>1 DEF GetAuthContext, Step
  <2>6. u.at = "limit" => u.since = now
    <3>1. CASE u = Accepted(q) BY <2>4, <3>1, AcceptedNow
    <3>2. CASE u = [q EXCEPT !.at = "route"] BY <2>2, <3>2
    <3> QED BY <2>5, <3>1, <3>2
  <2> QED BY <1>1, <2>5, <2>6, BurstReqMoves
<1>3. CASE Select(r)
  <2>1. PICK s : req' = [req EXCEPT ![r] = [req[r] EXCEPT !.at = "resume", !.since = now,
                                              !.found = ActiveAt(req[r].key, s)]]
    BY <1>3 DEF Select, Step
  <2>2. PICK u : u = [req[r] EXCEPT !.at = "resume", !.since = now,
                                    !.found = ActiveAt(req[r].key, s)]
    OBVIOUS
  <2>3. u.at = "resume" BY <1>0, <2>2 DEF IsReq
  <2> QED BY <1>1, <2>1, <2>2, <2>3, BurstReqMoves
<1>4. CASE Authenticate(r)
  <2>1. PICK u : req' = [req EXCEPT ![r] = u]
                 /\ (u = Accepted(req[r]) \/ u = [req[r] EXCEPT !.at = "refused"])
    BY <1>4 DEF Authenticate, Step
  <2>2. u.at = "limit" => u.since = now
    <3>1. CASE u = Accepted(req[r]) BY <1>0, <3>1, AcceptedNow
    <3>2. CASE u = [req[r] EXCEPT !.at = "refused"] BY <1>0, <3>2 DEF IsReq
    <3> QED BY <2>1, <3>1, <3>2
  <2> QED BY <1>1, <2>1, <2>2, BurstReqMoves
<1>5. CASE Route(r)
  <2>1. PICK route :
          req' = [req EXCEPT ![r] = [req[r] EXCEPT !.at = "select", !.route = route,
                                       !.since = IF route = "primary" THEN 0 ELSE now]]
    BY <1>5 DEF Route, Step
  <2>2. PICK u : u = [req[r] EXCEPT !.at = "select", !.route = route,
                                    !.since = IF route = "primary" THEN 0 ELSE now]
    OBVIOUS
  <2>3. u.at = "select" BY <1>0, <2>2 DEF IsReq
  <2> QED BY <1>1, <2>1, <2>2, <2>3, BurstReqMoves
<1> QED BY <1>2, <1>3, <1>4, <1>5

(* The handlers that insert no row. *)
LEMMA BurstHandlers ==
  ASSUME IInv, BurstInv, NEW r \in Requests,
         \/ Refuse(r) \/ HandleCall(r) \/ LoadKey(r) \/ Rollback(r)
         \/ FlushRevoke(r) \/ FlushRotate(r) \/ CommitRevoke(r)
  PROVE  BurstInv'
<1>0. IsReq(req[r]) BY DEF IInv, ReqOK
<1>1. UNCHANGED <<now, issued, row, counter, admitted>>
  BY DEF Refuse, HandleCall, LoadKey, Rollback, FlushRevoke, FlushRotate, CommitRevoke,
         keyRows, limiting
<1>2. CASE End(r) BY <1>1, <1>2, BurstReqEnds
<1>3. CASE ~End(r)
  <2>1. PICK u : /\ req' = [req EXCEPT ![r] = u]
                 /\ \/ \E s : u = [req[r] EXCEPT !.at = "flush", !.since = s]
                    \/ u = [req[r] EXCEPT !.at = "commit"]
    BY <1>3 DEF Refuse, HandleCall, LoadKey, Rollback, FlushRevoke, FlushRotate,
                CommitRevoke, Step
  <2>2. u.at \in {"flush", "commit"} BY <1>0, <2>1 DEF IsReq
  <2> QED BY <1>1, <2>1, <2>2, BurstReqMoves
<1> QED BY <1>2, <1>3

(* A row is inserted: nobody has carried its id yet. *)
LEMMA BurstIssue ==
  ASSUME IInv, BurstInv, NEW r \in Requests, End(r), NEW k \in Keys, NEW org, NEW role, NEW from,
         Issue(k, NewKey(org, role), from), LimitOf[role] \in Int,
         UNCHANGED <<now, counter, admitted>>
  PROVE  BurstInv'
<1>0. PICK new, i : new = NewKey(org, role) /\ i = Idle OBVIOUS
<1>1. new.role = role BY <1>0 DEF NewKey
<1>2. issued[k] = Never /\ Never \in Nat /\ now \in Nat /\ now < Never
  BY NeverLate, TimesAssumption DEF Issue, IInv, TypeOK
<1>3. \A l \in Keys : /\ issued'[l] = IF l = k THEN now ELSE issued[l]
                      /\ row'[l] = IF l = k THEN new ELSE row[l]
  BY <1>0 DEF Issue, IInv, TypeOK
<1>4. \A l \in Keys : issued[l] <= now => l # k BY <1>2
<1>5. \A l \in Keys : LimitOf[row'[l].role] \in Int BY <1>1, <1>3 DEF BurstInv, Limit
<1>6. /\ i.at = "idle"
      /\ \A s \in Requests : req'[s] = IF s = r THEN i ELSE req[s]
  BY <1>0, IdleOK DEF End, Step, IInv, TypeOK
<1>7. \A s \in Requests : req'[s].at = "limit" => now <= req'[s].since + RedisDelay
  BY <1>6 DEF BurstInv
<1> QED BY <1>3, <1>4, <1>5, <1>7, BurstQuiet

(* post_api_key and rotate_api_key: the role is one that was asked for, or *)
(* the one of the key that is replaced.                                    *)
LEMMA BurstIssues ==
  ASSUME IInv, BurstInv, NEW r \in Requests, IssueKey(r) \/ CommitRotate(r)
  PROVE  BurstInv'
<1>1. End(r) /\ UNCHANGED <<now, counter, admitted>> BY DEF IssueKey, CommitRotate, limiting
<1>2. CASE UNCHANGED <<issued, row>> BY <1>1, <1>2, BurstReqEnds
<1>3. ASSUME NEW k \in Keys, NEW w \in Wanted,
             Issue(k, NewKey(IF w.role = Admin THEN None ELSE w.org, w.role), NoOrigin)
      PROVE  BurstInv'
  BY <1>1, <1>3, BurstIssue, LimitsAssumption
<1>4. CASE CommitRotate(r)
  <2>0. PICK t, from : t = req[r].target /\ from = [parent |-> t, read |-> req[r].since] OBVIOUS
  <2>1. PICK k \in Keys : Issue(k, NewKey(row[t].org, row[t].role), from)
    BY <1>4, <2>0 DEF CommitRotate
  <2>2. t \in Keys BY <1>4, <2>0 DEF CommitRotate, IInv, ReqOK, IsReq
  <2>3. LimitOf[row[t].role] \in Int BY <2>2 DEF BurstInv, Limit
  <2> QED BY <1>1, <2>1, <2>3, BurstIssue
<1> QED BY <1>2, <1>3, <1>4 DEF IssueKey

(* A worker process is replaced. *)
LEMMA BurstRestart ==
  ASSUME IInv, BurstInv, NEW p \in Procs, Restart(p)
  PROVE  BurstInv'
<1>0. PICK i : i = Idle OBVIOUS
<1>1. UNCHANGED <<now, issued, row, counter, admitted>> BY DEF Restart, keyRows, limiting
<1>2. i.at = "idle" /\ \A s \in Requests : req'[s] = i \/ req'[s] = req[s]
  BY <1>0, IdleOK DEF Restart
<1>3. \A s \in Requests : req'[s].at = "limit" => now <= req'[s].since + RedisDelay
  BY <1>2 DEF BurstInv
<1>4. \A k \in Keys : LimitOf[row'[k].role] \in Int BY <1>1 DEF BurstInv, Limit
<1> QED BY <1>1, <1>3, <1>4, BurstQuiet

(* The counter that the script leaves behind for a request that named      *)
(* window w: what it let through before is counted below it or has expired. *)
ScriptOK(k, w, c) ==
  /\ w \in Windows /\ w \in Nat /\ w * Window <= now + Phase
  /\ now + Phase < (w + 1) * Window + RedisDelay
  /\ c.count \in Nat /\ c.until \in Nat /\ c.count > 0
  /\ now < c.until /\ c.until <= now + Window /\ (w + 1) * Window <= c.until + Phase
  /\ c.count = 1 => c.until = now + Window
  /\ \A m \in admitted : m.key = k /\ m.window = w =>
       (m.until = c.until /\ m.count < c.count) \/ m.until + Window <= c.until

LEMMA ScriptCounts ==
  ASSUME IInv, BurstInv, NEW k \in Keys, NEW t \in Nat, t <= now, now <= t + RedisDelay,
         NEW w, w = WindowOf(t),
         NEW c, c = Incremented(counter[k][w])
  PROVE  ScriptOK(k, w, c)
<1>1. now \in Nat /\ now \in 0..MaxNow BY DEF IInv, TypeOK
<1>2. /\ w \in Nat /\ w * Window <= t + Phase /\ w * Window \in Nat
      /\ t + Phase < w * Window + Window
      /\ (w + 1) * Window = w * Window + Window
  BY WindowBounds, TimesAssumption
<1>3. w \in Windows
  <2>1. t \in Time BY <1>1, TimesAssumption DEF Time
  <2> QED BY <2>1 DEF Windows
<1>4. PICK d : d = counter[k][w] OBVIOUS
<1>5. /\ d.count \in Nat /\ d.until \in Nat
      /\ d.count > 0 =>
              /\ now < d.until /\ d.until <= now + Window
              /\ (w + 1) * Window <= d.until + Phase
      /\ \A m \in admitted : m.key = k /\ m.window = w =>
           IF d.count = 0 THEN m.until <= now
           ELSE (m.until = d.until /\ m.count <= d.count) \/ m.until + Window <= d.until
  BY <1>3, <1>4 DEF BurstInv, CounterOK
<1>6. c.count = d.count + 1 /\ c.until = IF d.count = 0 THEN now + Window ELSE d.until
  BY <1>4 DEF Incremented
<1>7. w * Window <= now + Phase /\ now + Phase < (w + 1) * Window + RedisDelay
  BY <1>1, <1>2, TimesAssumption
<1>8. /\ c.count \in Nat /\ c.until \in Nat /\ c.count > 0
      /\ now < c.until /\ c.until <= now + Window /\ (w + 1) * Window <= c.until + Phase
      /\ c.count = 1 => c.until = now + Window
  BY <1>1, <1>2, <1>5, <1>6, <1>7, TimesAssumption
<1>9. ASSUME NEW m \in admitted, m.key = k, m.window = w
      PROVE  (m.until = c.until /\ m.count < c.count) \/ m.until + Window <= c.until
  <2>1. m.until \in Nat /\ m.count \in Nat BY DEF BurstInv, AdmissionOK
  <2> QED BY <1>1, <1>5, <1>6, <1>9, <2>1, TimesAssumption
<1> QED BY <1>2, <1>3, <1>7, <1>8, <1>9 DEF ScriptOK

(* What was let through before has another number or belongs to another    *)
(* life of the counter.                                                    *)
LEMMA ScriptApart ==
  ASSUME IInv, BurstInv, NEW k, NEW w, NEW c, ScriptOK(k, w, c),
         NEW m \in admitted, m.key = k, m.window = w
  PROVE  /\ ~(m.until = c.until /\ m.count = c.count)
         /\ (m.until = c.until /\ m.count <= c.count) \/ m.until + Window <= c.until
<1>1. m.count \in Nat /\ m.until \in Nat BY DEF BurstInv, AdmissionOK
<1>2. /\ c.count \in Nat /\ c.until \in Nat
      /\ (m.until = c.until /\ m.count < c.count) \/ m.until + Window <= c.until
  BY DEF ScriptOK
<1> QED BY <1>1, <1>2, TimesAssumption

(* The script runs in Redis, and its answer, if it arrives, lets the       *)
(* request through, which is then n, or does not.                          *)
LEMMA BurstScript ==
  ASSUME IInv, BurstInv, NEW k \in Keys, issued[k] <= now, NEW w, NEW c, ScriptOK(k, w, c),
         NEW n, n.key = k, n.at = now, n.window = w, n.count = c.count, n.until = c.until,
         admitted' \subseteq admitted \cup {n},
         n \in admitted' => n \in admitted \/ c.count <= Limit(k),
         counter' = [l \in Keys |-> [v \in Windows |-> counter'[l][v]]],
         \A l \in Keys, v \in Windows :
           counter'[l][v] = IF l = k /\ v = w THEN c ELSE counter[l][v],
         \A s \in Requests : req'[s].at = "limit" => req'[s] = req[s],
         UNCHANGED <<now, issued, row>>
  PROVE  BurstInv'
<1>1. now \in Nat /\ now' = now BY DEF IInv, TypeOK
<1>2. \A l \in Keys : Limit(l)' = Limit(l) /\ Limit(l)' \in Int BY DEF BurstInv, Limit
<1>3. \A s \in Requests : req'[s].at = "limit" => now' <= req'[s].since + RedisDelay BY DEF BurstInv
<1>4. ASSUME NEW l \in Keys, NEW v \in Windows PROVE CounterOK(l, v)'
  <2>1. CASE l = k /\ v = w
    <3>1. counter'[l][v] = c BY <2>1
    <3>2. c.count # 0 /\ c.count \in Nat BY DEF ScriptOK
    <3>3. ASSUME NEW m \in admitted', m.key = l, m.window = v
          PROVE  (m.until = c.until /\ m.count <= c.count) \/ m.until + Window <= c.until
      <4>1. CASE m = n BY <3>2, <4>1
      <4>2. CASE m \in admitted BY <2>1, <3>3, <4>2, ScriptApart
      <4> QED BY <4>1, <4>2
    <3> QED BY <1>1, <2>1, <3>1, <3>2, <3>3 DEF CounterOK, ScriptOK
  <2>2. CASE ~(l = k /\ v = w)
    <3>1. counter'[l][v] = counter[l][v] BY <2>2
    <3>2. \A m \in admitted' : m.key = l /\ m.window = v => m \in admitted BY <2>2
    <3>3. CounterOK(l, v) BY DEF BurstInv
    <3> QED BY <1>1, <3>1, <3>2, <3>3 DEF CounterOK
  <2> QED BY <2>1, <2>2
<1>5. ASSUME NEW m \in admitted' PROVE AdmissionOK(m)'
  <2>1. CASE m \in admitted
    <3>1. AdmissionOK(m) BY <2>1 DEF BurstInv
    <3>2. Limit(m.key)' = Limit(m.key) BY <1>2, <3>1 DEF AdmissionOK
    <3> QED BY <1>1, <3>1, <3>2 DEF AdmissionOK
  <2>2. CASE m = n /\ c.count <= Limit(k)
    <3>1. Limit(m.key)' = Limit(k) BY <1>2, <2>2
    <3>2. 1 <= c.count BY DEF ScriptOK
    <3>3. now < now + Window BY <1>1, TimesAssumption
    <3> QED BY <1>1, <2>2, <3>1, <3>2, <3>3 DEF AdmissionOK, ScriptOK
  <2> QED BY <2>1, <2>2
<1>6. AdmissionsApart'
  <2>1. ASSUME NEW m \in admitted', NEW o \in admitted', m.key = o.key, m.window = o.window
        PROVE  /\ m.until = o.until /\ m.count = o.count => m = o
               /\ m.until = o.until \/ m.until + Window <= o.until \/ o.until + Window <= m.until
    <3>1. CASE m \in admitted /\ o \in admitted BY <2>1, <3>1 DEF BurstInv, AdmissionsApart
    <3>2. CASE m = n /\ o \in admitted
      <4>1. o.key = k /\ o.window = w BY <2>1, <3>2
      <4> QED BY <3>2, <4>1, ScriptApart
    <3>3. CASE m \in admitted /\ o = n
      <4>1. m.key = k /\ m.window = w BY <2>1, <3>3
      <4> QED BY <3>3, <4>1, ScriptApart
    <3>4. CASE m = n /\ o = n BY <3>4
    <3> QED BY <3>1, <3>2, <3>3, <3>4
  <2> QED BY <2>1 DEF AdmissionsApart
<1> QED BY <1>2, <1>3, <1>4, <1>5, <1>6 DEF BurstInv

(* check_rate_limit, and a RedisError before or after the script ran. *)
LEMMA BurstLimit ==
  ASSUME IInv, BurstInv, NEW r \in Requests, CheckRateLimit(r) \/ RedisError(r)
  PROVE  BurstInv'
<1>0. PICK q, k, w, c, n, i :
        /\ q = req[r] /\ k = q.key /\ w = WindowOf(q.since)
        /\ c = Incremented(counter[k][w]) /\ n = Admission(k, w, c) /\ i = Idle
  OBVIOUS
<1>1. UNCHANGED <<now, issued, row>> /\ q.at = "limit"
  BY <1>0 DEF CheckRateLimit, RedisError, keyRows
<1>2. /\ IsReq(q) /\ k \in Keys /\ issued[k] <= now
      /\ q.since \in Nat /\ q.since <= now /\ now <= q.since + RedisDelay
  BY <1>0, <1>1 DEF IInv, ReqOK, IsReq, BurstInv
<1>3. ScriptOK(k, w, c) BY <1>0, <1>2, ScriptCounts
<1>4. n.key = k /\ n.at = now /\ n.window = w /\ n.count = c.count /\ n.until = c.until
  BY <1>0 DEF Admission
<1>5. \A s \in Requests : req'[s].at = "limit" => req'[s] = req[s]
  <2>1. PICK u : /\ req' = [req EXCEPT ![r] = u]
                 /\ u = [q EXCEPT !.at = "handle", !.since = 0] \/ u = i
    BY <1>0 DEF CheckRateLimit, RedisError, Step, End
  <2>2. i.at = "idle" BY <1>0, IdleOK
  <2>3. u.at # "limit" BY <1>2, <2>1, <2>2 DEF IsReq
  <2>4. \A s \in Requests : req'[s] = IF s = r THEN u ELSE req[s] BY <2>1 DEF IInv, TypeOK
  <2> QED BY <2>3, <2>4
<1>6. CASE counter' = [counter EXCEPT ![k][w] = c]
  <2>1. /\ counter' = [l \in Keys |-> [v \in Windows |-> counter'[l][v]]]
        /\ \A l \in Keys, v \in Windows :
             counter'[l][v] = IF l = k /\ v = w THEN c ELSE counter[l][v]
    <3>1. w \in Windows BY <1>3 DEF ScriptOK
    <3> QED BY <1>2, <1>6, <3>1 DEF BurstInv
  <2>2. /\ admitted' \subseteq admitted \cup {n}
        /\ n \in admitted' => n \in admitted \/ c.count <= Limit(k)
    BY <1>0 DEF CheckRateLimit, RedisError, Allowed, Limit
  <2> QED BY <1>1, <1>2, <1>3, <1>4, <1>5, <2>1, <2>2, BurstScript
<1>7. CASE UNCHANGED <<counter, admitted>>
  <2>1. \A l \in Keys : LimitOf[row'[l].role] \in Int BY <1>1 DEF BurstInv, Limit
  <2>2. \A s \in Requests : req'[s].at = "limit" => now <= req'[s].since + RedisDelay
    BY <1>5 DEF BurstInv
  <2> QED BY <1>1, <1>7, <2>1, <2>2, BurstQuiet
<1>8. \/ counter' = [counter EXCEPT ![k][w] = c]
      \/ UNCHANGED <<counter, admitted>>
  <2>1. CASE CheckRateLimit(r) BY <1>0, <2>1 DEF CheckRateLimit
  <2>2. CASE RedisError(r)
    <3>1. CASE counter' = [counter EXCEPT ![q.key][w] = Incremented(@)]
      BY <1>0, <1>2, <1>3, <3>1 DEF ScriptOK, BurstInv
    <3>2. CASE UNCHANGED counter BY <2>2, <3>2 DEF RedisError
    <3> QED BY <1>0, <2>2, <3>1, <3>2 DEF RedisError
  <2> QED BY <2>1, <2>2
<1> QED BY <1>6, <1>7, <1>8

(* The clock: a counter is dropped when it expires, and by then what it    *)
(* let through has expired with it.                                        *)
LEMMA BurstTick ==
  ASSUME IInv, BurstInv, Tick
  PROVE  BurstInv'
<1>1. now' = now + 1 /\ now \in Nat /\ UNCHANGED <<issued, row, req>>
  BY DEF Tick, keyRows, IInv, TypeOK
<1>2. /\ counter' = [k \in Keys |-> [w \in Windows |-> counter'[k][w]]]
      /\ \A k \in Keys, w \in Windows :
           counter'[k][w] = IF counter[k][w].until <= now + 1 THEN NoCount ELSE counter[k][w]
  BY DEF Tick
<1>3. \A m \in admitted' : m \in admitted /\ now + 1 < m.at + Window BY DEF Tick
<1>4. \A k \in Keys : Limit(k)' = Limit(k) /\ Limit(k)' \in Int BY <1>1 DEF BurstInv, Limit
<1>5. ASSUME NEW r \in Requests, req'[r].at = "limit" PROVE now' <= req'[r].since + RedisDelay
  <2>1. now < req[r].since + RedisDelay /\ req[r].since \in Nat
    BY <1>1, <1>5 DEF Tick, IInv, ReqOK, IsReq
  <2> QED BY <1>1, <2>1, TimesAssumption
<1>6. ASSUME NEW k \in Keys, NEW w \in Windows PROVE CounterOK(k, w)'
  <2>0. PICK d, e : d = counter[k][w] /\ e = NoCount OBVIOUS
  <2>1. e.count = 0 /\ e.until = 0 BY <2>0 DEF NoCount
  <2>2. /\ d.count \in Nat /\ d.until \in Nat
        /\ d.count > 0 =>
                /\ now < d.until /\ d.until <= now + Window
                /\ (w + 1) * Window <= d.until + Phase
        /\ \A m \in admitted : m.key = k /\ m.window = w =>
             IF d.count = 0 THEN m.until <= now
             ELSE (m.until = d.until /\ m.count <= d.count) \/ m.until + Window <= d.until
    BY <2>0 DEF BurstInv, CounterOK
  <2>3. \A m \in admitted' : m \in admitted /\ m.until \in Nat BY <1>3 DEF BurstInv, AdmissionOK
  <2>4. CASE d.until <= now + 1
    <3>1. counter'[k][w] = e BY <1>2, <2>0, <2>4
    <3>2. ASSUME NEW m \in admitted', m.key = k, m.window = w PROVE m.until <= now + 1
      BY <1>1, <2>2, <2>3, <2>4, <3>2, TimesAssumption
    <3> QED BY <1>1, <2>1, <3>1, <3>2 DEF CounterOK
  <2>5. CASE ~(d.until <= now + 1)
    <3>1. counter'[k][w] = d BY <1>2, <2>0, <2>5
    <3>2. d.count > 0 => now + 1 < d.until /\ d.until <= now + 1 + Window
      BY <1>1, <2>2, <2>5, TimesAssumption
    <3>3. ASSUME NEW m \in admitted', m.key = k, m.window = w, d.count = 0
          PROVE  m.until <= now + 1
      BY <1>1, <2>2, <2>3, <3>3
    <3> QED BY <1>1, <2>2, <2>3, <3>1, <3>2, <3>3 DEF CounterOK
  <2> QED BY <2>4, <2>5
<1>7. ASSUME NEW m \in admitted' PROVE AdmissionOK(m)'
  <2>1. AdmissionOK(m) /\ now + 1 < m.at + Window BY <1>3 DEF BurstInv
  <2>2. /\ m.key \in Keys /\ m.at \in Nat /\ m.at <= now + 1
        /\ issued[m.key] <= now + 1 /\ Limit(m.key)' = Limit(m.key)
    <3>1. m.key \in Keys /\ issued[m.key] <= now /\ m.at \in Nat /\ m.at <= now
      BY <2>1 DEF AdmissionOK
    <3>2. issued[m.key] \in Nat BY <3>1 DEF IInv, TypeOK
    <3> QED BY <1>1, <1>4, <3>1, <3>2
  <2> QED BY <1>1, <2>1, <2>2 DEF AdmissionOK
<1>8. AdmissionsApart' BY <1>3 DEF BurstInv, AdmissionsApart
<1> QED BY <1>2, <1>4, <1>5, <1>6, <1>7, <1>8 DEF BurstInv

LEMMA NextBurst == IInv /\ BurstInv /\ [Next]_vars => BurstInv'
<1> SUFFICES ASSUME IInv, BurstInv, [Next]_vars PROVE BurstInv' OBVIOUS
<1>1. CASE Tick BY <1>1, BurstTick
<1>2. CASE \E p \in Procs : Restart(p) BY <1>2, BurstRestart
<1>3. ASSUME NEW r \in Requests, NEW ask \in Asks, GetAuthContext(r, ask[1], ask[2], ask[3])
      PROVE  BurstInv'
  BY <1>3, BurstAuthenticate
<1>4. ASSUME NEW r \in Requests,
             \/ Route(r) \/ Select(r) \/ Authenticate(r) \/ Refuse(r)
             \/ CheckRateLimit(r) \/ RedisError(r)
             \/ HandleCall(r) \/ IssueKey(r) \/ LoadKey(r)
             \/ FlushRevoke(r) \/ CommitRevoke(r)
             \/ FlushRotate(r) \/ CommitRotate(r)
             \/ Rollback(r)
      PROVE  BurstInv'
  BY <1>4, BurstAuthenticate, BurstHandlers, BurstIssues, BurstLimit
<1>5. CASE UNCHANGED vars
  <2>1. UNCHANGED <<now, issued, row, counter, req, admitted>> BY <1>5 DEF vars
  <2>2. \A k \in Keys : LimitOf[row'[k].role] \in Int BY <2>1 DEF BurstInv, Limit
  <2>3. \A r \in Requests : req'[r].at = "limit" => now <= req'[r].since + RedisDelay
    BY <2>1 DEF BurstInv
  <2> QED BY <2>1, <2>2, <2>3, BurstQuiet
<1> QED BY <1>1, <1>2, <1>3, <1>4, <1>5 DEF Next

LEMMA InitBurst == Init => BurstInv
<1> SUFFICES ASSUME Init PROVE BurstInv OBVIOUS
<1>1. ASSUME NEW k \in Keys PROVE Limit(k) \in Int
  <2>1. CASE k \in Root
    <3>1. row[k] = RootRow[k] BY <2>1 DEF Init
    <3> QED BY <2>1, <3>1, LimitsAssumption DEF Limit
  <2>2. CASE k \notin Root
    <3>1. row[k] = [org |-> None, role |-> Admin, expires |-> Never] BY <2>2 DEF Init
    <3> QED BY <3>1, LimitsAssumption DEF Limit
  <2> QED BY <2>1, <2>2
<1>2. counter = [k \in Keys |-> [w \in Windows |-> counter[k][w]]]
      /\ \A k \in Keys, w \in Windows : counter[k][w] = NoCount
  BY DEF Init
<1>3. admitted = {} BY DEF Init
<1>4. \A r \in Requests : req[r].at = "idle" BY DEF Init, Idle
<1>5. \A k \in Keys, w \in Windows : CounterOK(k, w) BY <1>2, <1>3 DEF CounterOK, NoCount
<1> QED BY <1>1, <1>2, <1>3, <1>4, <1>5 DEF BurstInv, AdmissionsApart

(* What the limiter has let through within a window's length is numbered   *)
(* by counters whose lives are a window apart.                             *)
THEOREM BurstInvariance == Spec => []BurstInv
BY Invariance, InitBurst, NextBurst, PTL DEF Spec

(* A set whose members carry different numbers is no larger than the range *)
(* of the numbers.                                                         *)
LEMMA NumberedBound ==
  ASSUME NEW S, NEW lo \in Int, NEW hi \in Int, lo <= hi + 1,
         \A m \in S : m.count \in Int /\ lo <= m.count /\ m.count <= hi,
         \A m, o \in S : m.count = o.count => m = o
  PROVE  IsFiniteSet(S) /\ Cardinality(S) \in Nat /\ Cardinality(S) <= hi - lo + 1
<1>1. PICK f : f = [m \in S |-> m.count] OBVIOUS
<1>2. f \in Injection(S, lo..hi) BY <1>1 DEF Injection, IsInjective
<1>3. IsFiniteSet(lo..hi) /\ Cardinality(lo..hi) = hi - lo + 1 BY FS_Interval
<1>4. IsFiniteSet(S) /\ Cardinality(S) <= Cardinality(lo..hi) BY <1>2, <1>3, FS_Injection
<1> QED BY <1>3, <1>4, FS_CardinalityType

(* Two finite sets together. *)
LEMMA UnionBound ==
  ASSUME NEW S, NEW T, NEW x \in Int, NEW y \in Int,
         IsFiniteSet(S), IsFiniteSet(T), Cardinality(S) <= x, Cardinality(T) <= y
  PROVE  IsFiniteSet(S \cup T) /\ Cardinality(S \cup T) \in Nat /\ Cardinality(S \cup T) <= x + y
<1>1. IsFiniteSet(S \cap T) BY FS_Intersection
<1>2. Cardinality(S) \in Nat /\ Cardinality(T) \in Nat /\ Cardinality(S \cap T) \in Nat
  BY <1>1, FS_CardinalityType
<1>3. /\ IsFiniteSet(S \cup T)
      /\ Cardinality(S \cup T) = Cardinality(S) + Cardinality(T) - Cardinality(S \cap T)
  BY FS_Union
<1>4. Cardinality(S \cup T) \in Nat BY <1>3, FS_CardinalityType
<1> QED BY <1>2, <1>3, <1>4

(* What was let through in the name of window w, by a counter that is      *)
(* alive and by one that has expired.                                      *)
Named(k, w) == {m \in admitted : m.key = k /\ m.window = w}
Live(k, w)  == {m \in Named(k, w) : now < m.until}
Old(k, w)   == {m \in Named(k, w) : m.until <= now}

(* One life of a counter lets no more than the limit through. *)
LEMMA LiveBound ==
  ASSUME IInv, BurstInv, NEW k \in Keys, Limit(k) > 0, NEW w
  PROVE  IsFiniteSet(Live(k, w)) /\ Cardinality(Live(k, w)) <= Limit(k)
<1>0. PICK S, n : S = Live(k, w) /\ n = Limit(k) OBVIOUS
<1>1. n \in Int /\ n > 0 /\ now \in Nat BY <1>0 DEF BurstInv, IInv, TypeOK
<1>2. \A m \in S : m \in admitted /\ AdmissionOK(m) /\ m.key = k /\ m.window = w /\ now < m.until
  BY <1>0 DEF Live, Named, BurstInv
<1>3. \A m \in S : /\ m.count \in Int /\ 1 <= m.count /\ m.count <= n
                   /\ m.until \in Nat /\ m.until <= now + Window
  BY <1>0, <1>1, <1>2, TimesAssumption DEF AdmissionOK
<1>4. ASSUME NEW m \in S, NEW o \in S, m.count = o.count PROVE m = o
  <2>1. /\ m.until = o.until => m = o
        /\ m.until = o.until \/ m.until + Window <= o.until \/ o.until + Window <= m.until
    BY <1>2, <1>4 DEF BurstInv, AdmissionsApart
  <2>2. m.until = o.until BY <1>1, <1>2, <1>3, <2>1, TimesAssumption
  <2> QED BY <2>1, <2>2
<1>5. IsFiniteSet(S) /\ Cardinality(S) \in Nat /\ Cardinality(S) <= n - 1 + 1
  BY <1>1, <1>3, <1>4, NumberedBound
<1> QED BY <1>0, <1>1, <1>5

(* Of a life that is over, one at least is too long ago: the one that      *)
(* started it.                                                             *)
LEMMA OldBound ==
  ASSUME IInv, BurstInv, NEW k \in Keys, Limit(k) > 0, NEW w
  PROVE  IsFiniteSet(Old(k, w)) /\ Cardinality(Old(k, w)) <= Limit(k) - 1
<1>0. PICK S, n : S = Old(k, w) /\ n = Limit(k) OBVIOUS
<1>1. n \in Int /\ n > 0 /\ now \in Nat BY <1>0 DEF BurstInv, IInv, TypeOK
<1>2. \A m \in S : m \in admitted /\ AdmissionOK(m) /\ m.key = k /\ m.window = w /\ m.until <= now
  BY <1>0 DEF Old, Named, BurstInv
<1>3. \A m \in S : /\ m.count \in Int /\ 2 <= m.count /\ m.count <= n
                   /\ m.until \in Nat /\ now < m.until + Window
  <2>1. ASSUME NEW m \in S
        PROVE  /\ m.count \in Int /\ 2 <= m.count /\ m.count <= n
               /\ m.until \in Nat /\ now < m.until + Window
    <3>1. /\ m.count \in Nat /\ 1 <= m.count /\ m.count <= n
          /\ m.until \in Nat /\ m.at \in Nat /\ m.at < m.until /\ now < m.at + Window
          /\ m.count = 1 => m.until = m.at + Window
      BY <1>0, <1>2 DEF AdmissionOK
    <3>2. m.count # 1 BY <1>1, <1>2, <3>1, TimesAssumption
    <3> QED BY <1>1, <3>1, <3>2, TimesAssumption
  <2> QED BY <2>1
<1>4. ASSUME NEW m \in S, NEW o \in S, m.count = o.count PROVE m = o
  <2>1. /\ m.until = o.until => m = o
        /\ m.until = o.until \/ m.until + Window <= o.until \/ o.until + Window <= m.until
    BY <1>2, <1>4 DEF BurstInv, AdmissionsApart
  <2>2. m.until = o.until BY <1>1, <1>2, <1>3, <2>1, TimesAssumption
  <2> QED BY <2>1, <2>2
<1>5. 2 \in Int /\ 2 <= n + 1 BY <1>1
<1>6. IsFiniteSet(S) /\ Cardinality(S) \in Nat /\ Cardinality(S) <= n - 2 + 1
  BY <1>1, <1>3, <1>4, <1>5, NumberedBound
<1> QED BY <1>0, <1>1, <1>6

(* The window of the clock has one life yet; one before may have two.      *)
LEMMA NamedBound ==
  ASSUME IInv, BurstInv, NEW k \in Keys, Limit(k) > 0, NEW w \in Int
  PROVE  /\ IsFiniteSet(Named(k, w)) /\ Cardinality(Named(k, w)) <= 2 * Limit(k) - 1
         /\ now + Phase < (w + 1) * Window => Cardinality(Named(k, w)) <= Limit(k)
<1>1. Limit(k) \in Int /\ now \in Nat BY DEF BurstInv, IInv, TypeOK
<1>2. IsFiniteSet(Live(k, w)) /\ Cardinality(Live(k, w)) <= Limit(k) BY LiveBound
<1>3. IsFiniteSet(Old(k, w)) /\ Cardinality(Old(k, w)) <= Limit(k) - 1 BY OldBound
<1>4. \A m \in Named(k, w) : m.until \in Nat /\ (w + 1) * Window <= m.until + Phase
  BY DEF Named, BurstInv, AdmissionOK
<1>5. Named(k, w) = Live(k, w) \cup Old(k, w) BY <1>1, <1>4 DEF Live, Old
<1>6. /\ IsFiniteSet(Live(k, w) \cup Old(k, w)) /\ Cardinality(Live(k, w) \cup Old(k, w)) \in Nat
      /\ Cardinality(Live(k, w) \cup Old(k, w)) <= Limit(k) + (Limit(k) - 1)
  <2>1. PICK y \in Int : y = Limit(k) - 1 BY <1>1
  <2> QED BY <1>1, <1>2, <1>3, <2>1, UnionBound
<1>7. ASSUME now + Phase < (w + 1) * Window PROVE Cardinality(Named(k, w)) <= Limit(k)
  <2>1. (w + 1) * Window \in Int /\ Phase \in Nat BY TimesAssumption
  <2>2. \A m \in Named(k, w) : now < m.until BY <1>1, <1>4, <1>7, <2>1
  <2>3. Named(k, w) = Live(k, w) BY <2>2 DEF Live
  <2> QED BY <1>2, <2>3
<1> QED BY <1>1, <1>5, <1>6, <1>7

LEMMA FewerWindows ==
  ASSUME NEW x \in Int, NEW y \in Int, x * Window < y * Window
  PROVE  x < y
<1>1. Window \in Nat /\ Window > 0 BY TimesAssumption
<1>2. CASE y <= x
  <2>1. PICK d \in Nat : x = y + d
    <3>1. x - y \in Nat /\ x = y + (x - y) BY <1>2
    <3> QED BY <3>1
  <2>2. x * Window = y * Window + d * Window BY <1>1, <2>1
  <2>3. d * Window \in Nat BY <1>1, <2>1
  <2>4. y * Window \in Int BY <1>1
  <2> QED BY <2>2, <2>3, <2>4
<1> QED BY <1>2

(* Only the last three windows can be named within a window's length of    *)
(* now.                                                                    *)
LEMMA RecentWindows ==
  ASSUME IInv, BurstInv, RedisDelay < Window, NEW m \in admitted, NEW a, a = WindowOf(now)
  PROVE  /\ a \in Nat /\ m.window \in Nat
         /\ m.window = a \/ m.window = a - 1 \/ m.window = a - 2
<1>1. /\ now \in Nat /\ Window \in Nat /\ Window > 0 /\ RedisDelay \in Nat /\ Phase \in Nat
  BY TimesAssumption DEF IInv, TypeOK
<1>2. a \in Nat /\ a * Window <= now + Phase /\ now + Phase < (a + 1) * Window
  BY <1>1, WindowBounds
<1>3. PICK w : w = m.window OBVIOUS
<1>4. /\ w \in Nat /\ m.at \in Nat /\ m.at <= now /\ now < m.at + Window
      /\ w * Window <= m.at + Phase /\ m.at + Phase < (w + 1) * Window + RedisDelay
  BY <1>3 DEF BurstInv, AdmissionOK
<1>5. PICK A, B : A = a * Window /\ B = w * Window OBVIOUS
<1>6. /\ A \in Nat /\ B \in Nat /\ (a + 1) * Window = A + Window /\ (w + 1) * Window = B + Window
      /\ (w + 3) * Window = B + 3 * Window
  BY <1>1, <1>2, <1>4, <1>5
<1>7. w < a + 1
  <2>1. w * Window < (a + 1) * Window BY <1>1, <1>2, <1>4, <1>5, <1>6
  <2> QED BY <1>2, <1>4, <2>1, FewerWindows
<1>8. a < w + 3
  <2>1. a * Window < (w + 3) * Window BY <1>1, <1>2, <1>4, <1>5, <1>6
  <2> QED BY <1>2, <1>4, <2>1, FewerWindows
<1>9. w = a \/ w = a - 1 \/ w = a - 2 BY <1>2, <1>4, <1>7, <1>8
<1> QED BY <1>2, <1>3, <1>4, <1>9

(* check_rate_limit bounds what one key gets through in a window's length, *)
(* whatever the number of requests and processes and wherever in a window  *)
(* the clock starts: below five times the limit while Redis answers within *)
(* a window.                                                               *)
THEOREM Bursts == Spec => []BurstBounded
<1>1. ASSUME IInv, BurstInv PROVE BurstBounded
  <2> SUFFICES ASSUME NEW k \in Keys, RedisDelay < Window, Limit(k) > 0
               PROVE  Cardinality({m \in admitted : m.key = k}) <= 5 * Limit(k) - 2
    BY DEF BurstBounded, Limit
  <2>0. PICK a, A, B, C, n, y :
          /\ a = WindowOf(now) /\ n = Limit(k) /\ y = 2 * n - 1
          /\ A = Named(k, a) /\ B = Named(k, a - 1) /\ C = Named(k, a - 2)
    OBVIOUS
  <2>1. n \in Int /\ n > 0 /\ y \in Int /\ n + y \in Int /\ now \in Nat
    BY <1>1, <2>0 DEF IInv, TypeOK, BurstInv
  <2>2. a \in Nat /\ now + Phase < (a + 1) * Window BY <2>0, <2>1, WindowBounds
  <2>3. IsFiniteSet(A) /\ Cardinality(A) <= n BY <1>1, <2>0, <2>2, NamedBound
  <2>4. IsFiniteSet(B) /\ Cardinality(B) <= y BY <1>1, <2>0, <2>2, NamedBound
  <2>5. IsFiniteSet(C) /\ Cardinality(C) <= y BY <1>1, <2>0, <2>2, NamedBound
  <2>6. /\ IsFiniteSet(A \cup B) /\ Cardinality(A \cup B) \in Nat
        /\ Cardinality(A \cup B) <= n + y
    BY <2>1, <2>3, <2>4, UnionBound
  <2>7. /\ IsFiniteSet((A \cup B) \cup C) /\ Cardinality((A \cup B) \cup C) \in Nat
        /\ Cardinality((A \cup B) \cup C) <= (n + y) + y
    BY <2>1, <2>5, <2>6, UnionBound
  <2>8. PICK S : S = {m \in admitted : m.key = k} OBVIOUS
  <2>9. S \in SUBSET ((A \cup B) \cup C) BY <1>1, <2>0, <2>8, RecentWindows DEF Named
  <2>10. IsFiniteSet(S) /\ Cardinality(S) <= Cardinality((A \cup B) \cup C)
    BY <2>7, <2>9, FS_Subset
  <2>11. Cardinality(S) \in Nat BY <2>10, FS_CardinalityType
  <2>12. Cardinality(S) <= 5 * n - 2 BY <2>0, <2>1, <2>7, <2>10, <2>11
  <2> QED BY <2>0, <2>8, <2>12
<1> QED BY <1>1, Invariance, BurstInvariance, PTL
=============================================================================
