--------------------------- MODULE DunningProofs ---------------------------
(***************************************************************************)
(* Theorems about Dunning, for any number of campaigns, subscriptions,     *)
(* task workers and operators, any schedule length, and any number of      *)
(* rolled back batches and of pause and resume requests.                   *)
(***************************************************************************)
EXTENDS Dunning, FiniteSetTheorems, TLAPS

Statuses == {"none", "active", "paused", "completed", "exhausted"}
Results  == {"pending", "succeeded", "failed"}
Ops      == {"pause", "resume"}

TypeOK ==
  /\ campaign \in [Keys -> Statuses]
  /\ due \in [Keys -> 0..NAttempts]
  /\ result \in [Attempts -> Results]
  /\ held \in [Runners -> SUBSET Attempts]
  /\ ran \in [Runners -> [Attempts -> Results]]
  /\ ending \in [Runners -> [Keys -> Statuses]]
  /\ admin \in [Admins -> {Idle} \cup [op : Ops, key : Keys, read : Seq(Ops)]]
  /\ audit \in [Keys -> Seq(Ops)]
  /\ calls \in [Attempts -> Nat]
  /\ crashes \in 0..MaxCrashes
  /\ ops \in 0..MaxOps

(* The row locks: what a runner holds is pending, its campaign is active,  *)
(* and no other runner holds an attempt of that campaign.                  *)
HeldLocked ==
  \A w \in Runners : \A a \in held[w] :
    /\ campaign[a[1]] = "active"
    /\ result[a] = "pending"
    /\ \A v \in Runners : \A b \in held[v] : b[1] = a[1] => v = w

(* Uncommitted results belong to held attempts. *)
RanHeld == \A w \in Runners : \A a \in Attempts : ran[w][a] # "pending" => a \in held[w]

(* The end a runner is about to write has its reason among the results it  *)
(* is about to write.                                                      *)
EndingJustified ==
  \A w \in Runners : \A k \in Keys :
    /\ ending[w][k] \in {"active", "completed", "exhausted"}
    /\ ending[w][k] = "completed" => \E n \in AttemptNos : ran[w][<<k, n>>] = "succeeded"
    /\ ending[w][k] = "exhausted" => ran[w][<<k, NAttempts>>] = "failed"

(* At most one active campaign per subscription, without counting. *)
ActiveUnique ==
  \A k, l \in Keys :
    campaign[k] = "active" /\ campaign[l] = "active" /\ SubOf[k] = SubOf[l] => k = l

(* A campaign that does not exist yet has no history. *)
NoHistoryBeforeStart ==
  /\ \A k \in Keys : campaign[k] = "none" => audit[k] = <<>>
  /\ \A p \in Admins : admin[p] # Idle => campaign[admin[p].key] # "none"

(* An attempt that nobody has executed since the last crash was called at  *)
(* most once per crash.                                                    *)
Executed(a) == result[a] # "pending" \/ \E w \in Runners : ran[w][a] # "pending"

CallsCounted ==
  \A a \in Attempts : calls[a] <= crashes + (IF Executed(a) THEN 1 ELSE 0)

IInv == /\ TypeOK
        /\ HeldLocked
        /\ RanHeld
        /\ EndingJustified
        /\ ActiveUnique
        /\ NoHistoryBeforeStart
        /\ CallsCounted
        /\ EndingIsEarned
        /\ AuditExplainsStatus

-----------------------------------------------------------------------------

(* A set of which every two elements are equal counts at most one. *)
LEMMA AtMostOne ==
  ASSUME NEW S, \A x, y \in S : x = y PROVE Cardinality(S) <= 1
<1>1. CASE S = {} BY <1>1, FS_EmptySet
<1>2. CASE S # {}
  <2>1. PICK x : S = {x} BY <1>2
  <2> QED BY <2>1, FS_Singleton
<1> QED BY <1>1, <1>2

(* What _append_campaign_audit writes ends with the operator's action. *)
LEMMA AppendedLast ==
  ASSUME NEW s \in Seq(Ops), NEW o \in Ops
  PROVE  Append(s, o) \in Seq(Ops) /\ Append(s, o) # <<>> /\ Last(Append(s, o)) = o
BY DEF Last

(* What an open request is. *)
LEMMA RequestType ==
  ASSUME TypeOK, NEW p \in Admins, admin[p] # Idle
  PROVE  admin[p].op \in Ops /\ admin[p].key \in Keys /\ admin[p].read \in Seq(Ops)
BY DEF TypeOK

(* An attempt is a campaign's key and a number of its schedule. *)
LEMMA AttemptParts ==
  \A a \in Attempts : a[1] \in Keys /\ a[2] \in AttemptNos /\ a = <<a[1], a[2]>>
BY DEF Attempts

LEMMA InitIInv == Init => IInv
<1> SUFFICES ASSUME Init PROVE IInv OBVIOUS
<1> USE NAttemptsAssumption, BoundsAssumption
<1>1. TypeOK BY DEF Init, TypeOK, Statuses, Results, AllPending, NoneEnding
<1>2. HeldLocked BY DEF Init, HeldLocked
<1>3. RanHeld BY DEF Init, RanHeld, AllPending
<1>4. EndingJustified BY DEF Init, EndingJustified, NoneEnding
<1>5. ActiveUnique BY DEF Init, ActiveUnique
<1>6. NoHistoryBeforeStart BY DEF Init, NoHistoryBeforeStart
<1>7. CallsCounted BY DEF Init, CallsCounted
<1>8. EndingIsEarned /\ AuditExplainsStatus BY DEF Init, EndingIsEarned, AuditExplainsStatus
<1> QED BY <1>1, <1>2, <1>3, <1>4, <1>5, <1>6, <1>7, <1>8 DEF IInv

LEMMA StutterIInv == ASSUME IInv, UNCHANGED vars PROVE IInv'
<1> USE DEF IInv, vars
<1>1. TypeOK' BY DEF TypeOK
<1>2. HeldLocked' /\ RanHeld' /\ EndingJustified'
  <2>1. HeldLocked' BY DEF HeldLocked
  <2>2. RanHeld' BY DEF RanHeld
  <2>3. EndingJustified' BY DEF EndingJustified
  <2> QED BY <2>1, <2>2, <2>3
<1>3. ActiveUnique' /\ NoHistoryBeforeStart' BY DEF ActiveUnique, NoHistoryBeforeStart
<1>4. CallsCounted' BY DEF CallsCounted, Executed
<1>5. EndingIsEarned' /\ AuditExplainsStatus' BY DEF EndingIsEarned, AuditExplainsStatus
<1> QED BY <1>1, <1>2, <1>3, <1>4, <1>5

LEMMA StartCampaignIInv == ASSUME IInv, NEW k \in Keys, StartCampaign(k) PROVE IInv'
<1>0. TypeOK BY DEF IInv
<1>1. UNCHANGED <<due, result, held, ran, ending, admin, audit, calls, crashes, ops>>
  BY DEF StartCampaign
<1>2. CASE campaign' = campaign BY <1>1, <1>2, StutterIInv DEF vars
<1>3. CASE /\ campaign[k] = "none" /\ ActiveFor(SubOf[k]) = {}
           /\ campaign' = [campaign EXCEPT ![k] = "active"]
  <2>1. TypeOK' BY <1>0, <1>1, <1>3 DEF TypeOK, Statuses
  <2>2. HeldLocked' BY <1>0, <1>1, <1>3, AttemptParts DEF IInv, HeldLocked, TypeOK
  <2>3. ActiveUnique' BY <1>0, <1>3 DEF IInv, ActiveUnique, ActiveFor, TypeOK
  <2>4. NoHistoryBeforeStart' BY <1>0, <1>1, <1>3 DEF IInv, NoHistoryBeforeStart, TypeOK
  <2>5. EndingIsEarned' BY <1>0, <1>1, <1>3 DEF IInv, EndingIsEarned, TypeOK
  <2>6. AuditExplainsStatus'
    BY <1>0, <1>1, <1>3 DEF IInv, AuditExplainsStatus, NoHistoryBeforeStart, TypeOK
  <2> QED BY <1>1, <2>1, <2>2, <2>3, <2>4, <2>5, <2>6
          DEF IInv, RanHeld, EndingJustified, CallsCounted, Executed
<1> QED BY <1>2, <1>3 DEF StartCampaign, Known

LEMMA AttemptFallsDueIInv == ASSUME IInv, NEW k \in Keys, AttemptFallsDue(k) PROVE IInv'
<1>1. TypeOK' BY NAttemptsAssumption DEF IInv, TypeOK, AttemptFallsDue
<1> QED BY <1>1 DEF IInv, AttemptFallsDue, HeldLocked, RanHeld, EndingJustified, ActiveUnique,
     NoHistoryBeforeStart, CallsCounted, Executed, EndingIsEarned, AuditExplainsStatus

LEMMA SelectDueIInv == ASSUME IInv, NEW w \in Runners, SelectDue(w) PROVE IInv'
<1> DEFINE H == {a \in Due : ~CampaignLocked(a[1])}
<1>0. TypeOK BY DEF IInv
<1>1. /\ held' = [held EXCEPT ![w] = H]
      /\ held[w] = {}
      /\ UNCHANGED <<campaign, due, result, ran, ending, admin, audit, calls, crashes, ops>>
  BY DEF SelectDue
<1>2. \A a \in H : /\ a \in Attempts /\ campaign[a[1]] = "active" /\ result[a] = "pending"
                   /\ \A v \in Runners : \A b \in held[v] : b[1] # a[1]
  BY DEF Due, CampaignLocked
<1> HIDE DEF H
<1>3. \A v \in Runners : held'[v] = IF v = w THEN H ELSE held[v] BY <1>0, <1>1 DEF TypeOK
<1>4. TypeOK' BY <1>0, <1>1, <1>2 DEF TypeOK
<1>5. HeldLocked' BY <1>1, <1>2, <1>3 DEF IInv, HeldLocked
<1>6. RanHeld' BY <1>1, <1>3 DEF IInv, RanHeld
<1> QED BY <1>1, <1>4, <1>5, <1>6
        DEF IInv, EndingJustified, ActiveUnique, NoHistoryBeforeStart, CallsCounted,
            Executed, EndingIsEarned, AuditExplainsStatus

LEMMA ExecuteAttemptIInv ==
  ASSUME IInv, NEW w \in Runners, NEW a \in Attempts, NEW outcome \in {"succeeded", "failed"},
         NEW found \in BOOLEAN, ExecuteAttempt(w, a, outcome, found)
  PROVE  IInv'
<1> DEFINE e == StatusAfter(a[2], outcome, ending[w][a[1]])
<1>0. TypeOK BY DEF IInv
<1>1. /\ ran' = [ran EXCEPT ![w][a] = outcome]
      /\ ending' = [ending EXCEPT ![w][a[1]] = e]
      /\ UNCHANGED <<campaign, due, result, held, admin, audit, crashes, ops>>
  BY <1>0, AttemptParts DEF ExecuteAttempt, TypeOK
<1>2. /\ a \in held[w] /\ ran[w][a] = "pending"
      /\ calls' = calls \/ calls' = [calls EXCEPT ![a] = @ + 1]
  BY DEF ExecuteAttempt, IsNext
<1>3. a[1] \in Keys /\ a[2] \in AttemptNos /\ a = <<a[1], a[2]>> BY AttemptParts
<1>4. \/ e = "completed" /\ outcome = "succeeded"
      \/ e = "exhausted" /\ outcome = "failed" /\ a[2] = NAttempts
      \/ e = ending[w][a[1]]
  BY DEF StatusAfter
<1> HIDE DEF e
<1>5. \A v \in Runners, b \in Attempts :
        ran'[v][b] = IF v = w /\ b = a THEN outcome ELSE ran[v][b]
  BY <1>0, <1>1 DEF TypeOK
<1>6. \A v \in Runners, k \in Keys :
        ending'[v][k] = IF v = w /\ k = a[1] THEN e ELSE ending[v][k]
  BY <1>0, <1>1, <1>3 DEF TypeOK
<1>7. TypeOK'
  <2>1. ran' \in [Runners -> [Attempts -> Results]] BY <1>0, <1>1 DEF TypeOK, Results
  <2>2. e \in Statuses BY <1>0, <1>3, <1>4 DEF TypeOK, Statuses
  <2>3. ending' \in [Runners -> [Keys -> Statuses]] BY <1>0, <1>1, <1>3, <2>2 DEF TypeOK
  <2>4. calls' \in [Attempts -> Nat]
    <3>1. calls \in [Attempts -> Nat] BY <1>0 DEF TypeOK
    <3>2. CASE calls' = calls BY <3>1, <3>2
    <3>3. CASE calls' = [calls EXCEPT ![a] = @ + 1] BY <3>1, <3>3
    <3> QED BY <1>2, <3>2, <3>3
  <2> QED BY <1>0, <1>1, <2>1, <2>3, <2>4 DEF TypeOK
<1>8. HeldLocked' BY <1>1 DEF IInv, HeldLocked
<1>9. RanHeld' BY <1>1, <1>2, <1>5 DEF IInv, RanHeld
<1>10. EndingJustified'
  <2> SUFFICES ASSUME NEW v \in Runners, NEW k \in Keys
               PROVE /\ ending'[v][k] \in {"active", "completed", "exhausted"}
                     /\ ending'[v][k] = "completed"
                          => \E n \in AttemptNos : ran'[v][<<k, n>>] = "succeeded"
                     /\ ending'[v][k] = "exhausted" => ran'[v][<<k, NAttempts>>] = "failed"
    BY DEF EndingJustified
  <2>0. /\ ending[v][k] \in {"active", "completed", "exhausted"}
        /\ ending[v][k] = "completed" => \E n \in AttemptNos : ran[v][<<k, n>>] = "succeeded"
        /\ ending[v][k] = "exhausted" => ran[v][<<k, NAttempts>>] = "failed"
    BY DEF IInv, EndingJustified
  <2>1. \A n \in AttemptNos : <<k, n>> \in Attempts BY DEF Attempts
  <2>2. NAttempts \in AttemptNos BY NAttemptsAssumption DEF AttemptNos
  <2>3. \A n \in AttemptNos : ran[v][<<k, n>>] # "pending"
                                 => ran'[v][<<k, n>>] = ran[v][<<k, n>>]
    BY <1>2, <1>5, <2>1
  <2>4. CASE ending'[v][k] = ending[v][k] BY <2>0, <2>2, <2>3, <2>4
  <2>5. CASE ending'[v][k] # ending[v][k]
    <3>1. v = w /\ k = a[1] /\ ending'[v][k] = e BY <1>6, <2>5
    <3>2. ran'[v][<<k, a[2]>>] = outcome BY <1>3, <1>5, <3>1
    <3> QED BY <1>3, <1>4, <2>5, <3>1, <3>2
  <2> QED BY <2>4, <2>5
<1>11. CallsCounted'
  <2> SUFFICES ASSUME NEW b \in Attempts
               PROVE  calls'[b] <= crashes + (IF Executed(b)' THEN 1 ELSE 0)
    BY <1>1 DEF CallsCounted
  <2>0. calls[b] \in Nat /\ crashes \in Nat BY <1>0, BoundsAssumption DEF TypeOK
  <2>1. calls[b] <= crashes + (IF Executed(b) THEN 1 ELSE 0) BY DEF IInv, CallsCounted
  <2>2. CASE b = a
    <3>1. ~Executed(a) BY <1>2 DEF IInv, Executed, HeldLocked, RanHeld
    <3>2. Executed(a)' BY <1>5 DEF Executed
    <3>3. calls'[a] <= calls[a] + 1 BY <1>0, <1>2 DEF TypeOK
    <3> QED BY <1>0, <1>2, <2>0, <2>1, <2>2, <3>1, <3>2, <3>3 DEF TypeOK
  <2>3. CASE b # a
    <3>1. calls'[b] = calls[b] BY <1>0, <1>2, <2>3 DEF TypeOK
    <3>2. Executed(b)' <=> Executed(b) BY <1>1, <1>5, <2>3 DEF Executed
    <3> QED BY <2>1, <3>1, <3>2
  <2> QED BY <2>2, <2>3
<1> QED BY <1>1, <1>7, <1>8, <1>9, <1>10, <1>11
        DEF IInv, ActiveUnique, NoHistoryBeforeStart, EndingIsEarned, AuditExplainsStatus

(* What the end of a task transaction leaves of it. *)
LEMMA EndRunEffect ==
  ASSUME TypeOK, NEW w \in Runners, EndRun(w)
  PROVE  /\ held' \in [Runners -> SUBSET Attempts]
         /\ ran' \in [Runners -> [Attempts -> Results]]
         /\ ending' \in [Runners -> [Keys -> Statuses]]
         /\ \A v \in Runners : /\ held'[v] = IF v = w THEN {} ELSE held[v]
                               /\ ran'[v] = IF v = w THEN AllPending ELSE ran[v]
                               /\ ending'[v] = IF v = w THEN NoneEnding ELSE ending[v]
BY DEF TypeOK, EndRun, AllPending, NoneEnding, Results, Statuses

LEMMA CommitRunIInv == ASSUME IInv, NEW w \in Runners, CommitRun(w) PROVE IInv'
<1>0. TypeOK BY DEF IInv
<1>1. /\ result' = [a \in Attempts |-> IF a \in held[w] THEN ran[w][a] ELSE result[a]]
      /\ campaign' = [k \in Keys |-> IF k \in HeldKeys(w) THEN ending[w][k] ELSE campaign[k]]
      /\ \A a \in held[w] : ran[w][a] # "pending"
      /\ UNCHANGED <<due, admin, audit, calls, crashes, ops>>
  BY DEF CommitRun
<1>2. /\ held' \in [Runners -> SUBSET Attempts]
      /\ ran' \in [Runners -> [Attempts -> Results]]
      /\ ending' \in [Runners -> [Keys -> Statuses]]
  BY <1>0, EndRunEffect DEF CommitRun
<1>3. \A v \in Runners : /\ held'[v] = IF v = w THEN {} ELSE held[v]
                         /\ ran'[v] = IF v = w THEN AllPending ELSE ran[v]
                         /\ ending'[v] = IF v = w THEN NoneEnding ELSE ending[v]
  BY <1>0, EndRunEffect DEF CommitRun
<1>4. held[w] \subseteq Attempts BY <1>0 DEF TypeOK
<1>5. \A k \in HeldKeys(w) : k \in Keys /\ campaign[k] = "active"
  BY <1>4, AttemptParts DEF HeldKeys, IInv, HeldLocked
<1>6. \A k \in Keys : /\ k \in HeldKeys(w) => campaign'[k] = ending[w][k]
                      /\ k \notin HeldKeys(w) => campaign'[k] = campaign[k]
  BY <1>1
<1>7. \A k \in Keys : /\ campaign'[k] = "active" => campaign[k] = "active"
                      /\ campaign'[k] = "paused" => campaign[k] = "paused"
                      /\ campaign'[k] = "none" => campaign[k] = "none"
  BY <1>5, <1>6 DEF IInv, EndingJustified
<1>8. TypeOK'
  <2>1. result' \in [Attempts -> Results] BY <1>0, <1>1, <1>4 DEF TypeOK
  <2>2. campaign' \in [Keys -> Statuses] BY <1>0, <1>1 DEF TypeOK
  <2> QED BY <1>0, <1>1, <1>2, <2>1, <2>2 DEF TypeOK
<1>9. HeldLocked'
  <2> SUFFICES ASSUME NEW v \in Runners, NEW a \in held'[v]
               PROVE /\ campaign'[a[1]] = "active"
                     /\ result'[a] = "pending"
                     /\ \A u \in Runners : \A b \in held'[u] : b[1] = a[1] => u = v
    BY DEF HeldLocked
  <2>1. v # w /\ a \in held[v] BY <1>3
  <2>2. a \in Attempts /\ a[1] \in Keys BY <1>0, <2>1, AttemptParts DEF TypeOK
  <2>3. /\ campaign[a[1]] = "active" /\ result[a] = "pending"
        /\ \A u \in Runners : \A b \in held[u] : b[1] = a[1] => u = v
    BY <2>1 DEF IInv, HeldLocked
  <2>4. a[1] \notin HeldKeys(w) /\ a \notin held[w] BY <2>1, <2>3 DEF HeldKeys
  <2> QED BY <1>1, <1>3, <1>6, <2>2, <2>3, <2>4
<1>10. RanHeld' BY <1>3 DEF IInv, RanHeld, AllPending
<1>11. EndingJustified'
  <2> SUFFICES ASSUME NEW v \in Runners, NEW k \in Keys
               PROVE /\ ending'[v][k] \in {"active", "completed", "exhausted"}
                     /\ ending'[v][k] = "completed"
                          => \E n \in AttemptNos : ran'[v][<<k, n>>] = "succeeded"
                     /\ ending'[v][k] = "exhausted" => ran'[v][<<k, NAttempts>>] = "failed"
    BY DEF EndingJustified
  <2>1. CASE v = w BY <1>3, <2>1 DEF NoneEnding
  <2>2. CASE v # w BY <1>3, <2>2 DEF IInv, EndingJustified
  <2> QED BY <2>1, <2>2
<1>12. ActiveUnique' BY <1>7 DEF IInv, ActiveUnique
<1>13. NoHistoryBeforeStart'
  BY <1>0, <1>1, <1>7, RequestType DEF IInv, NoHistoryBeforeStart
<1>14. CallsCounted'
  <2>1. \A a \in Attempts : Executed(a) => Executed(a)'
    <3> TAKE a \in Attempts
    <3> HAVE Executed(a)
    <3>1. CASE a \in held[w] BY <1>1, <3>1 DEF Executed
    <3>2. CASE a \notin held[w]
      <4>1. result'[a] = result[a] BY <1>1, <3>2
      <4>2. ran[w][a] = "pending" BY <3>2 DEF IInv, RanHeld
      <4> QED BY <1>3, <4>1, <4>2 DEF Executed
    <3> QED BY <3>1, <3>2
  <2>2. \A a \in Attempts : calls[a] \in Nat /\ crashes \in Nat
    BY <1>0, BoundsAssumption DEF TypeOK
  <2> QED BY <1>1, <2>1, <2>2 DEF IInv, CallsCounted
<1>15. EndingIsEarned'
  <2> SUFFICES ASSUME NEW k \in Keys
               PROVE /\ campaign'[k] = "completed"
                          => \E n \in AttemptNos : result'[<<k, n>>] = "succeeded"
                     /\ campaign'[k] = "exhausted" => result'[<<k, NAttempts>>] = "failed"
    BY DEF EndingIsEarned
  <2>1. \A n \in AttemptNos : <<k, n>> \in Attempts BY DEF Attempts
  <2>2. NAttempts \in AttemptNos BY NAttemptsAssumption DEF AttemptNos
  <2>3. CASE k \in HeldKeys(w)
    <3>1. \A n \in AttemptNos : ran[w][<<k, n>>] # "pending"
                                   => result'[<<k, n>>] = ran[w][<<k, n>>]
      BY <1>1, <2>1 DEF IInv, RanHeld
    <3> QED BY <1>6, <2>2, <2>3, <3>1 DEF IInv, EndingJustified
  <2>4. CASE k \notin HeldKeys(w)
    <3>1. \A n \in AttemptNos : result'[<<k, n>>] = result[<<k, n>>]
      <4> TAKE n \in AttemptNos
      <4>1. <<k, n>> \notin held[w] BY <2>4 DEF HeldKeys
      <4> QED BY <1>1, <2>1, <4>1
    <3> QED BY <1>6, <2>2, <2>4, <3>1 DEF IInv, EndingIsEarned
  <2> QED BY <2>3, <2>4
<1>16. AuditExplainsStatus' BY <1>1, <1>7 DEF IInv, AuditExplainsStatus
<1> QED BY <1>8, <1>9, <1>10, <1>11, <1>12, <1>13, <1>14, <1>15, <1>16 DEF IInv

LEMMA CrashRunIInv == ASSUME IInv, NEW w \in Runners, CrashRun(w) PROVE IInv'
<1>0. TypeOK BY DEF IInv
<1>1. /\ crashes' = crashes + 1 /\ crashes < MaxCrashes
      /\ UNCHANGED <<campaign, due, result, admin, audit, calls, ops>>
  BY DEF CrashRun
<1>2. /\ held' \in [Runners -> SUBSET Attempts]
      /\ ran' \in [Runners -> [Attempts -> Results]]
      /\ ending' \in [Runners -> [Keys -> Statuses]]
  BY <1>0, EndRunEffect DEF CrashRun
<1>3. \A v \in Runners : /\ held'[v] = IF v = w THEN {} ELSE held[v]
                         /\ ran'[v] = IF v = w THEN AllPending ELSE ran[v]
                         /\ ending'[v] = IF v = w THEN NoneEnding ELSE ending[v]
  BY <1>0, EndRunEffect DEF CrashRun
<1>4. crashes \in Nat /\ crashes' \in 0..MaxCrashes BY <1>0, <1>1, BoundsAssumption DEF TypeOK
<1>5. TypeOK' BY <1>0, <1>1, <1>2, <1>4 DEF TypeOK
<1>6. HeldLocked' BY <1>1, <1>3 DEF IInv, HeldLocked
<1>7. RanHeld' BY <1>3 DEF IInv, RanHeld, AllPending
<1>8. EndingJustified'
  <2> SUFFICES ASSUME NEW v \in Runners, NEW k \in Keys
               PROVE /\ ending'[v][k] \in {"active", "completed", "exhausted"}
                     /\ ending'[v][k] = "completed"
                          => \E n \in AttemptNos : ran'[v][<<k, n>>] = "succeeded"
                     /\ ending'[v][k] = "exhausted" => ran'[v][<<k, NAttempts>>] = "failed"
    BY DEF EndingJustified
  <2>1. CASE v = w BY <1>3, <2>1 DEF NoneEnding
  <2>2. CASE v # w BY <1>3, <2>2 DEF IInv, EndingJustified
  <2> QED BY <2>1, <2>2
<1>9. CallsCounted'
  <2> SUFFICES ASSUME NEW a \in Attempts PROVE calls[a] <= crashes + 1
    BY <1>0, <1>1, <1>4 DEF CallsCounted, TypeOK
  <2>1. calls[a] \in Nat BY <1>0 DEF TypeOK
  <2> QED BY <1>4, <2>1 DEF IInv, CallsCounted
<1> QED BY <1>1, <1>5, <1>6, <1>7, <1>8, <1>9
        DEF IInv, ActiveUnique, NoHistoryBeforeStart, EndingIsEarned, AuditExplainsStatus

LEMMA RequestOpIInv ==
  ASSUME IInv, NEW p \in Admins, NEW k \in Keys, NEW op \in Ops, RequestOp(p, k, op)
  PROVE  IInv'
<1>0. TypeOK BY DEF IInv
<1> DEFINE q == [op |-> op, key |-> k, read |-> audit[k]]
<1>1. /\ admin' = [admin EXCEPT ![p] = q] /\ ops' = ops + 1 /\ ops < MaxOps
      /\ campaign[k] # "none"
      /\ UNCHANGED <<campaign, due, result, held, ran, ending, audit, calls, crashes>>
  BY DEF RequestOp, MayPause, MayResume
<1>2. q \in [op : Ops, key : Keys, read : Seq(Ops)] /\ q.key = k BY <1>0 DEF TypeOK
<1> HIDE DEF q
<1>3. TypeOK' BY <1>0, <1>1, <1>2, BoundsAssumption DEF TypeOK
<1>4. NoHistoryBeforeStart' BY <1>0, <1>1, <1>2 DEF IInv, NoHistoryBeforeStart, TypeOK
<1>5. HeldLocked' /\ RanHeld' /\ EndingJustified'
  BY <1>1 DEF IInv, HeldLocked, RanHeld, EndingJustified
<1>6. ActiveUnique' /\ CallsCounted' BY <1>1 DEF IInv, ActiveUnique, CallsCounted, Executed
<1>7. EndingIsEarned' /\ AuditExplainsStatus'
  BY <1>1 DEF IInv, EndingIsEarned, AuditExplainsStatus
<1> QED BY <1>3, <1>4, <1>5, <1>6, <1>7 DEF IInv

LEMMA CommitOpIInv == ASSUME IInv, NEW p \in Admins, CommitOp(p) PROVE IInv'
<1> DEFINE k == admin[p].key
           o == admin[p].op
           h == Append(admin[p].read, o)
           new == IF o = "pause" THEN "paused" ELSE "active"
<1>0. TypeOK BY DEF IInv
<1>1. /\ admin[p] # Idle
      /\ \A w \in Runners : \A a \in held[w] : a[1] # k
      /\ admin' = [admin EXCEPT ![p] = Idle]
      /\ UNCHANGED <<due, result, held, ran, ending, calls, crashes, ops>>
      /\ \/ UNCHANGED <<campaign, audit>>
         \/ /\ campaign' = [campaign EXCEPT ![k] = new]
            /\ audit' = [audit EXCEPT ![k] = h]
            /\ o = "resume" => ActiveFor(SubOf[k]) \ {k} = {}
  BY DEF CommitOp, CampaignLocked, Appended
<1>2. o \in Ops /\ k \in Keys /\ campaign[k] # "none"
      /\ h \in Seq(Ops) /\ h # <<>> /\ Last(h) = o
  BY <1>0, <1>1, RequestType, AppendedLast DEF IInv, NoHistoryBeforeStart
<1>3. new \in Statuses /\ new \in {"paused", "active"}
      /\ (new = "paused" => Last(h) = "pause") /\ (new = "active" => Last(h) = "resume")
  BY <1>2 DEF Statuses, Ops
<1>4. admin' \in [Admins -> {Idle} \cup [op : Ops, key : Keys, read : Seq(Ops)]]
      /\ \A q \in Admins : admin'[q] = IF q = p THEN Idle ELSE admin[q]
  BY <1>0, <1>1 DEF TypeOK
<1>5. RanHeld' /\ EndingJustified' /\ CallsCounted'
  BY <1>1 DEF IInv, RanHeld, EndingJustified, CallsCounted, Executed
<1>6. CASE UNCHANGED <<campaign, audit>>
  <2>1. TypeOK' BY <1>0, <1>1, <1>4, <1>6 DEF TypeOK
  <2>2. NoHistoryBeforeStart' BY <1>4, <1>6 DEF IInv, NoHistoryBeforeStart
  <2>3. HeldLocked' /\ ActiveUnique' BY <1>1, <1>6 DEF IInv, HeldLocked, ActiveUnique
  <2>4. EndingIsEarned' /\ AuditExplainsStatus'
    BY <1>1, <1>6 DEF IInv, EndingIsEarned, AuditExplainsStatus
  <2> QED BY <1>5, <2>1, <2>2, <2>3, <2>4 DEF IInv
<1>7. CASE /\ campaign' = [campaign EXCEPT ![k] = new]
           /\ audit' = [audit EXCEPT ![k] = h]
           /\ o = "resume" => ActiveFor(SubOf[k]) \ {k} = {}
  <2> HIDE DEF h
  <2>0. /\ \A l \in Keys : campaign'[l] = IF l = k THEN new ELSE campaign[l]
        /\ \A l \in Keys : audit'[l] = IF l = k THEN h ELSE audit[l]
    BY <1>0, <1>2, <1>7 DEF TypeOK
  <2>1. TypeOK'
    <3>1. campaign' \in [Keys -> Statuses] BY <1>0, <1>2, <1>3, <1>7 DEF TypeOK
    <3>2. audit' \in [Keys -> Seq(Ops)] BY <1>0, <1>2, <1>7 DEF TypeOK
    <3> QED BY <1>0, <1>1, <1>4, <3>1, <3>2 DEF TypeOK
  <2>2. HeldLocked'
    <3> SUFFICES ASSUME NEW w \in Runners, NEW a \in held[w]
                 PROVE /\ campaign'[a[1]] = "active" /\ result[a] = "pending"
                       /\ \A v \in Runners : \A b \in held[v] : b[1] = a[1] => v = w
      BY <1>1 DEF HeldLocked
    <3>1. a[1] # k /\ a[1] \in Keys BY <1>0, <1>1, AttemptParts DEF TypeOK
    <3> HIDE DEF k, new
    <3>2. campaign'[a[1]] = campaign[a[1]] BY <2>0, <3>1
    <3> QED BY <3>2 DEF IInv, HeldLocked
  <2>3. ActiveUnique'
    <3>1. CASE new = "paused"
      <4>1. \A l \in Keys : campaign'[l] = "active" => campaign[l] = "active" BY <2>0, <3>1
      <4> QED BY <4>1 DEF IInv, ActiveUnique
    <3>2. CASE new = "active"
      <4>1. o = "resume" BY <1>2, <3>2 DEF Ops
      <4>2. \A l \in Keys : campaign[l] = "active" /\ SubOf[l] = SubOf[k] => l = k
        BY <1>7, <4>1 DEF ActiveFor
      <4>3. \A l \in Keys : campaign'[l] = "active" => l = k \/ campaign[l] = "active"
        BY <2>0
      <4> HIDE DEF k, o, new
      <4> QED BY <4>2, <4>3 DEF IInv, ActiveUnique
    <3> QED BY <1>3, <3>1, <3>2
  <2> HIDE DEF k, o, new
  <2>4. NoHistoryBeforeStart'
    <3>1. \A l \in Keys : campaign'[l] = "none" => campaign[l] = "none" /\ l # k
      BY <1>3, <2>0
    <3>2. \A l \in Keys : campaign'[l] = "none" => audit'[l] = <<>>
      BY <2>0, <3>1 DEF IInv, NoHistoryBeforeStart
    <3>3. \A q \in Admins : admin'[q] # Idle => campaign'[admin'[q].key] # "none"
      BY <1>0, <1>4, <3>1, RequestType DEF IInv, NoHistoryBeforeStart
    <3> QED BY <3>2, <3>3 DEF NoHistoryBeforeStart
  <2>5. EndingIsEarned' BY <1>1, <1>3, <2>0 DEF IInv, EndingIsEarned
  <2>6. AuditExplainsStatus'
    <3> SUFFICES ASSUME NEW l \in Keys
                 PROVE /\ campaign'[l] = "paused" => audit'[l] # <<>> /\ Last(audit'[l]) = "pause"
                       /\ campaign'[l] = "active" /\ audit'[l] # <<>>
                            => Last(audit'[l]) = "resume"
      BY DEF AuditExplainsStatus, Last
    <3>1. CASE l = k BY <1>2, <1>3, <2>0, <3>1
    <3>2. CASE l # k BY <2>0, <3>2 DEF IInv, AuditExplainsStatus
    <3> QED BY <3>1, <3>2
  <2> QED BY <1>5, <2>1, <2>2, <2>3, <2>4, <2>5, <2>6 DEF IInv
<1> QED BY <1>1, <1>6, <1>7

LEMMA NextIInv == IInv /\ [Next]_vars => IInv'
<1> SUFFICES ASSUME IInv, [Next]_vars PROVE IInv' OBVIOUS
<1>1. CASE UNCHANGED vars BY <1>1, StutterIInv
<1>2. ASSUME NEW k \in Keys, StartCampaign(k) \/ AttemptFallsDue(k) PROVE IInv'
  BY <1>2, StartCampaignIInv, AttemptFallsDueIInv
<1>3. ASSUME NEW w \in Runners, RunnerStep(w) \/ CrashRun(w) PROVE IInv'
  BY <1>3, SelectDueIInv, ExecuteAttemptIInv, CommitRunIInv, CrashRunIInv
     DEF RunnerStep, Execute
<1>4. ASSUME NEW p \in Admins,
             (\E k \in Keys, op \in Ops : RequestOp(p, k, op)) \/ CommitOp(p)
      PROVE IInv'
  BY <1>4, RequestOpIInv, CommitOpIInv
<1> QED BY <1>1, <1>2, <1>3, <1>4 DEF Next, Ops

(* The inductive invariant holds in every reachable state. *)
THEOREM Invariance == Spec => []IInv
BY InitIInv, NextIInv, PTL DEF Spec

-----------------------------------------------------------------------------

(* No customer is dunned twice at once (start_campaign, resume_campaign    *)
(* and the partial unique index).                                          *)
THEOREM OneActive == Spec => []OneActiveCampaign
<1>1. IInv => OneActiveCampaign
  <2> SUFFICES ASSUME IInv, NEW s \in Subs PROVE Cardinality(ActiveFor(s)) <= 1
    BY DEF OneActiveCampaign
  <2>1. \A x, y \in ActiveFor(s) : x = y BY DEF IInv, ActiveUnique, ActiveFor
  <2> QED BY <2>1, AtMostOne
<1> QED BY <1>1, Invariance, PTL

(* An attempt is charged at most once more than the task has died.         *)
THEOREM RetriesBounded == Spec => []RetriesPerAttempt
<1>1. IInv => RetriesPerAttempt
  <2> SUFFICES ASSUME IInv, NEW a \in Attempts PROVE calls[a] <= 1 + crashes
    BY DEF RetriesPerAttempt
  <2>1. calls[a] \in Nat /\ crashes \in Nat BY BoundsAssumption DEF IInv, TypeOK
  <2> QED BY <2>1 DEF IInv, CallsCounted
<1> QED BY <1>1, Invariance, PTL

(* A campaign is completed by a success and exhausted by its last failure. *)
THEOREM EndingEarned == Spec => []EndingIsEarned
<1>1. IInv => EndingIsEarned BY DEF IInv
<1> QED BY <1>1, Invariance, PTL

(* The operator history's last entry explains the campaign's status,       *)
(* whatever the operators overwrite of each other.                         *)
THEOREM AuditExplains == Spec => []AuditExplainsStatus
<1>1. IInv => AuditExplainsStatus BY DEF IInv
<1> QED BY <1>1, Invariance, PTL

(* The provider is asked to charge only while the campaign's committed     *)
(* status is active: a committed pause holds.                              *)
THEOREM PauseHolds == Spec => NoChargeWhilePaused
<1>1. IInv /\ [Next]_vars
        => [\A a \in Attempts : calls'[a] # calls[a] => campaign[a[1]] = "active"]_vars
  <2> SUFFICES ASSUME IInv, [Next]_vars, NEW a \in Attempts, calls'[a] # calls[a]
               PROVE  campaign[a[1]] = "active"
    OBVIOUS
  <2>0. TypeOK BY DEF IInv
  <2>1. PICK w \in Runners, b \in Attempts, outcome \in {"succeeded", "failed"},
             found \in BOOLEAN : ExecuteAttempt(w, b, outcome, found)
    BY DEF Next, vars, StartCampaign, AttemptFallsDue, RunnerStep, SelectDue, Execute,
           CommitRun, CrashRun, RequestOp, CommitOp
  <2>2. b = a BY <2>0, <2>1 DEF ExecuteAttempt, TypeOK
  <2>3. a \in held[w] BY <2>1, <2>2 DEF ExecuteAttempt, IsNext
  <2> QED BY <2>3 DEF IInv, HeldLocked
<1> QED BY <1>1, Invariance, PTL DEF Spec, NoChargeWhilePaused

(* A campaign that has ended stays so unless an operator's request that    *)
(* was under way when it ended overwrites the status.                      *)
THEOREM EndFinal == Spec => EndIsFinal
<1>1. IInv /\ [Next]_vars
        => [\A k \in Keys :
              campaign[k] \in {"completed", "exhausted"} /\ (\A p \in Admins : admin[p].key # k)
                => campaign'[k] = campaign[k]]_vars
  <2> SUFFICES ASSUME IInv, [Next]_vars, NEW k \in Keys,
                      campaign[k] \in {"completed", "exhausted"},
                      \A p \in Admins : admin[p].key # k
               PROVE  campaign'[k] = campaign[k]
    OBVIOUS
  <2>0. TypeOK BY DEF IInv
  <2>1. CASE campaign' = campaign BY <2>1
  <2>2. ASSUME NEW l \in Keys, StartCampaign(l) PROVE campaign'[k] = campaign[k]
    BY <2>0, <2>2 DEF StartCampaign, Known, TypeOK
  <2>3. ASSUME NEW w \in Runners, CommitRun(w) PROVE campaign'[k] = campaign[k]
    <3>1. k \notin HeldKeys(w) BY DEF IInv, HeldLocked, HeldKeys
    <3> QED BY <2>3, <3>1 DEF CommitRun
  <2>4. ASSUME NEW p \in Admins, CommitOp(p) PROVE campaign'[k] = campaign[k]
    BY <2>0, <2>4 DEF CommitOp, TypeOK
  <2> QED BY <2>1, <2>2, <2>3, <2>4
          DEF Next, vars, AttemptFallsDue, RunnerStep, SelectDue, Execute, ExecuteAttempt,
              CrashRun, RequestOp
<1> QED BY <1>1, Invariance, PTL DEF Spec, EndIsFinal
=============================================================================
