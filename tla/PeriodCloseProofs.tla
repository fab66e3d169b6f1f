------------------------- MODULE PeriodCloseProofs -------------------------
(***************************************************************************)
(* Theorems about PeriodClose, for any periods, prices and usage, and any  *)
(* number of copies of the tasks, of retries and of failures.  Nothing is  *)
(* assumed about the total of a close: it is whatever the sum over the     *)
(* aggregates was when they were read.                                     *)
(***************************************************************************)
EXTENDS PeriodClose, FiniteSetTheorems, TLAPS

(* The fields of the records. *)
IsClose(t) ==
  t = [st |-> t.st, key |-> t.key, tries |-> t.tries, hours |-> t.hours, total |-> t.total]
IsSync(t) ==
  t = [st |-> t.st, key |-> t.key, tries |-> t.tries, amount |-> t.amount, ext |-> t.ext]
IsInvoice(t) ==
  t = [total |-> t.total, hours |-> t.hours, ext |-> t.ext]

TypeOK ==
  /\ close = [c \in Closes |-> close[c]] /\ sync = [s \in Syncs |-> sync[s]]
  /\ invoice = [k \in Keys |-> invoice[k]]
  /\ ledger = [k \in Keys |-> ledger[k]] /\ outbox = [k \in Keys |-> outbox[k]]
  /\ \A c \in Closes : IsClose(close[c])
  /\ \A s \in Syncs : IsSync(sync[s])

(* A close task: it reads the hours of its period, inserts its draft while *)
(* the key has no invoice, and has committed only if there is one.         *)
CloseOK(t) ==
  /\ t.st \in {"none", "queued", "read", "drafted", "committed", "done", "failed"}
  /\ t.st # "none" => t.key \in Keys
  /\ t.st \in {"read", "drafted"} => t.hours = PeriodHours(t.key)
  /\ t.st = "drafted" => ~Issued(t.key)
  /\ t.st \in {"committed", "done"} => Issued(t.key)

(* The unique index: one draft of a key. *)
DraftUnique ==
  \A c, d \in Closes :
    (close[c].st = "drafted" /\ close[d].st = "drafted" /\ close[c].key = close[d].key) => c = d

(* A sync task: its invoice is issued, and it sends the invoice's total. *)
SyncOK(t) ==
  /\ t.st \in {"none", "queued", "read", "customer", "created", "done", "failed"}
  /\ t.st # "none" => t.key \in Keys /\ Issued(t.key)
  /\ t.st \in {"read", "customer", "created"} => t.amount = invoice[t.key].total

(* An invoice bills the hours of its period. *)
InvoiceOK(k) == Issued(k) => IsInvoice(invoice[k]) /\ invoice[k].hours = PeriodHours(k)

(* What is charged, announced and registered for a key. *)
Billed(k) ==
  IF Issued(k)
    THEN /\ ledger[k] = <<invoice[k].total>> /\ outbox[k] = <<invoice[k].total>>
         /\ \A p \in provider : p.key = k => p.amount = invoice[k].total
    ELSE /\ ledger[k] = <<>> /\ outbox[k] = <<>>
         /\ \A p \in provider : p.key # k

(* The provider's idempotency: one invoice of a key. *)
OneRegistered == \A p, q \in provider : p.key = q.key => p = q

IInv == /\ TypeOK
        /\ \A c \in Closes : CloseOK(close[c])
        /\ DraftUnique
        /\ \A s \in Syncs : SyncOK(sync[s])
        /\ \A k \in Keys : InvoiceOK(k) /\ Billed(k)
        /\ OneRegistered

-----------------------------------------------------------------------------
(* Steps of a close.                                                       *)

(* A task that only changes its status. *)
LEMMA CloseStatus ==
  ASSUME NEW t, IsClose(t), NEW x, NEW u, u = [t EXCEPT !.st = x]
  PROVE  IsClose(u) /\ u.st = x /\ u.key = t.key /\ u.hours = t.hours /\ u.total = t.total
BY DEF IsClose

(* A close task becomes u, and nothing else changes. *)
LEMMA CloseMoves ==
  ASSUME IInv, NEW c \in Closes, NEW u, IsClose(u), CloseOK(u),
         close' = [close EXCEPT ![c] = u],
         u.st = "drafted" =>
           \A d \in Closes \ {c} : ~(close[d].st = "drafted" /\ close[d].key = u.key),
         UNCHANGED <<invoice, ledger, outbox, sync, provider>>
  PROVE  IInv'
<1>1. /\ close' = [d \in Closes |-> close'[d]]
      /\ \A d \in Closes : close'[d] = IF d = c THEN u ELSE close[d]
  BY DEF IInv, TypeOK
<1>2. \A k : Issued(k)' <=> Issued(k) BY DEF Issued
<1>4. \A d \in Closes : CloseOK(close[d])' BY <1>1, <1>2 DEF IInv, CloseOK
<1>5. TypeOK' BY <1>1 DEF IInv, TypeOK
<1>6. DraftUnique'
  <2> SUFFICES ASSUME NEW a \in Closes, NEW b \in Closes, a # b,
                      close'[a].st = "drafted", close'[b].st = "drafted", close'[a].key = close'[b].key
               PROVE  FALSE
    BY DEF DraftUnique
  <2>1. CASE a = c BY <1>1, <2>1
  <2>2. CASE b = c BY <1>1, <2>2
  <2>3. CASE a # c /\ b # c BY <1>1, <2>3 DEF IInv, DraftUnique
  <2> QED BY <2>1, <2>2, <2>3
<1>7. \A s \in Syncs : SyncOK(sync[s])' BY <1>2 DEF IInv, SyncOK
<1>8. \A k \in Keys : InvoiceOK(k)' /\ Billed(k)' BY <1>2 DEF IInv, InvoiceOK, Billed
<1>9. OneRegistered' BY DEF IInv, OneRegistered
<1> QED BY <1>4, <1>5, <1>6, <1>7, <1>8, <1>9 DEF IInv

(* The common case: only the status changes, and not to drafted. *)
LEMMA CloseMovesTo ==
  ASSUME IInv, NEW c \in Closes, close[c].st # "none",
         NEW x \in {"queued", "committed", "done", "failed"},
         x \in {"committed", "done"} => Issued(close[c].key),
         close' = [close EXCEPT ![c].st = x],
         UNCHANGED <<invoice, ledger, outbox, sync, provider>>
  PROVE  IInv'
<1> DEFINE u == [close[c] EXCEPT !.st = x]
<1>1. IsClose(close[c]) /\ CloseOK(close[c]) BY DEF IInv, TypeOK
<1>2. IsClose(u) /\ u.st = x /\ u.key = close[c].key BY <1>1, CloseStatus
<1>3. close' = [close EXCEPT ![c] = u] OBVIOUS
<1> HIDE DEF u
<1>4. CloseOK(u) BY <1>1, <1>2 DEF CloseOK
<1> QED BY <1>2, <1>3, <1>4, CloseMoves

(* A task that raised. *)
LEMMA RetriedClose ==
  ASSUME IInv, NEW c \in Closes, close[c].st # "none",
         close' = [close EXCEPT ![c] = Retried(close[c])],
         UNCHANGED <<invoice, ledger, outbox, sync, provider>>
  PROVE  IInv'
<1> DEFINE u == Retried(close[c])
<1>1. IsClose(close[c]) /\ CloseOK(close[c]) BY DEF IInv, TypeOK
<1>2. CASE close[c].tries < MaxRetries
  <2>1. u = [close[c] EXCEPT !.st = "queued", !.tries = @ + 1] BY <1>2 DEF Retried
  <2>2. IsClose(u) /\ u.st = "queued" /\ u.key = close[c].key BY <1>1, <2>1 DEF IsClose
  <2> HIDE DEF u
  <2>3. CloseOK(u) BY <1>1, <2>2 DEF CloseOK
  <2> QED BY <2>2, <2>3, CloseMoves DEF u
<1>3. CASE ~(close[c].tries < MaxRetries)
  <2>1. u = [close[c] EXCEPT !.st = "failed"] BY <1>3 DEF Retried
  <2> QED BY <2>1, CloseMovesTo
<1> QED BY <1>2, <1>3

(* A close is asked for. *)
LEMMA SubmitIInv ==
  ASSUME IInv, NEW c \in Closes, NEW k \in Keys, Submit(c, k)
  PROVE  IInv'
<1>0. PICK u : u = [NoClose EXCEPT !.st = "queued", !.key = k] OBVIOUS
<1>1. IsClose(u) /\ u.st = "queued" /\ u.key = k BY <1>0 DEF NoClose, IsClose
<1>2. /\ close' = [close EXCEPT ![c] = u]
      /\ UNCHANGED <<invoice, ledger, outbox, sync, provider>>
  BY <1>0 DEF Submit
<1>3. CloseOK(u) BY <1>1 DEF CloseOK
<1> QED BY <1>1, <1>2, <1>3, CloseMoves

(* The key is looked up, and the aggregates are read. *)
LEMMA CloseBeginIInv ==
  ASSUME IInv, NEW c \in Closes, CloseBegin(c)
  PROVE  IInv'
<1> DEFINE k == close[c].key
<1>1. IsClose(close[c]) /\ CloseOK(close[c]) /\ close[c].st = "queued"
  BY DEF IInv, TypeOK, CloseBegin
<1>2. UNCHANGED <<invoice, ledger, outbox, sync, provider>> BY DEF CloseBegin
<1>3. CASE Issued(k)
  <2>1. close' = [close EXCEPT ![c].st = "committed"] BY <1>3 DEF CloseBegin
  <2> QED BY <1>1, <1>2, <1>3, <2>1, CloseMovesTo
<1>4. CASE ~Issued(k)
  <2>0. PICK total, hours, u :
               /\ total = TotalCents(k) /\ hours = PeriodHours(k)
               /\ u = [close[c] EXCEPT !.st = "read", !.hours = hours, !.total = total]
    OBVIOUS
  <2>1. close' = [close EXCEPT ![c] = u] BY <1>4, <2>0 DEF CloseBegin
  <2>2. IsClose(u) /\ u.st = "read" /\ u.key = k /\ u.hours = PeriodHours(k)
    BY <1>1, <2>0 DEF IsClose
  <2>3. CloseOK(u) BY <1>1, <2>2 DEF CloseOK
  <2> QED BY <1>2, <2>1, <2>2, <2>3, CloseMoves
<1> QED BY <1>3, <1>4

(* The draft is inserted. *)
LEMMA DraftIInv ==
  ASSUME IInv, NEW c \in Closes, Draft(c)
  PROVE  IInv'
<1> DEFINE u == [close[c] EXCEPT !.st = "drafted"]
<1>1. /\ IsClose(close[c]) /\ CloseOK(close[c]) /\ close[c].st = "read"
      /\ ~KeyInserted(c) /\ ~Issued(close[c].key)
      /\ close' = [close EXCEPT ![c] = u] /\ UNCHANGED <<invoice, ledger, outbox, sync, provider>>
  BY DEF IInv, TypeOK, Draft
<1>2. IsClose(u) /\ u.st = "drafted" /\ u.key = close[c].key /\ u.hours = close[c].hours
  BY <1>1, CloseStatus
<1> HIDE DEF u
<1>3. CloseOK(u) BY <1>1, <1>2 DEF CloseOK
<1>4. \A d \in Closes \ {c} : ~(close[d].st = "drafted" /\ close[d].key = u.key)
  BY <1>1, <1>2 DEF KeyInserted
<1> QED BY <1>1, <1>2, <1>3, <1>4, CloseMoves

(* The invoice is found after all. *)
LEMMA DraftFindsIInv ==
  ASSUME IInv, NEW c \in Closes, DraftFindsInvoice(c) \/ DraftConflicts(c)
  PROVE  IInv'
<1>1. CASE DraftFindsInvoice(c) BY <1>1, CloseMovesTo DEF DraftFindsInvoice
<1>2. CASE DraftConflicts(c) BY <1>2, RetriedClose DEF DraftConflicts
<1> QED BY <1>1, <1>2

(* The task raises, or its process dies. *)
LEMMA CloseFailsIInv ==
  ASSUME IInv, NEW c \in Closes, CloseFails(c)
  PROVE  IInv'
<1>1. close[c].st # "none" /\ UNCHANGED <<invoice, ledger, outbox, sync, provider>>
  BY DEF CloseFails, CloseRunning
<1>2. CASE close' = [close EXCEPT ![c] = Retried(close[c])] BY <1>1, <1>2, RetriedClose
<1>3. CASE close' = [close EXCEPT ![c].st = "queued"] BY <1>1, <1>3, CloseMovesTo
<1>4. CASE close' = [close EXCEPT ![c].st = "failed"] BY <1>1, <1>4, CloseMovesTo
<1> QED BY <1>2, <1>3, <1>4 DEF CloseFails

(* The commit: the key had no invoice, no charge and no event, and no      *)
(* other task has a draft of it.                                           *)
LEMMA CloseCommitIInv ==
  ASSUME IInv, NEW c \in Closes, CloseCommit(c)
  PROVE  IInv'
<1>0. PICK k, u : k = close[c].key /\ u = [close[c] EXCEPT !.st = "committed"] OBVIOUS
<1> DEFINE total == close[c].total
           inv == [total |-> total, hours |-> close[c].hours, ext |-> 0]
<1>1. /\ IsClose(close[c]) /\ CloseOK(close[c]) /\ close[c].st = "drafted"
      /\ invoice' = [invoice EXCEPT ![k] = inv]
      /\ ledger' = [ledger EXCEPT ![k] = Append(ledger[k], total)]
      /\ outbox' = [outbox EXCEPT ![k] = Append(outbox[k], total)]
      /\ close' = [close EXCEPT ![c] = u]
      /\ sync' = sync /\ provider' = provider
  BY <1>0 DEF IInv, TypeOK, CloseCommit
<1>2. k \in Keys /\ ~Issued(k) /\ close[c].hours = PeriodHours(k) BY <1>0, <1>1 DEF CloseOK
<1>3. IsClose(u) /\ u.st = "committed" /\ u.key = k BY <1>0, <1>1, CloseStatus
<1>4. inv # None /\ IsInvoice(inv) /\ inv.total = total /\ inv.hours = PeriodHours(k)
  <2>1. inv # None BY DEF None
  <2>2. IsInvoice(inv) BY DEF IsInvoice
  <2> QED BY <1>2, <2>1, <2>2
<1>5. ledger[k] = <<>> /\ outbox[k] = <<>> /\ \A p \in provider : p.key # k
  BY <1>2 DEF IInv, Billed
<1>6. Append(<<>>, total) = <<total>> OBVIOUS
<1> HIDE DEF inv, total
<1>7. /\ invoice' = [l \in Keys |-> invoice'[l]] /\ ledger' = [l \in Keys |-> ledger'[l]]
      /\ outbox' = [l \in Keys |-> outbox'[l]]
      /\ \A l \in Keys : /\ invoice'[l] = IF l = k THEN inv ELSE invoice[l]
                         /\ ledger'[l] = IF l = k THEN <<total>> ELSE ledger[l]
                         /\ outbox'[l] = IF l = k THEN <<total>> ELSE outbox[l]
  BY <1>1, <1>2, <1>5, <1>6 DEF IInv, TypeOK
<1>8. /\ close' = [d \in Closes |-> close'[d]]
      /\ \A d \in Closes : close'[d] = IF d = c THEN u ELSE close[d]
  BY <1>1 DEF IInv, TypeOK
<1>9. TypeOK' BY <1>1, <1>3, <1>7, <1>8 DEF IInv, TypeOK
<1>10. Issued(k)' /\ \A l \in Keys : l # k => (Issued(l)' <=> Issued(l))
  BY <1>2, <1>4, <1>7 DEF Issued
<1>11. ASSUME NEW d \in Closes PROVE CloseOK(close[d])'
  <2>1. CASE d = c BY <1>2, <1>3, <1>8, <1>10, <2>1 DEF CloseOK
  <2>2. CASE d # c
    <3>1. close'[d] = close[d] /\ CloseOK(close[d]) BY <1>8, <2>2 DEF IInv
    <3>2. close[d].st = "drafted" => close[d].key # k
      BY <1>0, <1>1, <2>2 DEF IInv, DraftUnique
    <3> QED BY <1>10, <3>1, <3>2 DEF CloseOK
  <2> QED BY <2>1, <2>2
<1>12. DraftUnique' BY <1>3, <1>8 DEF IInv, DraftUnique
<1>13. ASSUME NEW s \in Syncs PROVE SyncOK(sync[s])'
  <2>1. SyncOK(sync[s]) /\ sync'[s] = sync[s] BY <1>1 DEF IInv
  <2>2. sync[s].st # "none" => sync[s].key # k BY <1>2, <2>1 DEF SyncOK
  <2> QED BY <1>7, <1>10, <2>1, <2>2 DEF SyncOK
<1>14. ASSUME NEW l \in Keys PROVE InvoiceOK(l)' /\ Billed(l)'
  <2>1. CASE l = k BY <1>1, <1>2, <1>4, <1>5, <1>7, <1>10, <2>1 DEF InvoiceOK, Billed
  <2>2. CASE l # k BY <1>1, <1>7, <1>10, <2>2 DEF IInv, InvoiceOK, Billed
  <2> QED BY <2>1, <2>2
<1>15. OneRegistered' BY <1>1 DEF IInv, OneRegistered
<1> QED BY <1>9, <1>11, <1>12, <1>13, <1>14, <1>15 DEF IInv

-----------------------------------------------------------------------------
(* Steps of a sync.                                                        *)

(* A task that only changes its status. *)
LEMMA SyncStatus ==
  ASSUME NEW t, IsSync(t), NEW x, NEW u, u = [t EXCEPT !.st = x]
  PROVE  IsSync(u) /\ u.st = x /\ u.key = t.key /\ u.amount = t.amount
BY DEF IsSync

(* A sync task becomes u, and nothing else changes. *)
LEMMA SyncMoves ==
  ASSUME IInv, NEW s \in Syncs, NEW u, IsSync(u), SyncOK(u),
         sync' = [sync EXCEPT ![s] = u],
         UNCHANGED <<invoice, ledger, outbox, close, provider>>
  PROVE  IInv'
<1>1. /\ sync' = [r \in Syncs |-> sync'[r]]
      /\ \A r \in Syncs : sync'[r] = IF r = s THEN u ELSE sync[r]
  BY DEF IInv, TypeOK
<1>2. \A k : Issued(k)' <=> Issued(k) BY DEF Issued
<1>3. TypeOK' BY <1>1 DEF IInv, TypeOK
<1>4. \A c \in Closes : CloseOK(close[c])' BY <1>2 DEF IInv, CloseOK
<1>5. DraftUnique' BY DEF IInv, DraftUnique
<1>6. \A r \in Syncs : SyncOK(sync[r])' BY <1>1, <1>2 DEF IInv, SyncOK
<1>7. \A k \in Keys : InvoiceOK(k)' /\ Billed(k)' BY <1>2 DEF IInv, InvoiceOK, Billed
<1>8. OneRegistered' BY DEF IInv, OneRegistered
<1> QED BY <1>3, <1>4, <1>5, <1>6, <1>7, <1>8 DEF IInv

(* The common case: only the status changes. *)
LEMMA SyncMovesTo ==
  ASSUME IInv, NEW s \in Syncs, sync[s].st # "none",
         NEW x \in {"queued", "customer", "done", "failed"},
         x = "customer" => sync[s].st = "read",
         sync' = [sync EXCEPT ![s].st = x],
         UNCHANGED <<invoice, ledger, outbox, close, provider>>
  PROVE  IInv'
<1>0. PICK u : u = [sync[s] EXCEPT !.st = x] OBVIOUS
<1>1. IsSync(sync[s]) /\ SyncOK(sync[s]) BY DEF IInv, TypeOK
<1>2. IsSync(u) /\ u.st = x /\ u.key = sync[s].key /\ u.amount = sync[s].amount
  BY <1>0, <1>1, SyncStatus
<1>3. sync' = [sync EXCEPT ![s] = u] BY <1>0
<1>4. SyncOK(u) BY <1>1, <1>2 DEF SyncOK
<1> QED BY <1>2, <1>3, <1>4, SyncMoves

(* The close is acknowledged and its sync is put on the queue: the close   *)
(* has committed, so the invoice the sync will look up is there.           *)
LEMMA DelayIInv ==
  ASSUME IInv, NEW c \in Closes, NEW s \in Syncs, Delay(c, s)
  PROVE  IInv'
<1>0. PICK u, w : /\ u = [close[c] EXCEPT !.st = "done"]
                  /\ w = [NoSync EXCEPT !.st = "queued", !.key = close[c].key]
  OBVIOUS
<1>1. /\ IsClose(close[c]) /\ CloseOK(close[c]) /\ close[c].st = "committed"
      /\ close' = [close EXCEPT ![c] = u] /\ sync' = [sync EXCEPT ![s] = w]
      /\ UNCHANGED <<invoice, ledger, outbox, provider>>
  BY <1>0 DEF IInv, TypeOK, Delay
<1>2. IsClose(u) /\ u.st = "done" /\ u.key = close[c].key BY <1>0, <1>1, CloseStatus
<1>3. close[c].key \in Keys /\ Issued(close[c].key) BY <1>1 DEF CloseOK
<1>4. IsSync(w) /\ w.st = "queued" /\ w.key = close[c].key BY <1>0 DEF NoSync, IsSync
<1>5. /\ close' = [d \in Closes |-> close'[d]]
      /\ \A d \in Closes : close'[d] = IF d = c THEN u ELSE close[d]
  BY <1>1 DEF IInv, TypeOK
<1>6. /\ sync' = [r \in Syncs |-> sync'[r]]
      /\ \A r \in Syncs : sync'[r] = IF r = s THEN w ELSE sync[r]
  BY <1>1 DEF IInv, TypeOK
<1>7. \A k : Issued(k)' <=> Issued(k) BY <1>1 DEF Issued
<1>8. TypeOK' BY <1>1, <1>2, <1>4, <1>5, <1>6 DEF IInv, TypeOK
<1>9. CloseOK(u) BY <1>2, <1>3 DEF CloseOK
<1>10. \A d \in Closes : CloseOK(close[d])' BY <1>5, <1>7, <1>9 DEF IInv, CloseOK
<1>11. DraftUnique' BY <1>2, <1>5 DEF IInv, DraftUnique
<1>12. SyncOK(w) BY <1>3, <1>4 DEF SyncOK
<1>13. \A r \in Syncs : SyncOK(sync[r])' BY <1>1, <1>6, <1>7, <1>12 DEF IInv, SyncOK
<1>14. \A k \in Keys : InvoiceOK(k)' /\ Billed(k)' BY <1>1, <1>7 DEF IInv, InvoiceOK, Billed
<1>15. OneRegistered' BY <1>1 DEF IInv, OneRegistered
<1> QED BY <1>8, <1>10, <1>11, <1>13, <1>14, <1>15 DEF IInv

(* The invoice is looked up: already synced, or its total is read. *)
LEMMA SyncBeginIInv ==
  ASSUME IInv, NEW s \in Syncs, SyncBegin(s)
  PROVE  IInv'
<1>0. PICK k : k = sync[s].key OBVIOUS
<1>1. IsSync(sync[s]) /\ SyncOK(sync[s]) /\ sync[s].st = "queued"
  BY DEF IInv, TypeOK, SyncBegin
<1>2. UNCHANGED <<invoice, ledger, outbox, close, provider>> BY DEF SyncBegin
<1>3. CASE invoice[k].ext # 0
  <2>1. sync' = [sync EXCEPT ![s].st = "done"] BY <1>0, <1>3 DEF SyncBegin
  <2> QED BY <1>1, <1>2, <2>1, SyncMovesTo
<1>4. CASE ~(invoice[k].ext # 0)
  <2>0. PICK n, u : /\ n = invoice[k].total
                    /\ u = [sync[s] EXCEPT !.st = "read", !.amount = n]
    OBVIOUS
  <2>1. sync' = [sync EXCEPT ![s] = u] BY <1>0, <1>4, <2>0 DEF SyncBegin
  <2>2. IsSync(u) /\ u.st = "read" /\ u.key = k /\ u.amount = n
    BY <1>0, <1>1, <2>0 DEF IsSync
  <2>3. SyncOK(u) BY <1>0, <1>1, <2>0, <2>2 DEF SyncOK
  <2> QED BY <1>2, <2>1, <2>2, <2>3, SyncMoves
<1> QED BY <1>3, <1>4

(* A customer is registered. *)
LEMMA SyncCustomerIInv ==
  ASSUME IInv, NEW s \in Syncs, SyncCustomer(s)
  PROVE  IInv'
BY SyncMovesTo DEF SyncCustomer

(* A provider call fails, its answer is lost, or the worker dies. *)
LEMMA SyncFailsIInv ==
  ASSUME IInv, NEW s \in Syncs, SyncFails(s)
  PROVE  IInv'
<1>1. sync[s].st # "none" /\ UNCHANGED <<invoice, ledger, outbox, close, provider>>
  BY DEF SyncFails, SyncRunning
<1>2. CASE sync' = [sync EXCEPT ![s] = Retried(sync[s])]
  <2>1. IsSync(sync[s]) /\ SyncOK(sync[s]) BY DEF IInv, TypeOK
  <2>2. CASE sync[s].tries < MaxRetries
    <3>1. PICK u : u = [sync[s] EXCEPT !.st = "queued", !.tries = @ + 1] OBVIOUS
    <3>2. sync' = [sync EXCEPT ![s] = u] BY <1>2, <2>2, <3>1 DEF Retried
    <3>3. IsSync(u) /\ u.st = "queued" /\ u.key = sync[s].key BY <2>1, <3>1 DEF IsSync
    <3>4. SyncOK(u) BY <1>1, <2>1, <3>3 DEF SyncOK
    <3> QED BY <1>1, <3>2, <3>3, <3>4, SyncMoves
  <2>3. CASE ~(sync[s].tries < MaxRetries)
    <3>1. sync' = [sync EXCEPT ![s].st = "failed"] BY <1>2, <2>3 DEF Retried
    <3> QED BY <1>1, <3>1, SyncMovesTo
  <2> QED BY <2>2, <2>3
<1>3. CASE sync' = [sync EXCEPT ![s].st = "queued"] BY <1>1, <1>3, SyncMovesTo
<1>4. CASE sync' = [sync EXCEPT ![s].st = "failed"] BY <1>1, <1>4, SyncMovesTo
<1> QED BY <1>2, <1>3, <1>4 DEF SyncFails

(* The provider answers a known key with the invoice it holds, so nothing  *)
(* is added; an unknown one is registered with the amount of the task,     *)
(* which is the invoice's.                                                 *)
LEMMA SyncCreateIInv ==
  ASSUME IInv, NEW s \in Syncs, SyncCreate(s)
  PROVE  IInv'
<1>0. PICK k, n, i : k = sync[s].key /\ n = sync[s].amount /\ i = Cardinality(provider) + 1
  OBVIOUS
<1>1. PICK known, new, mine, u :
        /\ known = {p \in provider : p.key = k}
        /\ new = [id |-> i, key |-> k, amount |-> n]
        /\ mine = IF known = {} THEN new ELSE CHOOSE p \in known : TRUE
        /\ u = [sync[s] EXCEPT !.st = "created", !.ext = mine.id]
  OBVIOUS
<1>2. /\ IsSync(sync[s]) /\ SyncOK(sync[s]) /\ sync[s].st = "customer"
      /\ provider' = provider \cup {mine}
      /\ sync' = [sync EXCEPT ![s] = u]
      /\ UNCHANGED <<invoice, ledger, outbox, close>>
  <2>1. provider' = provider \cup {mine} BY <1>0, <1>1 DEF SyncCreate
  <2>2. sync' = [sync EXCEPT ![s] = u] BY <1>0, <1>1 DEF SyncCreate
  <2> QED BY <2>1, <2>2 DEF IInv, TypeOK, SyncCreate
<1>3. k \in Keys /\ Issued(k) /\ n = invoice[k].total BY <1>0, <1>2 DEF SyncOK
<1>4. IsSync(u) /\ u.st = "created" /\ u.key = k /\ u.amount = n
  BY <1>0, <1>1, <1>2 DEF IsSync
<1>5. CASE known # {}
  <2>1. mine \in provider BY <1>1, <1>5
  <2>2. provider' = provider BY <1>2, <2>1
  <2>3. SyncOK(u) BY <1>3, <1>4 DEF SyncOK
  <2> QED BY <1>2, <1>4, <2>2, <2>3, SyncMoves
<1>6. CASE known = {}
  <2>1. mine = new BY <1>1, <1>6
  <2>2. mine.key = k /\ mine.amount = n
    <3>1. new.key = k /\ new.amount = n BY <1>1
    <3> QED BY <2>1, <3>1
  <2>3. \A p \in provider : p.key # k BY <1>1, <1>6
  <2>4. OneRegistered' BY <1>2, <2>2, <2>3 DEF IInv, OneRegistered
  <2>5. \A l : Issued(l)' <=> Issued(l) BY <1>2 DEF Issued
  <2>6. ASSUME NEW l \in Keys PROVE InvoiceOK(l)' /\ Billed(l)'
    <3>1. InvoiceOK(l) /\ Billed(l) BY DEF IInv
    <3>2. InvoiceOK(l)' BY <1>2, <2>5, <3>1 DEF InvoiceOK
    <3>3. /\ Issued(l)' <=> Issued(l)
          /\ invoice'[l] = invoice[l] /\ ledger'[l] = ledger[l] /\ outbox'[l] = outbox[l]
      BY <1>2, <2>5
    <3>4. CASE Issued(l)
      <4>1. \A p \in provider' : p.key = l => p.amount = invoice[l].total
        BY <1>2, <1>3, <2>2, <2>3, <3>1, <3>4 DEF Billed
      <4> QED BY <3>1, <3>2, <3>3, <3>4, <4>1 DEF Billed
    <3>5. CASE ~Issued(l)
      <4>1. \A p \in provider' : p.key # l BY <1>2, <1>3, <2>2, <3>1, <3>5 DEF Billed
      <4> QED BY <3>1, <3>2, <3>3, <3>5, <4>1 DEF Billed
    <3> QED BY <3>4, <3>5
  <2>7. /\ sync' = [r \in Syncs |-> sync'[r]]
        /\ \A r \in Syncs : sync'[r] = IF r = s THEN u ELSE sync[r]
    BY <1>2 DEF IInv, TypeOK
  <2>8. TypeOK' BY <1>2, <1>4, <2>7 DEF IInv, TypeOK
  <2>9. SyncOK(u) BY <1>3, <1>4 DEF SyncOK
  <2>10. \A r \in Syncs : SyncOK(sync[r])' BY <1>2, <2>5, <2>7, <2>9 DEF IInv, SyncOK
  <2>11. \A c \in Closes : CloseOK(close[c])' BY <1>2, <2>5 DEF IInv, CloseOK
  <2>12. DraftUnique' BY <1>2 DEF IInv, DraftUnique
  <2> QED BY <2>4, <2>6, <2>8, <2>10, <2>11, <2>12 DEF IInv
<1> QED BY <1>5, <1>6

(* The provider's id is stored: the invoice keeps its total and hours. *)
LEMMA SyncCommitIInv ==
  ASSUME IInv, NEW s \in Syncs, SyncCommit(s)
  PROVE  IInv'
<1>0. PICK k, x, u, inv :
        /\ k = sync[s].key /\ x = sync[s].ext
        /\ u = [sync[s] EXCEPT !.st = "done"]
        /\ inv = [invoice[k] EXCEPT !.ext = x]
  OBVIOUS
<1>1. /\ IsSync(sync[s]) /\ SyncOK(sync[s]) /\ sync[s].st = "created"
      /\ sync' = [sync EXCEPT ![s] = u]
      /\ invoice' = [invoice EXCEPT ![k] = inv]
      /\ UNCHANGED <<ledger, outbox, close, provider>>
  BY <1>0 DEF IInv, TypeOK, SyncCommit
<1>2. k \in Keys /\ Issued(k) BY <1>0, <1>1 DEF SyncOK
<1>3. IsSync(u) /\ u.st = "done" /\ u.key = k BY <1>0, <1>1, SyncStatus
<1>4. IsInvoice(invoice[k]) /\ invoice[k].hours = PeriodHours(k) BY <1>2 DEF IInv, InvoiceOK
<1>5. /\ IsInvoice(inv) /\ inv.total = invoice[k].total /\ inv.hours = PeriodHours(k)
      /\ inv = [total |-> inv.total, hours |-> inv.hours, ext |-> inv.ext]
  BY <1>0, <1>4 DEF IsInvoice
<1>6. inv # None BY <1>5 DEF None
<1>7. /\ invoice' = [l \in Keys |-> invoice'[l]]
      /\ \A l \in Keys : invoice'[l] = IF l = k THEN inv ELSE invoice[l]
  BY <1>1, <1>2 DEF IInv, TypeOK
<1>8. /\ sync' = [r \in Syncs |-> sync'[r]]
      /\ \A r \in Syncs : sync'[r] = IF r = s THEN u ELSE sync[r]
  BY <1>1 DEF IInv, TypeOK
<1>9. \A l \in Keys : (Issued(l)' <=> Issued(l)) /\ invoice'[l].total = invoice[l].total
  BY <1>2, <1>5, <1>6, <1>7 DEF Issued
<1>10. TypeOK' BY <1>1, <1>3, <1>7, <1>8 DEF IInv, TypeOK
<1>11. ASSUME NEW c \in Closes PROVE CloseOK(close[c])'
  <2>1. CloseOK(close[c]) /\ close'[c] = close[c] BY <1>1 DEF IInv
  <2> QED BY <1>9, <2>1 DEF CloseOK
<1>12. DraftUnique' BY <1>1 DEF IInv, DraftUnique
<1>13. ASSUME NEW r \in Syncs PROVE SyncOK(sync[r])'
  <2>1. CASE r = s BY <1>2, <1>3, <1>8, <1>9, <2>1 DEF SyncOK
  <2>2. CASE r # s
    <3>1. SyncOK(sync[r]) /\ sync'[r] = sync[r] BY <1>8, <2>2 DEF IInv
    <3> QED BY <1>9, <3>1 DEF SyncOK
  <2> QED BY <2>1, <2>2
<1>14. ASSUME NEW l \in Keys PROVE InvoiceOK(l)' /\ Billed(l)'
  <2>1. InvoiceOK(l) /\ Billed(l) BY DEF IInv
  <2>2. InvoiceOK(l)' BY <1>5, <1>7, <1>9, <2>1 DEF InvoiceOK
  <2>3. Billed(l)' BY <1>1, <1>9, <2>1 DEF Billed
  <2> QED BY <2>2, <2>3
<1>15. OneRegistered' BY <1>1 DEF IInv, OneRegistered
<1> QED BY <1>10, <1>11, <1>12, <1>13, <1>14, <1>15 DEF IInv

-----------------------------------------------------------------------------
(* The theorems.                                                           *)

(* Nothing of the tasks or of what they wrote changes: the hourly job of   *)
(* the aggregates, or no step at all.                                      *)
LEMMA OthersIInv ==
  ASSUME IInv, UNCHANGED <<invoice, ledger, outbox, close, sync, provider>>
  PROVE  IInv'
<1>1. \A k : Issued(k)' <=> Issued(k) BY DEF Issued
<1>2. TypeOK' BY DEF IInv, TypeOK
<1>3. \A c \in Closes : CloseOK(close[c])' BY <1>1 DEF IInv, CloseOK
<1>4. \A s \in Syncs : SyncOK(sync[s])' BY <1>1 DEF IInv, SyncOK
<1>5. \A k \in Keys : InvoiceOK(k)' /\ Billed(k)' BY <1>1 DEF IInv, InvoiceOK, Billed
<1> QED BY <1>2, <1>3, <1>4, <1>5 DEF IInv, DraftUnique, OneRegistered

(* No step of the tasks or of the aggregation breaks the invariant. *)
LEMMA NextIInv == IInv /\ [Next]_vars => IInv'
<1> SUFFICES ASSUME IInv, [Next]_vars PROVE IInv' OBVIOUS
<1>1. CASE \E h \in Hours, q \in 0..MaxQuantity : Aggregate(h, q)
  BY <1>1, OthersIInv DEF Aggregate
<1>2. CASE \E c \in Closes, k \in Keys : Submit(c, k) BY <1>2, SubmitIInv
<1>3. CASE \E c \in Closes : CloseStep(c) \/ CloseFails(c)
  BY <1>3, CloseBeginIInv, DraftIInv, DraftFindsIInv, CloseCommitIInv, DelayIInv, CloseFailsIInv
     DEF CloseStep
<1>4. CASE \E s \in Syncs : SyncStep(s) \/ SyncFails(s)
  BY <1>4, SyncBeginIInv, SyncCustomerIInv, SyncCreateIInv, SyncCommitIInv, SyncFailsIInv
     DEF SyncStep
<1>5. CASE UNCHANGED vars BY <1>5, OthersIInv DEF vars
<1> QED BY <1>1, <1>2, <1>3, <1>4, <1>5 DEF Next

(* At first nothing is asked for and nothing is billed. *)
LEMMA InitIInv == Init => IInv
<1> SUFFICES ASSUME Init PROVE IInv OBVIOUS
<1>1. \A c \in Closes : close[c] = NoClose BY DEF Init
<1>2. \A s \in Syncs : sync[s] = NoSync BY DEF Init
<1>3. \A k \in Keys : invoice[k] = None /\ ledger[k] = <<>> /\ outbox[k] = <<>> BY DEF Init
<1>4. IsClose(NoClose) /\ CloseOK(NoClose) BY DEF NoClose, IsClose, CloseOK
<1>5. IsSync(NoSync) /\ SyncOK(NoSync) BY DEF NoSync, IsSync, SyncOK
<1>6. TypeOK BY <1>1, <1>2, <1>4, <1>5 DEF Init, TypeOK
<1>7. DraftUnique BY <1>1 DEF DraftUnique, NoClose
<1>8. \A k \in Keys : InvoiceOK(k) /\ Billed(k) BY <1>3 DEF Init, InvoiceOK, Billed, Issued
<1>9. OneRegistered BY DEF Init, OneRegistered
<1> QED BY <1>1, <1>2, <1>4, <1>5, <1>6, <1>7, <1>8, <1>9 DEF IInv

(* The inductive invariant holds in every reachable state. *)
THEOREM Invariance == Spec => []IInv
BY InitIInv, NextIInv, PTL DEF Spec

(* However the copies of close_period and sync_mock_stripe interleave,     *)
(* crash or are retried, an issued invoice has one ledger charge, one      *)
(* event and at most one provider invoice, all of its amount, and a key    *)
(* without an invoice has none of them.                                    *)
THEOREM BilledOnce == Spec => []BilledOnceAndAlike
<1>1. IInv => BilledOnceAndAlike
  <2> SUFFICES ASSUME IInv, NEW k \in Keys
               PROVE  LET registered == {p \in provider : p.key = k} IN
                      IF Issued(k)
                        THEN /\ ledger[k] = <<invoice[k].total>>
                             /\ outbox[k] = <<invoice[k].total>>
                             /\ \A p \in registered : p.amount = invoice[k].total
                             /\ Cardinality(registered) <= 1
                        ELSE ledger[k] = <<>> /\ outbox[k] = <<>> /\ registered = {}
    BY DEF BilledOnceAndAlike
  <2> DEFINE registered == {p \in provider : p.key = k}
  <2>1. Billed(k) /\ OneRegistered BY DEF IInv
  <2>2. Cardinality(registered) <= 1
    <3>1. CASE registered = {} BY <3>1, FS_EmptySet
    <3>2. CASE registered # {}
      <4>1. PICK p : p \in registered BY <3>2
      <4>2. registered = {p} BY <2>1, <4>1 DEF OneRegistered
      <4>3. Cardinality({p}) = 1 BY FS_Singleton
      <4> HIDE DEF registered
      <4> QED BY <4>2, <4>3
    <3> QED BY <3>1, <3>2
  <2>3. CASE Issued(k) BY <2>1, <2>2, <2>3 DEF Billed
  <2>4. CASE ~Issued(k)
    <3>1. registered = {} BY <2>1, <2>4 DEF Billed
    <3> QED BY <2>1, <2>4, <3>1 DEF Billed
  <2> QED BY <2>3, <2>4
<1> QED BY <1>1, Invariance, PTL

(* Closes of periods that share no instant bill no hour twice, wherever    *)
(* in an hour their common bound lies: calculate_billable_usage takes the  *)
(* buckets whose start is in the half-open period.                         *)
THEOREM HoursOnce == Spec => []NoHourBilledTwice
<1>1. IInv => NoHourBilledTwice
  <2> SUFFICES ASSUME IInv, NEW k \in Keys, NEW l \in Keys,
                      End[k] <= Start[l], Issued(k), Issued(l)
               PROVE  invoice[k].hours \cap invoice[l].hours = {}
    BY DEF NoHourBilledTwice
  <2>1. invoice[k].hours = PeriodHours(k) /\ invoice[l].hours = PeriodHours(l)
    BY DEF IInv, InvoiceOK
  <2>2. \A h \in Hours : h * TicksPerHour \in Int BY PeriodAssumption DEF Hours
  <2>3. End[k] \in Int /\ Start[l] \in Int BY PeriodAssumption
  <2> QED BY <2>1, <2>2, <2>3 DEF PeriodHours
<1> QED BY <1>1, Invariance, PTL

-----------------------------------------------------------------------------
(* The tasks implement Billing.                                            *)

(* An id that a sync holds, or that an invoice carries, is the one of the  *)
(* provider's invoice of the key.                                          *)
LinkInv ==
  /\ \A k \in Keys : Issued(k) /\ invoice[k].ext # 0 =>
       \E p \in provider : p.key = k /\ p.id = invoice[k].ext
  /\ \A s \in Syncs : sync[s].st = "created" =>
       \E p \in provider : p.key = sync[s].key /\ p.id = sync[s].ext

(* A step that neither bills nor registers nor links: no sync comes by an  *)
(* id, and the abstract state stays as it is.                              *)
LEMMA QuietStep ==
  ASSUME IInv, LinkInv, UNCHANGED <<invoice, ledger, outbox, provider>>,
         \A s \in Syncs : sync'[s].st = "created" => sync'[s] = sync[s]
  PROVE  LinkInv' /\ UNCHANGED Promise!bvars
<1>1. \A k : Issued(k)' <=> Issued(k) BY DEF Issued
<1>2. LinkInv' BY <1>1 DEF LinkInv
<1>3. BillOf' = BillOf BY <1>1 DEF BillOf
<1>4. RegisteredOf' = RegisteredOf BY DEF RegisteredOf
<1>5. LinkOf' = LinkOf BY <1>1 DEF LinkOf
<1> QED BY <1>2, <1>3, <1>4, <1>5 DEF Promise!bvars

(* A task that raised holds nothing any more. *)
LEMMA RetriedStatus ==
  ASSUME NEW t, IsSync(t)
  PROVE  Retried(t).st \in {"queued", "failed"}
BY DEF Retried, IsSync

(* The steps of a close up to its commit, and the aggregation. *)
LEMMA QuietClose ==
  ASSUME IInv, LinkInv,
         \/ \E h \in Hours, q \in 0..MaxQuantity : Aggregate(h, q)
         \/ \E c \in Closes, k \in Keys : Submit(c, k)
         \/ \E c \in Closes : \/ CloseBegin(c) \/ Draft(c) \/ DraftFindsInvoice(c)
                              \/ DraftConflicts(c) \/ CloseFails(c)
         \/ UNCHANGED vars
  PROVE  LinkInv' /\ UNCHANGED Promise!bvars
<1>1. UNCHANGED <<invoice, ledger, outbox, provider, sync>>
  BY DEF Aggregate, Submit, CloseBegin, Draft, DraftFindsInvoice, DraftConflicts, CloseFails, vars
<1> QED BY <1>1, QuietStep

(* The steps of a sync that store nothing, and the one that queues it. *)
LEMMA QuietSync ==
  ASSUME IInv, LinkInv, NEW s \in Syncs,
         \/ SyncBegin(s) \/ SyncCustomer(s) \/ SyncFails(s)
         \/ \E c \in Closes : Delay(c, s)
  PROVE  LinkInv' /\ UNCHANGED Promise!bvars
<1>1. UNCHANGED <<invoice, ledger, outbox, provider>>
  BY DEF SyncBegin, SyncCustomer, SyncFails, Delay
<1>2. IsSync(sync[s]) BY DEF IInv, TypeOK
<1>3. PICK u : sync' = [sync EXCEPT ![s] = u] /\ u.st # "created"
  <2>1. CASE SyncBegin(s)
    <3>1. PICK u : /\ sync' = [sync EXCEPT ![s] = u]
                   /\ \/ u = [sync[s] EXCEPT !.st = "done"]
                      \/ \E n : u = [sync[s] EXCEPT !.st = "read", !.amount = n]
      BY <2>1 DEF SyncBegin
    <3>2. u.st # "created" BY <1>2, <3>1 DEF IsSync
    <3> QED BY <3>1, <3>2
  <2>2. CASE SyncCustomer(s)
    <3>1. PICK u : u = [sync[s] EXCEPT !.st = "customer"] OBVIOUS
    <3>2. u.st = "customer" BY <1>2, <3>1, SyncStatus
    <3> QED BY <2>2, <3>1, <3>2 DEF SyncCustomer
  <2>3. CASE SyncFails(s)
    <3>1. PICK u : /\ sync' = [sync EXCEPT ![s] = u]
                   /\ \/ u = Retried(sync[s])
                      \/ u = [sync[s] EXCEPT !.st = "queued"]
                      \/ u = [sync[s] EXCEPT !.st = "failed"]
      BY <2>3 DEF SyncFails
    <3>2. u.st \in {"queued", "failed"} BY <1>2, <3>1, RetriedStatus, SyncStatus
    <3> QED BY <3>1, <3>2
  <2>4. CASE \E c \in Closes : Delay(c, s)
    <3>1. PICK c \in Closes : Delay(c, s) BY <2>4
    <3>2. PICK u : u = [NoSync EXCEPT !.st = "queued", !.key = close[c].key] OBVIOUS
    <3>3. u.st = "queued" BY <3>2 DEF NoSync
    <3> QED BY <3>1, <3>2, <3>3 DEF Delay
  <2> QED BY <2>1, <2>2, <2>3, <2>4
<1>4. \A r \in Syncs : sync'[r] = IF r = s THEN u ELSE sync[r] BY <1>3 DEF IInv, TypeOK
<1> QED BY <1>1, <1>3, <1>4, QuietStep

(* The commit of a close bills its period. *)
LEMMA CommitBills ==
  ASSUME IInv, LinkInv, NEW c \in Closes, CloseCommit(c)
  PROVE  LinkInv' /\ Promise!Bill(close[c].key)
<1>0. PICK k, n, inv : /\ k = close[c].key /\ n = close[c].total
                       /\ inv = [total |-> n, hours |-> close[c].hours, ext |-> 0]
  OBVIOUS
<1>1. /\ close[c].st = "drafted" /\ CloseOK(close[c])
      /\ invoice' = [invoice EXCEPT ![k] = inv]
      /\ ledger' = [ledger EXCEPT ![k] = Append(@, n)]
      /\ outbox' = [outbox EXCEPT ![k] = Append(@, n)]
      /\ UNCHANGED <<sync, provider>>
  BY <1>0 DEF CloseCommit, IInv
<1>2. k \in Keys /\ ~Issued(k) BY <1>0, <1>1 DEF CloseOK
<1>3. ledger[k] = <<>> /\ outbox[k] = <<>> BY <1>2 DEF IInv, Billed
<1>4. /\ ledger' = [ledger EXCEPT ![k] = <<n>>] /\ outbox' = [outbox EXCEPT ![k] = <<n>>]
  BY <1>1, <1>3
<1>5. inv.total = n /\ inv.ext = 0 /\ inv # None BY <1>0 DEF None
<1>6. \A l \in Keys : invoice'[l] = IF l = k THEN inv ELSE invoice[l] BY <1>1 DEF IInv, TypeOK
<1>7. \A l \in Keys : Issued(l)' <=> (l = k \/ Issued(l)) BY <1>5, <1>6 DEF Issued
<1>8. BillOf' = [BillOf EXCEPT ![k] = {n}] /\ BillOf'[k] = {n} /\ BillOf[k] = {}
  BY <1>2, <1>5, <1>6, <1>7 DEF BillOf
<1>9. RegisteredOf' = RegisteredOf BY <1>1 DEF RegisteredOf
<1>10. LinkOf' = LinkOf
  <2>1. ASSUME NEW l \in Keys PROVE LinkOf'[l] = LinkOf[l]
    <3>1. CASE l = k BY <1>2, <1>5, <1>6, <1>7, <3>1 DEF LinkOf
    <3>2. CASE l # k BY <1>6, <1>7, <3>2 DEF LinkOf
    <3> QED BY <3>1, <3>2
  <2> QED BY <2>1 DEF LinkOf
<1>11. LinkInv' BY <1>1, <1>5, <1>6, <1>7 DEF LinkInv
<1>12. Promise!Bill(k) BY <1>4, <1>8, <1>9, <1>10 DEF Promise!Bill
<1> QED BY <1>0, <1>11, <1>12

(* The provider's answer: a known key is answered with what it registered  *)
(* before, a new one is registered with the invoice's amount.              *)
LEMMA CreateRegisters ==
  ASSUME IInv, LinkInv, NEW s \in Syncs, SyncCreate(s)
  PROVE  LinkInv' /\ (Promise!Register(sync[s].key) \/ UNCHANGED Promise!bvars)
<1>0. PICK k, n, i : k = sync[s].key /\ n = sync[s].amount /\ i = Cardinality(provider) + 1
  OBVIOUS
<1>1. PICK known, new, mine, u :
        /\ known = {p \in provider : p.key = k}
        /\ new = [id |-> i, key |-> k, amount |-> n]
        /\ mine = IF known = {} THEN new ELSE CHOOSE p \in known : TRUE
        /\ u = [sync[s] EXCEPT !.st = "created", !.ext = mine.id]
  OBVIOUS
<1>2. /\ IsSync(sync[s]) /\ SyncOK(sync[s]) /\ sync[s].st = "customer"
      /\ provider' = provider \cup {mine}
      /\ sync' = [sync EXCEPT ![s] = u]
      /\ UNCHANGED <<invoice, ledger, outbox>>
  <2>1. provider' = provider \cup {mine} BY <1>0, <1>1 DEF SyncCreate
  <2>2. sync' = [sync EXCEPT ![s] = u] BY <1>0, <1>1 DEF SyncCreate
  <2> QED BY <2>1, <2>2 DEF IInv, TypeOK, SyncCreate
<1>3. k \in Keys /\ Issued(k) /\ n = invoice[k].total BY <1>0, <1>2 DEF SyncOK
<1>4. u.st = "created" /\ u.key = k /\ u.ext = mine.id BY <1>0, <1>1, <1>2 DEF IsSync
<1>5. new.key = k /\ new.amount = n BY <1>1
<1>6. mine.key = k /\ (known # {} => mine \in provider)
  <2>1. CASE known = {} BY <1>1, <1>5, <2>1
  <2>2. CASE known # {} BY <1>1, <2>2
  <2> QED BY <2>1, <2>2
<1>7. \A l : Issued(l)' <=> Issued(l) BY <1>2 DEF Issued
<1>8. \A r \in Syncs : sync'[r] = IF r = s THEN u ELSE sync[r] BY <1>2 DEF IInv, TypeOK
<1>9. LinkInv'
  <2>1. ASSUME NEW l \in Keys, Issued(l)', invoice'[l].ext # 0
        PROVE  \E p \in provider' : p.key = l /\ p.id = invoice'[l].ext
    BY <1>2, <1>7, <2>1 DEF LinkInv
  <2>2. ASSUME NEW r \in Syncs, sync'[r].st = "created"
        PROVE  \E p \in provider' : p.key = sync'[r].key /\ p.id = sync'[r].ext
    <3>1. CASE r = s BY <1>2, <1>4, <1>6, <1>8, <3>1
    <3>2. CASE r # s BY <1>2, <1>8, <2>2, <3>2 DEF LinkInv
    <3> QED BY <3>1, <3>2
  <2> QED BY <2>1, <2>2 DEF LinkInv
<1>10. BillOf' = BillOf /\ LinkOf' = LinkOf BY <1>2, <1>7 DEF BillOf, LinkOf
<1>11. CASE known # {}
  <2>1. provider' = provider BY <1>2, <1>6, <1>11
  <2>2. RegisteredOf' = RegisteredOf BY <2>1 DEF RegisteredOf
  <2> QED BY <1>2, <1>9, <1>10, <2>2 DEF Promise!bvars
<1>12. CASE known = {}
  <2>1. mine = new /\ \A p \in provider : p.key # k BY <1>1, <1>12
  <2>2. /\ RegisteredOf[k] = {} /\ RegisteredOf'[k] = {mine}
        /\ RegisteredOf' = [RegisteredOf EXCEPT ![k] = {mine}]
    BY <1>2, <1>3, <1>6, <2>1 DEF RegisteredOf
  <2>3. mine.amount \in BillOf[k] BY <1>3, <1>5, <2>1 DEF BillOf
  <2>4. Promise!Register(k) BY <1>2, <1>10, <2>2, <2>3 DEF Promise!Register
  <2> QED BY <1>0, <1>9, <2>4
<1> QED BY <1>11, <1>12

(* The id is stored: for the first time, or again as it was. *)
LEMMA CommitLinks ==
  ASSUME IInv, LinkInv, NEW s \in Syncs, SyncCommit(s)
  PROVE  LinkInv' /\ (Promise!Link(sync[s].key) \/ UNCHANGED Promise!bvars)
<1>0. PICK k, x, u, inv :
        /\ k = sync[s].key /\ x = sync[s].ext
        /\ u = [sync[s] EXCEPT !.st = "done"]
        /\ inv = [invoice[k] EXCEPT !.ext = x]
  OBVIOUS
<1>1. /\ IsSync(sync[s]) /\ SyncOK(sync[s]) /\ sync[s].st = "created"
      /\ sync' = [sync EXCEPT ![s] = u]
      /\ invoice' = [invoice EXCEPT ![k] = inv]
      /\ UNCHANGED <<ledger, outbox, provider>>
  BY <1>0 DEF IInv, TypeOK, SyncCommit
<1>2. k \in Keys /\ Issued(k) BY <1>0, <1>1 DEF SyncOK
<1>3. u.st = "done" BY <1>0, <1>1, SyncStatus
<1>4. IsInvoice(invoice[k]) BY <1>2 DEF IInv, InvoiceOK
<1>5. /\ inv.total = invoice[k].total /\ inv.ext = x
      /\ inv = [total |-> inv.total, hours |-> inv.hours, ext |-> inv.ext]
  BY <1>0, <1>4 DEF IsInvoice
<1>6. inv # None BY <1>5 DEF None
<1>7. \A l \in Keys : invoice'[l] = IF l = k THEN inv ELSE invoice[l] BY <1>1 DEF IInv, TypeOK
<1>8. \A r \in Syncs : sync'[r] = IF r = s THEN u ELSE sync[r] BY <1>1 DEF IInv, TypeOK
<1>9. \A l \in Keys : (Issued(l)' <=> Issued(l)) /\ invoice'[l].total = invoice[l].total
  BY <1>2, <1>5, <1>6, <1>7 DEF Issued
<1>10. PICK p \in provider : p.key = k /\ p.id = x BY <1>0, <1>1 DEF LinkInv
<1>11. invoice[k].ext # 0 => invoice[k].ext = x
  BY <1>2, <1>10 DEF LinkInv, IInv, OneRegistered
<1>12. LinkInv'
  <2>1. ASSUME NEW l \in Keys, Issued(l)', invoice'[l].ext # 0
        PROVE  \E q \in provider' : q.key = l /\ q.id = invoice'[l].ext
    <3>1. CASE l = k BY <1>1, <1>5, <1>7, <1>10, <3>1
    <3>2. CASE l # k BY <1>1, <1>7, <1>9, <2>1, <3>2 DEF LinkInv
    <3> QED BY <3>1, <3>2
  <2>2. ASSUME NEW r \in Syncs, sync'[r].st = "created"
        PROVE  \E q \in provider' : q.key = sync'[r].key /\ q.id = sync'[r].ext
    BY <1>1, <1>3, <1>8, <2>2 DEF LinkInv
  <2> QED BY <2>1, <2>2 DEF LinkInv
<1>13. BillOf' = BillOf BY <1>9 DEF BillOf
<1>14. RegisteredOf' = RegisteredOf BY <1>1 DEF RegisteredOf
<1>15. \A l \in Keys \ {k} : LinkOf'[l] = LinkOf[l] BY <1>7, <1>9 DEF LinkOf
<1>16. LinkOf'[k] = {x} \ {0} /\ LinkOf[k] = {invoice[k].ext} \ {0}
  BY <1>2, <1>5, <1>7, <1>9 DEF LinkOf
<1>17. CASE invoice[k].ext # 0 \/ x = 0
  <2>1. LinkOf'[k] = LinkOf[k] BY <1>11, <1>16, <1>17
  <2>2. LinkOf' = LinkOf BY <1>15, <2>1 DEF LinkOf
  <2> QED BY <1>1, <1>12, <1>13, <1>14, <2>2 DEF Promise!bvars
<1>18. CASE invoice[k].ext = 0 /\ x # 0
  <2>1. LinkOf[k] = {} /\ LinkOf'[k] = {p.id} BY <1>10, <1>16, <1>18
  <2>2. LinkOf' = [LinkOf EXCEPT ![k] = {p.id}] BY <1>2, <1>15, <2>1 DEF LinkOf
  <2>3. p \in RegisteredOf[k] BY <1>2, <1>10 DEF RegisteredOf
  <2>4. Promise!Link(k) BY <1>1, <1>13, <1>14, <2>1, <2>2, <2>3 DEF Promise!Link
  <2> QED BY <1>0, <1>12, <2>4
<1> QED BY <1>17, <1>18

(* Every step of the tasks is a step of Billing, or none. *)
LEMMA NextBilling ==
  ASSUME IInv, LinkInv, [Next]_vars
  PROVE  LinkInv' /\ [Promise!Next]_(Promise!bvars)
<1>1. CASE \/ \E h \in Hours, q \in 0..MaxQuantity : Aggregate(h, q)
           \/ \E c \in Closes, k \in Keys : Submit(c, k)
           \/ \E c \in Closes : \/ CloseBegin(c) \/ Draft(c) \/ DraftFindsInvoice(c)
                                \/ DraftConflicts(c) \/ CloseFails(c)
           \/ UNCHANGED vars
  BY <1>1, QuietClose
<1>2. ASSUME NEW s \in Syncs,
             \/ SyncBegin(s) \/ SyncCustomer(s) \/ SyncFails(s)
             \/ \E c \in Closes : Delay(c, s)
      PROVE  LinkInv' /\ [Promise!Next]_(Promise!bvars)
  BY <1>2, QuietSync
<1>3. ASSUME NEW c \in Closes, CloseCommit(c)
      PROVE  LinkInv' /\ [Promise!Next]_(Promise!bvars)
  <2>1. close[c].key \in Keys BY <1>3 DEF CloseCommit, IInv, CloseOK
  <2> QED BY <1>3, <2>1, CommitBills DEF Promise!Next
<1>4. ASSUME NEW s \in Syncs, SyncCreate(s) \/ SyncCommit(s)
      PROVE  LinkInv' /\ [Promise!Next]_(Promise!bvars)
  <2>1. sync[s].key \in Keys BY <1>4 DEF SyncCreate, SyncCommit, IInv, SyncOK
  <2> QED BY <1>4, <2>1, CreateRegisters, CommitLinks DEF Promise!Next
<1> QED BY <1>1, <1>2, <1>3, <1>4 DEF Next, CloseStep, SyncStep

(* close_period and sync_mock_stripe implement Billing, for any number of  *)
(* copies, retries and crashes: a period is billed in one step that        *)
(* happens once, registered once with the provider, and linked for good.   *)
THEOREM BillingRefined == Spec => ImplementsBilling
<1>1. Init => LinkInv /\ Promise!Init
  <2> SUFFICES ASSUME Init PROVE LinkInv /\ Promise!Init OBVIOUS
  <2>1. \A k \in Keys : ~Issued(k) BY DEF Init, Issued
  <2>2. \A s \in Syncs : sync[s].st = "none" BY DEF Init, NoSync
  <2>3. LinkInv BY <2>1, <2>2 DEF LinkInv
  <2>4. BillOf = [k \in Keys |-> {}] /\ LinkOf = [k \in Keys |-> {}]
    BY <2>1 DEF BillOf, LinkOf
  <2>5. RegisteredOf = [k \in Keys |-> {}] BY DEF Init, RegisteredOf
  <2> QED BY <2>3, <2>4, <2>5 DEF Init, Promise!Init
<1>2. IInv /\ LinkInv /\ [Next]_vars => LinkInv' /\ [Promise!Next]_(Promise!bvars)
  BY NextBilling
<1> QED BY <1>1, <1>2, Invariance, PTL DEF Spec, ImplementsBilling, Promise!Spec
=============================================================================
