------------------------ MODULE ReconciliationProofs ------------------------
(***************************************************************************)
(* Theorems about Reconciliation, for any number of invoices, keys,        *)
(* workers and retries, and any number of changes and failures.            *)
(***************************************************************************)
EXTENDS Reconciliation, TLAPS

Ledger == "ledger_invoice_mismatch"
Kinds  == {"missing_in_platform", "amount_mismatch", "status_mismatch", "missing_in_stripe",
           Ledger}
Difference == [kind : Kinds, inv : Invoices, delta : Int \cup {None}]

(* The provider's objects: nothing is paid beyond what is due. *)
ProviderRow ==
  {p \in [status : {"absent", "open", "paid"}, due : Nat, paid : Nat \cup {None}] :
     /\ p.status = "absent" => p = Absent
     /\ p.paid # None => p.paid <= p.due}

InvoiceRow == {NoInvoice} \cup [total : Nat, charge : Nat, ext : BOOLEAN]

Job == [st : {"idle", "queued", "new", "done", "failed"} \cup Inserted,
        key : Keys \cup {None}, tries : Nat,
        list : {None} \cup [Invoices -> ProviderRow],
        rows : SUBSET (Invoices \X InvoiceRow), found : SUBSET Difference]

TypeOK ==
  /\ provider \in [Invoices -> ProviderRow]
  /\ payment \in [Invoices -> Nat \cup {None}]
  /\ invoice \in [Invoices -> InvoiceRow]
  /\ run \in [Keys -> {"none", "completed"}]
  /\ discrepancies \in SUBSET [key : Keys, what : Difference]
  /\ job \in [Workers -> Job]
  /\ lasting \in [Workers -> SUBSET Differences]

(* The registries: a payment in the ledger is one the provider has, and    *)
(* provider and platform agree on what an invoice is over.                 *)
RegistriesLinked ==
  \A i \in Invoices :
    /\ payment[i] # None => provider[i].status = "paid" /\ payment[i] <= provider[i].due
    /\ invoice[i] # NoInvoice /\ provider[i] # Absent => provider[i].due = invoice[i].total

(* The unique index: of the open runs of a key one has inserted its row,   *)
(* and then the key has no committed run.                                  *)
KeyHeld ==
  \A w \in Workers :
    /\ job[w].st \in Inserted \cup {"queued", "new"} => job[w].key \in Keys
    /\ job[w].st \in Inserted =>
         /\ run[job[w].key] = "none"
         /\ \A v \in Workers : job[v].st \in Inserted /\ job[v].key = job[w].key => v = w

(* What the provider's list shows as paid has not changed since, and what  *)
(* has differed all along it shows.                                        *)
ListUsable(w) ==
  job[w].st = "fetched" =>
    /\ job[w].list \in [Invoices -> ProviderRow]
    /\ \A i \in Invoices :
         /\ job[w].list[i].status = "paid" => provider[i] = job[w].list[i]
         /\ <<"registries", i>> \in lasting[w] => job[w].list[i] # Absent

(* A lasting difference of the registries is found with the index. *)
RegistriesReported(w) ==
  job[w].st \in {"indexed", "comparing"} =>
    \A i \in Invoices : <<"registries", i>> \in lasting[w] =>
      \E x \in job[w].found : x.inv = i /\ x.kind # Ledger

(* The rows of the loop are the invoices as they are, but for an external  *)
(* id stored since; a lasting difference in the books is found or is still *)
(* among the rows.                                                         *)
RowsCurrent(w) ==
  job[w].st = "comparing" =>
    /\ \A r \in job[w].rows :
         /\ invoice[r[1]] # NoInvoice /\ r[2] # NoInvoice
         /\ r[2].total = invoice[r[1]].total /\ r[2].charge = invoice[r[1]].charge
         /\ r[2].ext => invoice[r[1]].ext
    /\ \A i \in Invoices : <<"books", i>> \in lasting[w] =>
         \/ \E r \in job[w].rows : r[1] = i
         \/ \E x \in job[w].found : x.inv = i /\ x.kind = Ledger

(* A gap in the books is one of an invoice that was not charged in full. *)
Gap(x) == x.kind = Ledger =>
  invoice[x.inv] # NoInvoice /\ invoice[x.inv].total # invoice[x.inv].charge

JobInv(w) == /\ ListUsable(w)
             /\ RegistriesReported(w)
             /\ RowsCurrent(w)
             /\ \A x \in job[w].found : Gap(x)

IInv == /\ TypeOK
        /\ RegistriesLinked
        /\ KeyHeld
        /\ \A w \in Workers : JobInv(w)
        /\ \A d \in discrepancies : Gap(d.what)
        /\ RunIsWhole

-----------------------------------------------------------------------------
(* What is compared.                                                       *)

(* should_alert_recon_mismatch compares the absolute value. *)
LEMMA MaterialLemma ==
  ASSUME NEW d \in Difference
  PROVE  Material(d) <=> d.delta # None /\ (d.delta >= Threshold \/ -d.delta >= Threshold)
<1>1. CASE d.delta = None BY <1>1 DEF Material
<1>2. CASE d.delta # None
  <2>1. d.delta \in Int BY <1>2 DEF Difference
  <2>2. Threshold \in Nat BY ReconciliationAssumption
  <2> QED BY <1>2, <2>1, <2>2 DEF Material, Abs
<1> QED BY <1>1, <1>2

(* The amount of a provider's object is an amount. *)
LEMMA StripeAmountType ==
  ASSUME NEW p \in ProviderRow
  PROVE  StripeAmount(p) \in Nat
BY DEF ProviderRow, StripeAmount

(* _detect_discrepancies writes well-formed rows, none about the books. *)
LEMMA DetectTypes ==
  ASSUME NEW list \in [Invoices -> ProviderRow],
         NEW index \in [Invoices -> Nat \cup {None}],
         NEW x \in DetectDiscrepancies(list, index)
  PROVE  x \in Difference /\ x.kind # Ledger
<1> DEFINE both == {i \in Invoices : list[i] # Absent /\ index[i] # None}
<1>1. \/ \E i \in Invoices : x = Discrepancy("missing_in_platform", i, None)
      \/ \E i \in both : x = Discrepancy("amount_mismatch", i, StripeAmount(list[i]) - index[i])
      \/ \E i \in Invoices : x = Discrepancy("status_mismatch", i, None)
      \/ \E i \in Invoices : x = Discrepancy("missing_in_stripe", i, None)
  BY Zenon DEF DetectDiscrepancies
<1>2. CASE \E i \in both : x = Discrepancy("amount_mismatch", i, StripeAmount(list[i]) - index[i])
  <2>1. PICK i \in both : x = Discrepancy("amount_mismatch", i, StripeAmount(list[i]) - index[i])
    BY <1>2
  <2>2. StripeAmount(list[i]) \in Nat /\ index[i] \in Nat
    BY StripeAmountType
  <2>3. StripeAmount(list[i]) - index[i] \in Int BY <2>2
  <2> QED BY <2>1, <2>3 DEF Discrepancy, Difference, Kinds, Ledger
<1> QED BY <1>1, <1>2 DEF Discrepancy, Difference, Kinds, Ledger

(* _detect_discrepancies writes a row about every invoice on which the two *)
(* lists it was given disagree.                                            *)
LEMMA DetectFinds ==
  ASSUME NEW list \in [Invoices -> ProviderRow],
         NEW index \in [Invoices -> Nat \cup {None}],
         NEW i \in Invoices,
         ~(list[i] = Absent /\ index[i] = None),
         ~(list[i].status = "paid" /\ index[i] = StripeAmount(list[i]))
  PROVE  \E x \in DetectDiscrepancies(list, index) : x.inv = i /\ x.kind # Ledger
<1>0. \A kind, delta : Discrepancy(kind, i, delta).inv = i /\ Discrepancy(kind, i, delta).kind = kind
  BY DEF Discrepancy
<1>1. CASE list[i] # Absent /\ index[i] = None
  <2>1. Discrepancy("missing_in_platform", i, None) \in DetectDiscrepancies(list, index)
    BY <1>1, Zenon DEF DetectDiscrepancies
  <2> QED BY <2>1, <1>0 DEF Ledger
<1>2. CASE list[i] # Absent /\ index[i] # None /\ StripeAmount(list[i]) # index[i]
  <2>1. Discrepancy("amount_mismatch", i, StripeAmount(list[i]) - index[i])
          \in DetectDiscrepancies(list, index)
    BY <1>2, Zenon DEF DetectDiscrepancies
  <2> QED BY <2>1, <1>0 DEF Ledger
<1>3. CASE list[i] # Absent /\ index[i] # None /\ list[i].status # "paid"
  <2>1. Discrepancy("status_mismatch", i, None) \in DetectDiscrepancies(list, index)
    BY <1>3, Zenon DEF DetectDiscrepancies
  <2> QED BY <2>1, <1>0 DEF Ledger
<1>4. CASE list[i] = Absent /\ index[i] # None
  <2>1. Discrepancy("missing_in_stripe", i, None) \in DetectDiscrepancies(list, index)
    BY <1>4, Zenon DEF DetectDiscrepancies
  <2> QED BY <2>1, <1>0 DEF Ledger
<1> QED BY <1>1, <1>2, <1>3, <1>4

(* compare_ledger_to_invoice, for a row that may miss an external id       *)
(* stored since: it writes a row about that invoice only if the charges do *)
(* not cover it, and does so if the books differ now.                      *)
LEMMA CompareLemma ==
  ASSUME TypeOK, RegistriesLinked,
         NEW i \in Invoices, NEW row \in InvoiceRow,
         row # NoInvoice, invoice[i] # NoInvoice,
         row.total = invoice[i].total, row.charge = invoice[i].charge,
         row.ext => invoice[i].ext
  PROVE  /\ \A x \in CompareLedgerToInvoice(i, row) :
              /\ x \in Difference /\ x.inv = i /\ x.kind = Ledger
              /\ invoice[i].total # invoice[i].charge
         /\ ~BooksAgree(i) => \E x \in CompareLedgerToInvoice(i, row) : x.inv = i /\ x.kind = Ledger
<1>1. /\ row.total \in Nat /\ row.charge \in Nat /\ row.ext \in BOOLEAN
      /\ payment[i] \in Nat \cup {None} /\ invoice[i].ext \in BOOLEAN
  BY DEF TypeOK, InvoiceRow
<1>2. payment[i] # None => payment[i] <= row.total
  <2> HAVE payment[i] # None
  <2>1. provider[i].status = "paid" /\ payment[i] <= provider[i].due BY DEF RegistriesLinked
  <2>2. provider[i] # Absent BY <2>1 DEF Absent
  <2> QED BY <2>1, <2>2 DEF RegistriesLinked
<1>3. /\ row.charge > 0 => LedgerTotal(i, row) = row.charge
      /\ row.charge = 0 /\ row.ext /\ payment[i] # None => LedgerTotal(i, row) = payment[i]
      /\ row.charge = 0 /\ ~(row.ext /\ payment[i] # None) => LedgerTotal(i, row) = 0
  BY <1>1 DEF LedgerTotal
<1>4. LedgerTotal(i, row) \in Nat BY <1>1, <1>3
<1>5. row.total = row.charge => row.total = LedgerTotal(i, row)
  BY <1>1, <1>2, <1>3
<1>6. ~BooksAgree(i) => row.total # LedgerTotal(i, row)
  BY <1>1, <1>3 DEF BooksAgree
<1>7. row.total - LedgerTotal(i, row) \in Int BY <1>1, <1>4
<1> DEFINE d == Discrepancy("ledger_invoice_mismatch", i, row.total - LedgerTotal(i, row))
<1>8. d \in Difference /\ d.inv = i /\ d.kind = Ledger
  BY <1>7 DEF Discrepancy, Difference, Kinds, Ledger
<1>9. CompareLedgerToInvoice(i, row) = IF row.total = LedgerTotal(i, row) THEN {} ELSE {d}
  BY DEF CompareLedgerToInvoice
<1> HIDE DEF d
<1> QED BY <1>5, <1>6, <1>8, <1>9

-----------------------------------------------------------------------------
(* What every step keeps.                                                  *)

(* The history follows the differences of the moment; it only shrinks      *)
(* while a run is open.                                                    *)
LEMMA RememberLemma ==
  ASSUME Remember
  PROVE  /\ lasting' \in [Workers -> SUBSET Differences']
         /\ \A w \in Workers :
              job[w].st \in Inserted /\ job'[w].st \in Inserted => lasting'[w] \subseteq lasting[w]
<1>1. \A w \in Workers : lasting'[w] =
        CASE job'[w].st \notin Inserted -> {}
          [] job'[w].st \in Inserted /\ job[w].st \notin Inserted -> Differences'
          [] OTHER -> lasting[w] \cap Differences'
  BY DEF Remember
<1>2. \A w \in Workers :
        \/ job'[w].st \notin Inserted /\ lasting'[w] = {}
        \/ job[w].st \notin Inserted /\ lasting'[w] = Differences'
        \/ lasting'[w] = lasting[w] \cap Differences'
  <2> TAKE w \in Workers
  <2>1. CASE job'[w].st \notin Inserted BY <2>1, <1>1
  <2>2. CASE job'[w].st \in Inserted /\ job[w].st \notin Inserted BY <2>2, <1>1
  <2>3. CASE job'[w].st \in Inserted /\ job[w].st \in Inserted BY <2>3, <1>1
  <2> QED BY <2>1, <2>2, <2>3
<1>3. \A w \in Workers : lasting'[w] \subseteq Differences'
  BY <1>2
<1>4. lasting' = [w \in Workers |-> lasting'[w]]
  BY DEF Remember
<1>5. lasting' \in [Workers -> SUBSET Differences']
  BY <1>3, <1>4
<1> QED BY <1>1, <1>5

(* The registries after a step: well-formed and linked; what is paid stays *)
(* as it is, and so do an invoice's total and charge.                      *)
RegistriesStep ==
  /\ provider' \in [Invoices -> ProviderRow]
  /\ payment' \in [Invoices -> Nat \cup {None}]
  /\ invoice' \in [Invoices -> InvoiceRow]
  /\ RegistriesLinked'
  /\ \A i \in Invoices :
       /\ provider[i].status = "paid" => provider'[i] = provider[i]
       /\ invoice[i] # NoInvoice =>
            /\ invoice'[i] # NoInvoice
            /\ invoice'[i].total = invoice[i].total /\ invoice'[i].charge = invoice[i].charge
            /\ invoice[i].ext => invoice'[i].ext

(* Invoices that appear, charged or not. *)
LEMMA NewInvoiceStep ==
  ASSUME IInv, NEW i \in Invoices, NEW row \in InvoiceRow, row # NoInvoice,
         invoice[i] = NoInvoice, provider[i] = Absent,
         invoice' = [invoice EXCEPT ![i] = row], UNCHANGED <<provider, payment>>
  PROVE  RegistriesStep
<1>1. \A v \in Invoices : invoice'[v] = IF v = i THEN row ELSE invoice[v]
  BY DEF IInv, TypeOK
<1>2. invoice' \in [Invoices -> InvoiceRow]
  BY DEF IInv, TypeOK
<1>3. RegistriesLinked'
  BY <1>1 DEF IInv, RegistriesLinked
<1> QED BY <1>1, <1>2, <1>3 DEF IInv, TypeOK, RegistriesStep

(* The provider opens an invoice. *)
LEMMA ProviderOpensStep ==
  ASSUME IInv, NEW i \in Invoices, NEW a \in Amounts, ProviderOpens(i, a)
  PROVE  RegistriesStep
<1> DEFINE row == [status |-> "open", due |-> a, paid |-> None]
<1>1. a \in Nat BY ReconciliationAssumption
<1>2. row \in ProviderRow /\ row.due = a /\ row.status = "open"
  BY <1>1 DEF ProviderRow, Absent
<1>3. \A v \in Invoices : provider'[v] = IF v = i THEN row ELSE provider[v]
  BY DEF IInv, TypeOK, ProviderOpens
<1>4. provider' \in [Invoices -> ProviderRow]
  BY <1>2 DEF IInv, TypeOK, ProviderOpens
<1>5. provider[i] = Absent /\ provider[i].status # "paid"
  BY DEF ProviderOpens, Absent
<1>6. /\ payment' = payment /\ invoice' = invoice
      /\ invoice[i] # NoInvoice => a = invoice[i].total
  BY DEF ProviderOpens
<1> HIDE DEF row
<1>7. RegistriesLinked'
  BY <1>2, <1>3, <1>5, <1>6 DEF IInv, RegistriesLinked
<1> QED BY <1>3, <1>4, <1>5, <1>6, <1>7 DEF IInv, TypeOK, RegistriesStep

(* invoice_sync stores the external id. *)
LEMMA StoreExternalIdStep ==
  ASSUME IInv, NEW i \in Invoices, StoreExternalId(i)
  PROVE  RegistriesStep
<1> DEFINE row == [invoice[i] EXCEPT !.ext = TRUE]
<1>1. invoice[i] # NoInvoice /\ UNCHANGED <<provider, payment>>
  BY DEF StoreExternalId
<1>2. invoice[i] \in [total : Nat, charge : Nat, ext : BOOLEAN]
  BY <1>1 DEF IInv, TypeOK, InvoiceRow
<1>3. /\ row \in [total : Nat, charge : Nat, ext : BOOLEAN]
      /\ row.total = invoice[i].total /\ row.charge = invoice[i].charge /\ row.ext = TRUE
  BY <1>2
<1>4. row \in InvoiceRow /\ row # NoInvoice
  BY <1>3 DEF InvoiceRow, NoInvoice
<1>5. \A v \in Invoices : invoice'[v] = IF v = i THEN row ELSE invoice[v]
  BY DEF IInv, TypeOK, StoreExternalId
<1>6. invoice' \in [Invoices -> InvoiceRow]
  BY <1>4 DEF IInv, TypeOK, StoreExternalId
<1> HIDE DEF row
<1>7. RegistriesLinked'
  BY <1>1, <1>3, <1>4, <1>5 DEF IInv, RegistriesLinked
<1> QED BY <1>1, <1>3, <1>4, <1>5, <1>6, <1>7 DEF IInv, TypeOK, RegistriesStep

(* The invoice is paid. *)
LEMMA ProviderPaysStep ==
  ASSUME IInv, NEW i \in Invoices, NEW a, ProviderPays(i, a)
  PROVE  RegistriesStep
<1> DEFINE row == [provider[i] EXCEPT !.status = "paid", !.paid = a]
<1>1. /\ provider[i].status = "open" /\ provider[i] # Absent
      /\ a = None \/ a \in 0..provider[i].due
      /\ UNCHANGED <<payment, invoice>>
  BY DEF ProviderPays, Absent
<1>2. provider[i] \in ProviderRow BY DEF IInv, TypeOK
<1>3. /\ row.status = "paid" /\ row.due = provider[i].due /\ row.paid = a
      /\ row \in ProviderRow
  <2>1. provider[i] \in [status : {"absent", "open", "paid"}, due : Nat, paid : Nat \cup {None}]
    BY <1>2 DEF ProviderRow
  <2>2. a \in Nat \cup {None} /\ (a # None => a <= provider[i].due)
    BY <1>1, <2>1
  <2>3. /\ row.status = "paid" /\ row.due = provider[i].due /\ row.paid = a
        /\ row \in [status : {"absent", "open", "paid"}, due : Nat, paid : Nat \cup {None}]
    BY <2>1, <2>2
  <2> HIDE DEF row
  <2> QED BY <2>2, <2>3 DEF ProviderRow
<1>4. \A v \in Invoices : provider'[v] = IF v = i THEN row ELSE provider[v]
  BY DEF IInv, TypeOK, ProviderPays
<1>5. provider' \in [Invoices -> ProviderRow]
  BY <1>3 DEF IInv, TypeOK, ProviderPays
<1> HIDE DEF row
<1>6. RegistriesLinked'
  BY <1>1, <1>3, <1>4 DEF IInv, RegistriesLinked
<1> QED BY <1>1, <1>3, <1>4, <1>5, <1>6 DEF IInv, TypeOK, RegistriesStep

(* The payment is booked. *)
LEMMA BookPaymentStep ==
  ASSUME IInv, NEW i \in Invoices, BookPayment(i)
  PROVE  RegistriesStep
<1> DEFINE p == IF provider[i].paid = None THEN 0 ELSE provider[i].paid
<1>1. provider[i].status = "paid" /\ UNCHANGED <<provider, invoice>>
  BY DEF BookPayment
<1>2. p \in Nat /\ p <= provider[i].due
  BY DEF IInv, TypeOK, ProviderRow
<1>3. \A v \in Invoices : payment'[v] = IF v = i THEN p ELSE payment[v]
  BY DEF IInv, TypeOK, BookPayment
<1>4. payment' \in [Invoices -> Nat \cup {None}]
  BY <1>2 DEF IInv, TypeOK, BookPayment
<1> HIDE DEF p
<1>5. RegistriesLinked'
  BY <1>1, <1>2, <1>3 DEF IInv, RegistriesLinked
<1> QED BY <1>1, <1>4, <1>5 DEF IInv, TypeOK, RegistriesStep

(* Every change of the registries. *)
LEMMA RegistriesMove ==
  ASSUME IInv, Registries
  PROVE  RegistriesStep /\ UNCHANGED <<committed, job>>
<1>1. PICK i \in Invoices :
        \/ \E a \in Amounts : CloseInvoice(i, a) \/ ImportInvoice(i, a) \/ ProviderOpens(i, a)
        \/ StoreExternalId(i)
        \/ \E a \in Amounts \cup {0, None} : ProviderPays(i, a)
        \/ BookPayment(i)
  BY DEF Registries
<1>2. ASSUME NEW a \in Amounts, CloseInvoice(i, a)
      PROVE  RegistriesStep /\ UNCHANGED <<committed, job>>
  <2> DEFINE row == [NoInvoice EXCEPT !.total = a, !.charge = a]
  <2>1. a \in Nat BY ReconciliationAssumption
  <2>2. row.total = a /\ row \in [total : Nat, charge : Nat, ext : BOOLEAN]
    BY <2>1 DEF NoInvoice
  <2>3. row \in InvoiceRow /\ row # NoInvoice
    BY <2>1, <2>2, ReconciliationAssumption DEF InvoiceRow, NoInvoice
  <2>4. RegistriesStep BY <1>2, <2>3, NewInvoiceStep DEF CloseInvoice
  <2> QED BY <1>2, <2>4 DEF CloseInvoice, Move
<1>3. ASSUME NEW a \in Amounts, ImportInvoice(i, a)
      PROVE  RegistriesStep /\ UNCHANGED <<committed, job>>
  <2> DEFINE row == [NoInvoice EXCEPT !.total = a]
  <2>1. a \in Nat BY ReconciliationAssumption
  <2>2. row.total = a /\ row \in [total : Nat, charge : Nat, ext : BOOLEAN]
    BY <2>1 DEF NoInvoice
  <2>3. row \in InvoiceRow /\ row # NoInvoice
    BY <2>1, <2>2, ReconciliationAssumption DEF InvoiceRow, NoInvoice
  <2>4. RegistriesStep BY <1>3, <2>3, NewInvoiceStep DEF ImportInvoice
  <2> QED BY <1>3, <2>4 DEF ImportInvoice, Move
<1>4. ASSUME NEW a \in Amounts, ProviderOpens(i, a)
      PROVE  RegistriesStep /\ UNCHANGED <<committed, job>>
  BY <1>4, ProviderOpensStep DEF ProviderOpens, Move
<1>5. CASE StoreExternalId(i)
  BY <1>5, StoreExternalIdStep DEF StoreExternalId, Move
<1>6. ASSUME NEW a, ProviderPays(i, a)
      PROVE  RegistriesStep /\ UNCHANGED <<committed, job>>
  BY <1>6, ProviderPaysStep DEF ProviderPays, Move
<1>7. CASE BookPayment(i)
  BY <1>7, BookPaymentStep DEF BookPayment, Move
<1> QED BY <1>1, <1>2, <1>3, <1>4, <1>5, <1>6, <1>7

(* A run that does nothing itself: what it has read stays usable while the *)
(* registries move and while its history shrinks.                          *)
LEMMA JobKept ==
  ASSUME IInv, RegistriesStep, Remember, NEW w \in Workers, job'[w] = job[w]
  PROVE  JobInv(w)'
<1>1. JobInv(w) BY DEF IInv
<1>2. job[w].st \in Inserted => lasting'[w] \subseteq lasting[w]
  BY RememberLemma
<1>3. ListUsable(w)'
  <2> SUFFICES ASSUME job[w].st = "fetched" PROVE ListUsable(w)'
    BY DEF ListUsable
  <2>1. lasting'[w] \subseteq lasting[w] BY <1>2 DEF Inserted
  <2>2. /\ job[w].list \in [Invoices -> ProviderRow]
        /\ \A i \in Invoices :
             /\ job[w].list[i].status = "paid" => provider[i] = job[w].list[i]
             /\ <<"registries", i>> \in lasting[w] => job[w].list[i] # Absent
    BY <1>1 DEF JobInv, ListUsable
  <2>3. \A i \in Invoices : job[w].list[i].status = "paid" => provider'[i] = job[w].list[i]
    BY <2>2 DEF RegistriesStep
  <2> QED BY <2>1, <2>2, <2>3 DEF ListUsable
<1>4. RegistriesReported(w)'
  BY <1>1, <1>2 DEF JobInv, RegistriesReported, Inserted
<1>5. RowsCurrent(w)'
  <2> SUFFICES ASSUME job[w].st = "comparing" PROVE RowsCurrent(w)'
    BY DEF RowsCurrent
  <2>1. lasting'[w] \subseteq lasting[w] BY <1>2 DEF Inserted
  <2>2. RowsCurrent(w)!2 BY <1>1 DEF JobInv, RowsCurrent
  <2>3. job[w].rows \subseteq Invoices \X InvoiceRow BY DEF IInv, TypeOK, Job
  <2>4. ASSUME NEW r \in job[w].rows
        PROVE  /\ invoice'[r[1]] # NoInvoice /\ r[2] # NoInvoice
               /\ r[2].total = invoice'[r[1]].total /\ r[2].charge = invoice'[r[1]].charge
               /\ r[2].ext => invoice'[r[1]].ext
    <3>1. r[1] \in Invoices BY <2>3
    <3> QED BY <2>2, <3>1 DEF RegistriesStep
  <2> QED BY <2>1, <2>2, <2>4 DEF RowsCurrent
<1>6. \A x \in job[w].found : Gap(x)'
  <2>1. \A x \in job[w].found : x.inv \in Invoices /\ Gap(x)
    BY <1>1 DEF JobInv, IInv, TypeOK, Job, Difference
  <2> QED BY <2>1 DEF Gap, RegistriesStep
<1> QED BY <1>3, <1>4, <1>5, <1>6 DEF JobInv

(* The recorded gaps stay gaps. *)
LEMMA GapsKept ==
  ASSUME IInv, RegistriesStep
  PROVE  \A d \in discrepancies : Gap(d.what)'
<1>1. \A d \in discrepancies : d.what.inv \in Invoices /\ Gap(d.what)
  BY DEF IInv, TypeOK, Difference
<1> QED BY <1>1 DEF Gap, RegistriesStep

(* The registries move. *)
LEMMA RegistriesIInv ==
  ASSUME IInv, Registries, Remember
  PROVE  IInv'
<1>1. RegistriesStep /\ job' = job /\ run' = run /\ discrepancies' = discrepancies /\ outbox' = outbox
  BY RegistriesMove DEF committed
<1>2. \A w \in Workers : JobInv(w)'
  BY <1>1, JobKept
<1>3. TypeOK'
  BY <1>1, RememberLemma DEF IInv, TypeOK, RegistriesStep
<1>4. KeyHeld' /\ RunIsWhole'
  BY <1>1 DEF IInv, KeyHeld, RunIsWhole
<1>5. \A d \in discrepancies' : Gap(d.what)'
  BY <1>1, GapsKept
<1> QED BY <1>1, <1>2, <1>3, <1>4, <1>5 DEF IInv, RegistriesStep

(* The registries may also stand still. *)
LEMMA RegistriesStill ==
  ASSUME IInv, UNCHANGED registries
  PROVE  RegistriesStep
<1>1. provider' = provider /\ payment' = payment /\ invoice' = invoice
  BY DEF registries
<1>2. RegistriesLinked'
  BY <1>1 DEF IInv, RegistriesLinked
<1> QED BY <1>1, <1>2 DEF IInv, TypeOK, RegistriesStep

(* A step of a run before its commit, that leaves it with j. *)
LEMMA JobStep ==
  ASSUME IInv, Remember, UNCHANGED <<registries, committed>>,
         NEW w \in Workers, NEW j \in Job, Become(w, j),
         j.st \in Inserted \cup {"queued", "new"} => j.key \in Keys,
         j.st \in Inserted =>
           /\ run[j.key] = "none"
           /\ \A v \in Workers \ {w} : ~(job[v].st \in Inserted /\ job[v].key = j.key),
         JobInv(w)'
  PROVE  IInv'
<1>1. RegistriesStep BY RegistriesStill
<1>2. \A v \in Workers : job'[v] = IF v = w THEN j ELSE job[v]
  BY DEF IInv, TypeOK, Become
<1>3. job' \in [Workers -> Job]
  BY DEF IInv, TypeOK, Become
<1>4. run' = run /\ discrepancies' = discrepancies /\ outbox' = outbox
  BY DEF committed
<1>5. TypeOK'
  BY <1>1, <1>3, <1>4, RememberLemma DEF IInv, TypeOK, RegistriesStep
<1>6. \A v \in Workers : JobInv(v)'
  BY <1>1, <1>2, JobKept
<1>7. KeyHeld'
  <2>1. ASSUME NEW v \in Workers
        PROVE  /\ job'[v].st \in Inserted \cup {"queued", "new"} => job'[v].key \in Keys
               /\ job'[v].st \in Inserted => run[job'[v].key] = "none"
    BY <1>2 DEF IInv, KeyHeld
  <2>2. ASSUME NEW v \in Workers, NEW u \in Workers, u # v,
               job'[v].st \in Inserted, job'[u].st \in Inserted, job'[u].key = job'[v].key
        PROVE  FALSE
    <3>1. CASE v = w BY <2>2, <3>1, <1>2
    <3>2. CASE u = w BY <2>2, <3>2, <1>2
    <3>3. CASE u # w /\ v # w
      <4>1. job'[u] = job[u] /\ job'[v] = job[v] BY <3>3, <1>2
      <4> QED BY <2>2, <4>1 DEF IInv, KeyHeld
    <3> QED BY <3>1, <3>2, <3>3
  <2> QED BY <1>4, <2>1, <2>2 DEF KeyHeld
<1>8. RunIsWhole'
  BY <1>4 DEF IInv, RunIsWhole
<1>9. \A d \in discrepancies' : Gap(d.what)'
  BY <1>1, <1>4, GapsKept
<1> QED BY <1>1, <1>5, <1>6, <1>7, <1>8, <1>9 DEF IInv, RegistriesStep

-----------------------------------------------------------------------------
(* The steps of a run.                                                     *)

(* Before anything is read, and after the end, a job has nothing to keep   *)
(* but the gaps it has found.                                              *)
LEMMA NothingRead ==
  ASSUME UNCHANGED registries, NEW w, job'[w].st \notin {"fetched", "indexed", "comparing"},
         \A x \in job'[w].found : Gap(x)
  PROVE  JobInv(w)'
<1>1. invoice' = invoice BY DEF registries
<1>2. \A x \in job'[w].found : Gap(x)' BY <1>1 DEF Gap
<1> QED BY <1>2 DEF JobInv, ListUsable, RegistriesReported, RowsCurrent

(* A step to a job that starts, or starts over, or ends. *)
LEMMA FreshStep ==
  ASSUME IInv, Remember, UNCHANGED <<registries, committed>>,
         NEW w \in Workers, NEW j \in Job, Become(w, j),
         j.st \in {"queued", "done", "failed"}, j.key \in Keys, j.found = {}
  PROVE  IInv'
<1>1. job'[w] = j BY DEF IInv, TypeOK, Become
<1>2. j.st \notin Inserted /\ j.st \notin {"fetched", "indexed", "comparing"} BY DEF Inserted
<1>3. JobInv(w)' BY <1>1, <1>2, NothingRead
<1> QED BY <1>2, <1>3, JobStep

(* A run is requested. *)
LEMMA RequestIInv ==
  ASSUME IInv, Remember, NEW w \in Workers, NEW k \in Keys, Request(w, k)
  PROVE  IInv'
<1> DEFINE j == [NoJob EXCEPT !.st = "queued", !.key = k]
<1>1. j \in Job /\ j.st = "queued" /\ j.key = k /\ j.found = {} BY DEF NoJob, Job
<1>2. Become(w, j) /\ UNCHANGED <<registries, committed>> BY DEF Request
<1> HIDE DEF j
<1> QED BY <1>1, <1>2, FreshStep

(* The job of an attempt that raised. *)
LEMMA RetriedJob ==
  ASSUME IInv, NEW w \in Workers, job[w].key \in Keys
  PROVE  /\ Retried(w) \in Job
         /\ Retried(w).st \in {"queued", "done", "failed"} /\ Retried(w).key \in Keys
         /\ Retried(w).found = {}
<1>1. job[w].tries \in Nat BY DEF IInv, TypeOK, Job
<1>2. job[w].tries + 1 \in Nat BY <1>1
<1>3. CASE job[w].tries < Retries[w]
  <2> DEFINE j == [NoJob EXCEPT !.st = "queued", !.key = job[w].key, !.tries = job[w].tries + 1]
  <2>1. Retried(w) = j BY <1>3 DEF Retried
  <2>2. j \in Job /\ j.st = "queued" /\ j.key = job[w].key /\ j.found = {}
    BY <1>2 DEF NoJob, Job
  <2> HIDE DEF j
  <2> QED BY <2>1, <2>2
<1>4. CASE ~(job[w].tries < Retries[w])
  <2> DEFINE j == [NoJob EXCEPT !.st = "failed", !.key = job[w].key]
  <2>1. Retried(w) = j BY <1>4 DEF Retried
  <2>2. j \in Job /\ j.st = "failed" /\ j.key = job[w].key /\ j.found = {} BY DEF NoJob, Job
  <2> HIDE DEF j
  <2> QED BY <2>1, <2>2
<1> QED BY <1>3, <1>4

(* The key is looked up. *)
LEMMA LookUpIInv ==
  ASSUME IInv, Remember, NEW w \in Workers, LookUp(w)
  PROVE  IInv'
<1> DEFINE st == IF run[job[w].key] = "none" THEN "new" ELSE "done"
           j == [job[w] EXCEPT !.st = st]
<1>1. job[w] \in Job /\ job[w].st = "queued" /\ job[w].key \in Keys
  BY DEF IInv, TypeOK, LookUp, KeyHeld
<1>2. st \in {"new", "done"} OBVIOUS
<1> HIDE DEF st
<1>3. j \in Job /\ j.st = st /\ j.key = job[w].key /\ j.found = job[w].found
  BY <1>1, <1>2 DEF Job
<1>4. Become(w, j) /\ UNCHANGED <<registries, committed>>
  BY DEF LookUp, st
<1> HIDE DEF j
<1>5. job'[w] = j BY <1>4 DEF IInv, TypeOK, Become
<1>6. st \notin Inserted /\ st \notin {"fetched", "indexed", "comparing"} BY <1>2 DEF Inserted
<1>7. \A x \in job'[w].found : Gap(x) BY <1>3, <1>5 DEF IInv, JobInv
<1>8. JobInv(w)' BY <1>3, <1>4, <1>5, <1>6, <1>7, NothingRead
<1> QED BY <1>1, <1>3, <1>4, <1>6, <1>8, JobStep

(* The row is inserted: the unique index keeps every other run of the key  *)
(* out.                                                                    *)
LEMMA InsertRunIInv ==
  ASSUME IInv, Remember, NEW w \in Workers, InsertRun(w)
  PROVE  IInv'
<1> DEFINE j == [job[w] EXCEPT !.st = "inserted"]
<1>1. /\ job[w] \in Job /\ job[w].st = "new" /\ job[w].key \in Keys
      /\ run[job[w].key] = "none" /\ ~KeyInserted(w)
      /\ Become(w, j) /\ UNCHANGED <<registries, committed>>
  BY DEF IInv, TypeOK, InsertRun, KeyHeld
<1>2. j \in Job /\ j.st = "inserted" /\ j.key = job[w].key /\ j.found = job[w].found
  BY <1>1 DEF Job, Inserted
<1> HIDE DEF j
<1>3. job'[w] = j BY <1>1 DEF IInv, TypeOK, Become
<1>4. \A x \in job'[w].found : Gap(x) BY <1>2, <1>3 DEF IInv, JobInv
<1>5. JobInv(w)' BY <1>1, <1>2, <1>3, <1>4, NothingRead
<1>6. \A v \in Workers \ {w} : ~(job[v].st \in Inserted /\ job[v].key = j.key)
  BY <1>1, <1>2 DEF KeyInserted
<1> QED BY <1>1, <1>2, <1>5, <1>6, JobStep

(* The insert finds the key taken. *)
LEMMA InsertConflictsIInv ==
  ASSUME IInv, Remember, NEW w \in Workers, InsertConflicts(w)
  PROVE  IInv'
<1>1. job[w].key \in Keys BY DEF IInv, KeyHeld, InsertConflicts
<1> QED BY <1>1, RetriedJob, FreshStep DEF InsertConflicts

(* The attempt raises. *)
LEMMA FailRunIInv ==
  ASSUME IInv, Remember, NEW w \in Workers, FailRun(w)
  PROVE  IInv'
<1>1. job[w].key \in Keys BY DEF IInv, KeyHeld, FailRun
<1> QED BY <1>1, RetriedJob, FreshStep DEF FailRun

(* The process dies. *)
LEMMA DieIInv ==
  ASSUME IInv, Remember, NEW w \in Workers, NEW redelivered \in BOOLEAN, Die(w, redelivered)
  PROVE  IInv'
<1>1. job[w].key \in Keys /\ job[w].tries \in Nat BY DEF IInv, TypeOK, Job, KeyHeld, Die
<1>2. CASE redelivered
  <2> DEFINE j == [NoJob EXCEPT !.st = "queued", !.key = job[w].key, !.tries = job[w].tries]
  <2>1. Become(w, j) /\ UNCHANGED <<registries, committed>> BY <1>2 DEF Die
  <2>2. j \in Job /\ j.st = "queued" /\ j.key = job[w].key /\ j.found = {} BY <1>1 DEF NoJob, Job
  <2> HIDE DEF j
  <2> QED BY <1>1, <2>1, <2>2, FreshStep
<1>3. CASE ~redelivered
  <2> DEFINE j == [NoJob EXCEPT !.st = "failed", !.key = job[w].key]
  <2>1. Become(w, j) /\ UNCHANGED <<registries, committed>> BY <1>3 DEF Die
  <2>2. j \in Job /\ j.st = "failed" /\ j.key = job[w].key /\ j.found = {} BY <1>1 DEF NoJob, Job
  <2> HIDE DEF j
  <2> QED BY <1>1, <2>1, <2>2, FreshStep
<1> QED BY <1>2, <1>3

(* The job that keeps its key and goes on. *)
LEMMA GoesOn ==
  ASSUME IInv, Remember, UNCHANGED <<registries, committed>>,
         NEW w \in Workers, NEW j \in Job, Become(w, j),
         job[w].st \in Inserted, j.st \in Inserted, j.key = job[w].key, JobInv(w)'
  PROVE  IInv'
<1>1. /\ job[w].key \in Keys /\ run[job[w].key] = "none"
      /\ \A v \in Workers \ {w} : ~(job[v].st \in Inserted /\ job[v].key = job[w].key)
  BY DEF IInv, KeyHeld
<1> QED BY <1>1, JobStep

(* The provider's list is fetched: what it does not show has no payment    *)
(* either, so the registries agree on it at this moment.                   *)
LEMMA FetchIInv ==
  ASSUME IInv, Remember, NEW w \in Workers, FetchStripeInvoices(w)
  PROVE  IInv'
<1> DEFINE j == [job[w] EXCEPT !.st = "fetched", !.list = provider]
<1>1. /\ job[w] \in Job /\ job[w].st = "inserted"
      /\ Become(w, j) /\ UNCHANGED <<registries, committed>>
      /\ provider \in [Invoices -> ProviderRow]
  BY DEF IInv, TypeOK, FetchStripeInvoices
<1>2. /\ j \in Job /\ j.st = "fetched" /\ j.key = job[w].key /\ j.found = job[w].found
      /\ j.list = provider
  BY <1>1 DEF Job, Inserted
<1> HIDE DEF j
<1>3. job'[w] = j BY <1>1 DEF IInv, TypeOK, Become
<1>4. provider' = provider /\ payment' = payment /\ invoice' = invoice
  BY <1>1 DEF registries
<1>5. ASSUME NEW i \in Invoices, <<"registries", i>> \in lasting'[w] PROVE provider[i] # Absent
  <2>1. lasting'[w] \subseteq lasting[w]
    BY <1>1, <1>2, <1>3, RememberLemma DEF Inserted
  <2>2. <<"registries", i>> \in Differences BY <1>5, <2>1 DEF IInv, TypeOK
  <2>3. ~RegistriesAgree(i) BY <2>2, Zenon DEF Differences
  <2>4. provider[i] = Absent => payment[i] = None BY DEF IInv, RegistriesLinked, Absent
  <2> QED BY <2>3, <2>4 DEF RegistriesAgree
<1>6. JobInv(w)'
  <2>1. ListUsable(w)' BY <1>1, <1>2, <1>3, <1>4, <1>5 DEF ListUsable
  <2>2. RegistriesReported(w)' /\ RowsCurrent(w)'
    BY <1>2, <1>3 DEF RegistriesReported, RowsCurrent
  <2>3. \A x \in job'[w].found : Gap(x)' BY <1>2, <1>3, <1>4 DEF IInv, JobInv, Gap
  <2> QED BY <2>1, <2>2, <2>3 DEF JobInv
<1> QED BY <1>1, <1>2, <1>6, GoesOn DEF Inserted

(* The payments are read and compared with the list: a difference that     *)
(* lasts is on the list, and what the list shows as paid is still so.      *)
LEMMA LoadPlatformIndexIInv ==
  ASSUME IInv, Remember, NEW w \in Workers, LoadPlatformIndex(w)
  PROVE  IInv'
<1> DEFINE list == job[w].list
           found == DetectDiscrepancies(list, payment)
           j == [job[w] EXCEPT !.st = "indexed", !.list = None, !.found = found]
<1>1. /\ job[w] \in Job /\ job[w].st = "fetched"
      /\ Become(w, j) /\ UNCHANGED <<registries, committed>>
      /\ payment \in [Invoices -> Nat \cup {None}]
  BY DEF IInv, TypeOK, LoadPlatformIndex
<1>2. /\ list \in [Invoices -> ProviderRow]
      /\ \A i \in Invoices :
           /\ list[i].status = "paid" => provider[i] = list[i]
           /\ <<"registries", i>> \in lasting[w] => list[i] # Absent
  BY <1>1 DEF IInv, JobInv, ListUsable
<1> HIDE DEF list, found
<1>3. \A x \in found : x \in Difference /\ x.kind # Ledger
  BY <1>1, <1>2, DetectTypes DEF found
<1>4. j \in Job /\ j.st = "indexed" /\ j.key = job[w].key /\ j.found = found
  BY <1>1, <1>3 DEF Job, Inserted
<1> HIDE DEF j
<1>5. job'[w] = j BY <1>1 DEF IInv, TypeOK, Become
<1>6. ASSUME NEW i \in Invoices, <<"registries", i>> \in lasting'[w]
      PROVE  \E x \in found : x.inv = i /\ x.kind # Ledger
  <2>1. lasting'[w] \subseteq lasting[w]
    BY <1>1, <1>4, <1>5, RememberLemma DEF Inserted
  <2>2. <<"registries", i>> \in Differences /\ list[i] # Absent
    BY <1>2, <1>6, <2>1 DEF IInv, TypeOK
  <2>3. ~RegistriesAgree(i) BY <2>2, Zenon DEF Differences
  <2>4. ~(list[i].status = "paid" /\ payment[i] = StripeAmount(list[i]))
    BY <1>2, <2>3 DEF RegistriesAgree
  <2> QED BY <1>1, <1>2, <2>2, <2>4, DetectFinds DEF found
<1>7. JobInv(w)'
  <2>1. RegistriesReported(w)' BY <1>4, <1>5, <1>6 DEF RegistriesReported
  <2>2. ListUsable(w)' /\ RowsCurrent(w)' BY <1>4, <1>5 DEF ListUsable, RowsCurrent
  <2>3. \A x \in job'[w].found : Gap(x)' BY <1>3, <1>4, <1>5 DEF Gap
  <2> QED BY <2>1, <2>2, <2>3 DEF JobInv
<1> QED BY <1>1, <1>4, <1>7, GoesOn DEF Inserted

(* The invoices are read. *)
LEMMA LoadInvoicesIInv ==
  ASSUME IInv, Remember, NEW w \in Workers, LoadInvoices(w)
  PROVE  IInv'
<1> DEFINE rows == {<<i, invoice[i]>> : i \in {v \in Invoices : invoice[v] # NoInvoice}}
           j == [job[w] EXCEPT !.st = "comparing", !.rows = rows]
<1>1. /\ job[w] \in Job /\ job[w].st = "indexed"
      /\ Become(w, j) /\ UNCHANGED <<registries, committed>>
      /\ invoice \in [Invoices -> InvoiceRow]
  BY DEF IInv, TypeOK, LoadInvoices
<1>2. \A r \in rows : /\ r \in Invoices \X InvoiceRow
                      /\ invoice[r[1]] # NoInvoice /\ r[2] = invoice[r[1]]
  BY <1>1
<1>3. \A i \in Invoices : invoice[i] # NoInvoice => \E r \in rows : r[1] = i
  <2> TAKE i \in Invoices
  <2> HAVE invoice[i] # NoInvoice
  <2>1. <<i, invoice[i]>> \in rows OBVIOUS
  <2>2. <<i, invoice[i]>>[1] = i OBVIOUS
  <2> QED BY <2>1, <2>2
<1> HIDE DEF rows
<1>4. j \in Job /\ j.st = "comparing" /\ j.key = job[w].key /\ j.found = job[w].found /\ j.rows = rows
  BY <1>1, <1>2 DEF Job, Inserted
<1> HIDE DEF j
<1>5. job'[w] = j BY <1>1 DEF IInv, TypeOK, Become
<1>6. lasting'[w] \subseteq lasting[w]
  BY <1>1, <1>4, <1>5, RememberLemma DEF Inserted
<1>7. invoice' = invoice BY <1>1 DEF registries
<1>8. ASSUME NEW i \in Invoices, <<"books", i>> \in lasting'[w] PROVE \E r \in rows : r[1] = i
  <2>1. <<"books", i>> \in Differences BY <1>6, <1>8 DEF IInv, TypeOK
  <2>2. ~BooksAgree(i) BY <2>1, Zenon DEF Differences
  <2> QED BY <1>3, <2>2 DEF BooksAgree
<1>9. JobInv(w)'
  <2>1. RegistriesReported(w)'
    BY <1>1, <1>4, <1>5, <1>6 DEF IInv, JobInv, RegistriesReported
  <2>2. RowsCurrent(w)' BY <1>2, <1>4, <1>5, <1>7, <1>8 DEF RowsCurrent
  <2>3. ListUsable(w)' BY <1>4, <1>5 DEF ListUsable
  <2>4. \A x \in job'[w].found : Gap(x)' BY <1>4, <1>5, <1>7 DEF IInv, JobInv, Gap
  <2> QED BY <2>1, <2>2, <2>3, <2>4 DEF JobInv
<1> QED BY <1>1, <1>4, <1>9, GoesOn DEF Inserted

(* One invoice is compared. *)
LEMMA CompareInvoiceIInv ==
  ASSUME IInv, Remember, NEW w \in Workers, NEW r \in job[w].rows, CompareInvoice(w, r)
  PROVE  IInv'
<1> DEFINE new == CompareLedgerToInvoice(r[1], r[2])
           j == [job[w] EXCEPT !.rows = @ \ {r}, !.found = @ \cup new]
<1>1. /\ job[w] \in Job /\ job[w].st = "comparing"
      /\ Become(w, j) /\ UNCHANGED <<registries, committed>>
  BY DEF IInv, TypeOK, CompareInvoice
<1>2. r[1] \in Invoices /\ r[2] \in InvoiceRow
  BY <1>1 DEF Job
<1>3. /\ \A q \in job[w].rows :
           /\ invoice[q[1]] # NoInvoice /\ q[2] # NoInvoice
           /\ q[2].total = invoice[q[1]].total /\ q[2].charge = invoice[q[1]].charge
           /\ q[2].ext => invoice[q[1]].ext
      /\ \A i \in Invoices : <<"books", i>> \in lasting[w] =>
           \/ \E q \in job[w].rows : q[1] = i
           \/ \E x \in job[w].found : x.inv = i /\ x.kind = Ledger
  BY <1>1 DEF IInv, JobInv, RowsCurrent
<1>4. /\ \A x \in new : /\ x \in Difference /\ x.inv = r[1] /\ x.kind = Ledger
                        /\ invoice[r[1]].total # invoice[r[1]].charge
      /\ ~BooksAgree(r[1]) => \E x \in new : x.inv = r[1] /\ x.kind = Ledger
  BY <1>2, <1>3, CompareLemma DEF IInv
<1> HIDE DEF new
<1>5. /\ j \in Job /\ j.st = "comparing" /\ j.key = job[w].key
      /\ j.found = job[w].found \cup new /\ j.rows = job[w].rows \ {r}
  BY <1>1, <1>4 DEF Job, Inserted
<1> HIDE DEF j
<1>6. job'[w] = j BY <1>1 DEF IInv, TypeOK, Become
<1>7. lasting'[w] \subseteq lasting[w]
  BY <1>1, <1>5, <1>6, RememberLemma DEF Inserted
<1>8. invoice' = invoice BY <1>1 DEF registries
<1>9. ASSUME NEW i \in Invoices, <<"books", i>> \in lasting'[w]
      PROVE  \/ \E q \in j.rows : q[1] = i
             \/ \E x \in j.found : x.inv = i /\ x.kind = Ledger
  <2>1. <<"books", i>> \in Differences BY <1>7, <1>9 DEF IInv, TypeOK
  <2>2. ~BooksAgree(i) BY <2>1, Zenon DEF Differences
  <2>3. CASE i = r[1] BY <1>4, <1>5, <2>2, <2>3
  <2>4. CASE i # r[1] BY <1>3, <1>5, <1>7, <1>9, <2>4
  <2> QED BY <2>3, <2>4
<1>10. JobInv(w)'
  <2>1. RegistriesReported(w)'
    BY <1>1, <1>5, <1>6, <1>7 DEF IInv, JobInv, RegistriesReported
  <2>2. RowsCurrent(w)' BY <1>3, <1>5, <1>6, <1>8, <1>9 DEF RowsCurrent
  <2>3. ListUsable(w)' BY <1>5, <1>6 DEF ListUsable
  <2>4. \A x \in job'[w].found : Gap(x)'
    BY <1>2, <1>3, <1>4, <1>5, <1>6, <1>8 DEF IInv, JobInv, Gap
  <2> QED BY <2>1, <2>2, <2>3, <2>4 DEF JobInv
<1> QED BY <1>1, <1>5, <1>10, GoesOn DEF Inserted

(* What a commit writes. *)
LEMMA CommitEffect ==
  ASSUME IInv, NEW w \in Workers, CommitRun(w)
  PROVE  /\ job[w].key \in Keys /\ run[job[w].key] = "none"
         /\ job[w].st = "comparing" /\ job[w].rows = {}
         /\ job[w].found \subseteq Difference
         /\ \A k \in Keys : run'[k] = IF k = job[w].key THEN "completed" ELSE run[k]
         /\ discrepancies' = discrepancies \cup {[key |-> job[w].key, what |-> d] : d \in job[w].found}
         /\ outbox' = outbox \cup Events(job[w].key, job[w].found)
         /\ Become(w, [NoJob EXCEPT !.st = "done", !.key = job[w].key])
         /\ UNCHANGED registries
<1>1. job[w].st = "comparing" BY DEF CommitRun
<1>2. job[w].st \in Inserted BY <1>1 DEF Inserted
<1>3. job[w].key \in Keys /\ run[job[w].key] = "none"
  BY <1>2 DEF IInv, KeyHeld
<1>4. /\ run' = [run EXCEPT ![job[w].key] = "completed"]
      /\ discrepancies' = discrepancies \cup {[key |-> job[w].key, what |-> d] : d \in job[w].found}
      /\ outbox' = outbox \cup Events(job[w].key, job[w].found)
      /\ Become(w, [NoJob EXCEPT !.st = "done", !.key = job[w].key])
      /\ UNCHANGED registries
  BY DEF CommitRun
<1>5. \A k \in Keys : run'[k] = IF k = job[w].key THEN "completed" ELSE run[k]
  BY <1>3, <1>4 DEF IInv, TypeOK
<1> QED BY <1>1, <1>3, <1>4, <1>5 DEF CommitRun, IInv, TypeOK, Job

(* A commit writes the rows of its key only. *)
LEMMA CommitRows ==
  ASSUME IInv, NEW w \in Workers, CommitRun(w)
  PROVE  /\ \A d \in discrepancies' : d \in discrepancies \/ (d.key = job[w].key /\ d.what \in job[w].found)
         /\ \A x \in job[w].found : \E d \in discrepancies' : d.key = job[w].key /\ d.what = x
         /\ discrepancies \subseteq discrepancies'
         /\ \A d \in discrepancies : d.key # job[w].key
         /\ discrepancies' \in SUBSET [key : Keys, what : Difference]
<1> DEFINE k == job[w].key
           row(x) == [key |-> k, what |-> x]
<1>1. /\ k \in Keys /\ run[k] = "none" /\ job[w].found \subseteq Difference
      /\ discrepancies' = discrepancies \cup {row(x) : x \in job[w].found}
  BY CommitEffect
<1>2. \A x : row(x).key = k /\ row(x).what = x OBVIOUS
<1>3. \A x \in job[w].found : row(x) \in [key : Keys, what : Difference]
  BY <1>1
<1> HIDE DEF row
<1>4. \A d \in discrepancies : d.key # k
  BY <1>1 DEF IInv, RunIsWhole
<1> HIDE DEF k
<1>5. \A x \in job[w].found : row(x) \in discrepancies' BY <1>1
<1>6. \A d \in discrepancies' : d \in discrepancies \/ \E x \in job[w].found : d = row(x)
  BY <1>1
<1>7. \A d \in discrepancies' : d \in [key : Keys, what : Difference]
  BY <1>3, <1>6 DEF IInv, TypeOK
<1>8. \A d \in discrepancies' : d \in discrepancies \/ (d.key = k /\ d.what \in job[w].found)
  BY <1>2, <1>6
<1>9. \A x \in job[w].found : \E d \in discrepancies' : d.key = k /\ d.what = x
  BY <1>2, <1>5
<1> QED BY <1>1, <1>4, <1>7, <1>8, <1>9 DEF k

(* The run is recorded whole. *)
LEMMA CommitWhole ==
  ASSUME IInv, NEW w \in Workers, CommitRun(w)
  PROVE  RunIsWhole'
<1> DEFINE Large(d) == d.delta # None /\ (d.delta >= Threshold \/ -d.delta >= Threshold)
           c == job[w].key
           found == job[w].found
<1>1. /\ c \in Keys /\ found \subseteq Difference
      /\ \A k \in Keys : run'[k] = IF k = c THEN "completed" ELSE run[k]
      /\ outbox' = outbox \cup Events(c, found)
  BY CommitEffect
<1>2. /\ \A d \in discrepancies' : d \in discrepancies \/ (d.key = c /\ d.what \in found)
      /\ \A x \in found : \E d \in discrepancies' : d.key = c /\ d.what = x
      /\ discrepancies \subseteq discrepancies'
      /\ \A d \in discrepancies : d.key # c
  BY CommitRows
<1>3. \A k \in Keys :
        /\ run[k] # "none" => run[k] = "completed"
        /\ <<k, "completed">> \in outbox <=> run[k] = "completed"
        /\ <<k, "mismatch">> \in outbox <=> \E d \in discrepancies : d.key = k /\ Large(d.what)
        /\ (\E d \in discrepancies : d.key = k) => run[k] = "completed"
  BY DEF IInv, RunIsWhole
<1>4. \A x \in found : Material(x) <=> Large(x)
  BY <1>1, MaterialLemma
<1> HIDE DEF Large, c, found
<1>5. /\ <<c, "completed">> \in Events(c, found)
      /\ <<c, "mismatch">> \in Events(c, found) <=> \E x \in found : Large(x)
  BY <1>4 DEF Events
<1>6. \A k : k # c => <<k, "completed">> \notin Events(c, found) /\ <<k, "mismatch">> \notin Events(c, found)
  BY DEF Events
<1>7. ASSUME NEW k \in Keys
      PROVE  /\ run'[k] # "none" => run'[k] = "completed"
             /\ <<k, "completed">> \in outbox' <=> run'[k] = "completed"
             /\ <<k, "mismatch">> \in outbox' <=> \E d \in discrepancies' : d.key = k /\ Large(d.what)
             /\ (\E d \in discrepancies' : d.key = k) => run'[k] = "completed"
  <2>1. CASE k = c
    <3>1. run'[k] = "completed" /\ <<k, "completed">> \in outbox' BY <1>1, <1>5, <2>1
    <3>2. <<k, "mismatch">> \notin outbox BY <1>2, <1>3, <2>1
    <3>3. <<k, "mismatch">> \in outbox' <=> \E x \in found : Large(x)
      BY <1>1, <1>5, <2>1, <3>2
    <3>4. (\E x \in found : Large(x)) <=> \E d \in discrepancies' : d.key = k /\ Large(d.what)
      BY <1>2, <2>1
    <3> QED BY <3>1, <3>3, <3>4
  <2>2. CASE k # c
    <3>1. run'[k] = run[k] BY <1>1, <2>2
    <3>2. /\ <<k, "completed">> \in outbox' <=> <<k, "completed">> \in outbox
          /\ <<k, "mismatch">> \in outbox' <=> <<k, "mismatch">> \in outbox
      BY <1>1, <1>6, <2>2
    <3>3. \A d : d \in discrepancies' /\ d.key = k <=> d \in discrepancies /\ d.key = k
      BY <1>2, <2>2
    <3> QED BY <1>3, <3>1, <3>2, <3>3
  <2> QED BY <2>1, <2>2
<1> QED BY <1>7 DEF RunIsWhole, Large

(* The commit keeps the invariant. *)
LEMMA CommitRunIInv ==
  ASSUME IInv, Remember, NEW w \in Workers, CommitRun(w)
  PROVE  IInv'
<1> DEFINE j == [NoJob EXCEPT !.st = "done", !.key = job[w].key]
<1>1. /\ job[w].key \in Keys /\ job[w].st = "comparing"
      /\ \A k \in Keys : run'[k] = IF k = job[w].key THEN "completed" ELSE run[k]
      /\ Become(w, j) /\ UNCHANGED registries
  BY CommitEffect
<1>2. j \in Job /\ j.st = "done" /\ j.key = job[w].key /\ j.found = {}
  BY <1>1 DEF NoJob, Job
<1> HIDE DEF j
<1>3. /\ \A v \in Workers : job'[v] = IF v = w THEN j ELSE job[v]
      /\ job' \in [Workers -> Job]
  BY <1>1, <1>2 DEF IInv, TypeOK, Become
<1>4. RegistriesStep BY <1>1, RegistriesStill
<1>5. run' \in [Keys -> {"none", "completed"}] BY DEF IInv, TypeOK, CommitRun
<1>6. TypeOK'
  BY <1>3, <1>4, <1>5, CommitRows, RememberLemma DEF TypeOK, RegistriesStep
<1>7. KeyHeld'
  <2>1. ASSUME NEW v \in Workers, v # w
        PROVE  /\ job[v].st \in Inserted => job[v].key # job[w].key
               /\ job[v].st \in Inserted => run'[job[v].key] = "none"
    BY <1>1, <2>1 DEF IInv, KeyHeld, Inserted
  <2>2. j.st \notin Inserted \cup {"queued", "new"} BY <1>2 DEF Inserted
  <2> QED BY <1>3, <2>1, <2>2 DEF IInv, KeyHeld
<1>8. \A v \in Workers : JobInv(v)'
  <2>1. JobInv(w)' BY <1>1, <1>2, <1>3, NothingRead
  <2>2. ASSUME NEW v \in Workers, v # w PROVE JobInv(v)' BY <1>3, <1>4, <2>2, JobKept
  <2> QED BY <2>1, <2>2
<1>9. \A d \in discrepancies' : Gap(d.what)'
  <2>1. \A d \in discrepancies : Gap(d.what)' BY <1>4, GapsKept
  <2>2. invoice' = invoice BY <1>1 DEF registries
  <2>3. \A x \in job[w].found : Gap(x)' BY <2>2 DEF IInv, JobInv, Gap
  <2>4. \A d \in discrepancies' : d \in discrepancies \/ d.what \in job[w].found BY CommitRows
  <2> QED BY <2>1, <2>3, <2>4
<1> QED BY <1>4, <1>6, <1>7, <1>8, <1>9, CommitWhole DEF IInv, RegistriesStep

-----------------------------------------------------------------------------
(* The theorems.                                                           *)

(* Nothing changes. *)
LEMMA StutterIInv ==
  ASSUME IInv, UNCHANGED vars
  PROVE  IInv'
<1>1. /\ provider' = provider /\ payment' = payment /\ invoice' = invoice
      /\ run' = run /\ discrepancies' = discrepancies /\ outbox' = outbox
      /\ job' = job /\ lasting' = lasting
  BY DEF vars, registries, committed
<1>2. TypeOK' BY <1>1 DEF IInv, TypeOK, Differences, RegistriesAgree, BooksAgree
<1>3. RegistriesLinked' /\ KeyHeld' /\ RunIsWhole'
  BY <1>1 DEF IInv, RegistriesLinked, KeyHeld, RunIsWhole
<1>4. \A w \in Workers : JobInv(w)'
  BY <1>1 DEF IInv, JobInv, ListUsable, RegistriesReported, RowsCurrent, Gap
<1>5. \A d \in discrepancies' : Gap(d.what)' BY <1>1 DEF IInv, Gap
<1> QED BY <1>2, <1>3, <1>4, <1>5 DEF IInv

(* A step is a move of the registries, or one of the steps of a run. *)
LEMMA NextIInv ==
  ASSUME IInv, [Next]_vars
  PROVE  IInv'
<1>1. CASE UNCHANGED vars BY <1>1, StutterIInv
<1>2. CASE Next
  <2>1. Remember BY <1>2 DEF Next
  <2>2. CASE Registries BY <2>1, <2>2, RegistriesIInv
  <2>3. ASSUME NEW w \in Workers, Run(w) PROVE IInv'
    <3>1. CASE \E k \in Keys : Request(w, k) BY <2>1, <3>1, RequestIInv
    <3>2. CASE LookUp(w) BY <2>1, <3>2, LookUpIInv
    <3>3. CASE InsertRun(w) BY <2>1, <3>3, InsertRunIInv
    <3>4. CASE InsertConflicts(w) BY <2>1, <3>4, InsertConflictsIInv
    <3>5. CASE FetchStripeInvoices(w) BY <2>1, <3>5, FetchIInv
    <3>6. CASE LoadPlatformIndex(w) BY <2>1, <3>6, LoadPlatformIndexIInv
    <3>7. CASE LoadInvoices(w) BY <2>1, <3>7, LoadInvoicesIInv
    <3>8. CASE \E r \in job[w].rows : CompareInvoice(w, r) BY <2>1, <3>8, CompareInvoiceIInv
    <3>9. CASE CommitRun(w) BY <2>1, <3>9, CommitRunIInv
    <3>10. CASE FailRun(w) BY <2>1, <3>10, FailRunIInv
    <3>11. CASE \E redelivered \in BOOLEAN : Die(w, redelivered) BY <2>1, <3>11, DieIInv
    <3> QED BY <2>3, <3>1, <3>2, <3>3, <3>4, <3>5, <3>6, <3>7, <3>8, <3>9, <3>10, <3>11
            DEF Run, Progress
  <2> QED BY <1>2, <2>2, <2>3 DEF Next
<1> QED BY <1>1, <1>2

(* Initially nothing is recorded, read or open. *)
LEMMA InitIInv ==
  ASSUME Init
  PROVE  IInv
<1>1. Absent \in ProviderRow /\ NoJob \in Job /\ NoJob.st = "idle" /\ NoJob.found = {}
  BY ReconciliationAssumption DEF Absent, ProviderRow, NoJob, Job
<1>2. TypeOK BY <1>1 DEF Init, TypeOK, InvoiceRow
<1>3. RegistriesLinked BY DEF Init, RegistriesLinked
<1>4. KeyHeld BY <1>1 DEF Init, KeyHeld, Inserted
<1>5. \A w \in Workers : JobInv(w)
  BY <1>1 DEF Init, JobInv, ListUsable, RegistriesReported, RowsCurrent
<1>6. RunIsWhole /\ \A d \in discrepancies : Gap(d.what) BY DEF Init, RunIsWhole
<1> QED BY <1>2, <1>3, <1>4, <1>5, <1>6 DEF IInv

(* The inductive invariant of the reconciliation runs. *)
THEOREM Invariance == Spec => []IInv
<1>1. Init => IInv BY InitIInv
<1>2. IInv /\ [Next]_vars => IInv' BY NextIInv
<1> QED BY <1>1, <1>2, PTL DEF Spec

(* A failed, retried or repeated run never leaves half a result: status,   *)
(* discrepancies and events of a key belong together (reconciliation.py,   *)
(* run_reconciliation).                                                    *)
THEOREM RunWhole == Spec => []RunIsWhole
<1>1. IInv => RunIsWhole BY DEF IInv
<1> QED BY <1>1, Invariance, PTL

(* compare_ledger_to_invoice never reports an invoice that its charge      *)
(* covers, whenever the statements of the run are executed.                *)
THEOREM ChargedNotReported == Spec => []ChargedInvoiceNeverReported
<1>1. IInv => ChargedInvoiceNeverReported BY DEF IInv, Gap, Ledger, ChargedInvoiceNeverReported
<1> QED BY <1>1, Invariance, PTL

(* The run of a key is final: no later or concurrent run of that key       *)
(* changes its status or its discrepancies (the unique idempotency_key).   *)
THEOREM RunFrozen == Spec => RunIsFrozen
<1> DEFINE A == \A k \in Keys : run[k] # "none" =>
                  /\ run'[k] = run[k]
                  /\ {d \in discrepancies' : d.key = k} = {d \in discrepancies : d.key = k}
<1>1. IInv /\ [Next]_vars => [A]_vars
  <2> SUFFICES ASSUME IInv, Next PROVE A OBVIOUS
  <2>1. CASE \E w \in Workers : CommitRun(w)
    <3>1. PICK w \in Workers : CommitRun(w) BY <2>1
    <3>2. run[job[w].key] = "none" /\ \A k \in Keys : k # job[w].key => run'[k] = run[k]
      BY <3>1, CommitEffect
    <3>3. /\ \A d \in discrepancies' : d \in discrepancies \/ d.key = job[w].key
          /\ discrepancies \subseteq discrepancies'
      BY <3>1, CommitRows
    <3> QED BY <3>2, <3>3
  <2>2. CASE ~\E w \in Workers : CommitRun(w)
    <3>1. UNCHANGED committed
      BY <2>2, RegistriesMove DEF Next, Run, Progress, Request, LookUp, InsertRun, InsertConflicts,
            FetchStripeInvoices, LoadPlatformIndex, LoadInvoices, CompareInvoice, FailRun, Die
    <3> QED BY <3>1 DEF committed
  <2> QED BY <2>1, <2>2
<1> QED BY <1>1, Invariance, PTL DEF Spec, RunIsFrozen

(* Whatever differs from the INSERT of a run to its commit is reported by  *)
(* it, although provider, payments and invoices are read one after the     *)
(* other while all of them move.                                           *)
THEOREM LastingReported == Spec => LastingDifferenceReported
<1> DEFINE A == \A w \in Workers : CommitRun(w) =>
                  \A d \in lasting[w] : \E x \in job[w].found :
                    x.inv = d[2] /\ (x.kind = "ledger_invoice_mismatch" <=> d[1] = "books")
<1>1. IInv => A
  <2> SUFFICES ASSUME IInv, NEW w \in Workers, CommitRun(w), NEW d \in lasting[w]
               PROVE  \E x \in job[w].found :
                        x.inv = d[2] /\ (x.kind = "ledger_invoice_mismatch" <=> d[1] = "books")
    OBVIOUS
  <2>1. job[w].st = "comparing" /\ job[w].rows = {} BY CommitEffect
  <2>2. RegistriesReported(w) /\ RowsCurrent(w) BY DEF IInv, JobInv
  <2>3. d \in Differences BY DEF IInv, TypeOK
  <2>4. \/ \E i \in Invoices : d = <<"registries", i>>
        \/ \E i \in Invoices : d = <<"books", i>>
    BY <2>3 DEF Differences
  <2>5. CASE \E i \in Invoices : d = <<"registries", i>>
    <3>1. PICK i \in Invoices : d = <<"registries", i>> BY <2>5
    <3>2. d[1] = "registries" /\ d[2] = i BY <3>1
    <3>3. \E x \in job[w].found : x.inv = i /\ x.kind # Ledger
      BY <2>1, <2>2, <3>1 DEF RegistriesReported
    <3> QED BY <3>2, <3>3 DEF Ledger
  <2>6. CASE \E i \in Invoices : d = <<"books", i>>
    <3>1. PICK i \in Invoices : d = <<"books", i>> BY <2>6
    <3>2. d[1] = "books" /\ d[2] = i BY <3>1
    <3>3. \E x \in job[w].found : x.inv = i /\ x.kind = Ledger
      BY <2>1, <2>2, <3>1 DEF RowsCurrent
    <3> QED BY <3>2, <3>3 DEF Ledger
  <2> QED BY <2>4, <2>5, <2>6
<1>2. IInv /\ [Next]_vars => [A]_vars BY <1>1
<1> QED BY <1>2, Invariance, PTL DEF Spec, LastingDifferenceReported
=============================================================================
