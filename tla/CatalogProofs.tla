--------------------------- MODULE CatalogProofs ---------------------------
(***************************************************************************)
(* Theorems about Catalog, for any number of administrators' sessions,     *)
(* products, plans, features, prices and subscribers, and any bodies of    *)
(* PUT features.                                                           *)
(***************************************************************************)
EXTENDS Catalog, FiniteSetTheorems, TLAPS

(* The fields of the records. *)
IsPlan(r) == r = [product |-> r.product, version |-> r.version, published |-> r.published]
IsTx(t)   == t = [op |-> t.op, plan |-> t.plan, arg |-> t.arg, loaded |-> t.loaded]
IsSnap(x) == x = [st |-> x.st, plans |-> x.plans, products |-> x.products,
                  prices |-> x.prices, links |-> x.links, features |-> x.features]

TypeOK ==
  /\ feature = [f \in Features |-> feature[f]]
  /\ plan = [p \in Plans |-> plan[p]] /\ prices = [p \in Plans |-> prices[p]]
  /\ terms = [p \in Plans |-> terms[p]]
  /\ tx = [s \in Sessions |-> tx[s]]
  /\ sub = [o \in Orgs |-> sub[o]] /\ bought = [o \in Orgs |-> bought[o]]
  /\ IsSnap(snap)

(* A plan row belongs to a product that exists. *)
PlanOK(r) ==
  r # NoPlan => /\ IsPlan(r) /\ r.version \in Nat \ {0}
                /\ r.product \in Products /\ r.product \in products

RowsOf(d) == {p \in Rows : plan[p].product = d}

(* A request that creates a plan has an id of its own and a product; the   *)
(* version it has read is at most the next one.  Any other works on a row. *)
TxOK(t) ==
  /\ IsTx(t)
  /\ t.op \in {"idle", "checked", "numbered", "price", "terms", "loaded", "publish"}
  /\ t.op \in {"checked", "numbered"} =>
       /\ t.plan \in Plans /\ plan[t.plan] = NoPlan
       /\ t.arg \in Products /\ t.arg \in products
  /\ t.op = "numbered" => t.loaded \in 1..(Cardinality(RowsOf(t.arg)) + 1)
  /\ t.op \in {"price", "terms", "loaded", "publish"} => t.plan \in Rows

Creates(s) == tx[s].op \in {"checked", "numbered"}
IdsApart   == \A s, r \in Sessions : Creates(s) /\ Creates(r) /\ tx[s].plan = tx[r].plan => s = r

(* The terms name features that exist. *)
TermsOK == \A p \in Plans, f \in Features : terms[p][f] # None => feature[f] # None

(* Who still edits a published plan had read it as a draft. *)
EditsTorn == \A s \in Sessions, p \in Published : Edits(s, p) => p \in torn

SubscribedPublished == \A o \in Orgs : sub[o] # None => sub[o] \in Published

(* What the links of a snapshot say of a plan is what the plan says. *)
LinksTrue(p) ==
  {<<l[2], l[3]>> : l \in {m \in snap.links : m[1] = p}}
    = {<<l[2], terms[p][l[2]]>> : l \in Links({p})}

SnapOK ==
  /\ snap.st \in {"idle", "plans", "products", "prices", "links", "done"}
  /\ snap.plans \subseteq Published
  /\ snap.st = "idle" => snap = NoSnap
  /\ snap.st \in {"products", "prices", "links", "done"} =>
       \A p \in snap.plans : plan[p].product \in snap.products
  /\ \A c \in snap.prices : c[1] \in snap.plans
  /\ snap.st \in {"plans", "products", "prices"} => snap.links = {}
  /\ \A l \in snap.links : l[1] \in snap.plans /\ l[2] \in Features /\ feature[l[2]] # None
  /\ snap.st \in {"links", "done"} => \A p \in snap.plans : p \notin torn => LinksTrue(p)
  /\ snap.st = "done" => \A l \in snap.links : l[2] \in snap.features

IInv == /\ TypeOK
        /\ \A p \in Plans : PlanOK(plan[p])
        /\ \A s \in Sessions : TxOK(tx[s])
        /\ IdsApart
        /\ IsFiniteSet(Rows)
        /\ VersionsDense
        /\ TermsOK
        /\ EditsTorn
        /\ SubscribedPublished
        /\ SubscriberTermsStable
        /\ SnapOK

-----------------------------------------------------------------------------
(* What a step leaves alone.                                               *)

(* The parts of the invariant, by what they depend on. *)
RowsPart == /\ plan = [p \in Plans |-> plan[p]]
            /\ \A p \in Plans : PlanOK(plan[p])
            /\ IsFiniteSet(Rows)
            /\ VersionsDense

TxPart == /\ tx = [s \in Sessions |-> tx[s]]
          /\ \A s \in Sessions : TxOK(tx[s])
          /\ IdsApart
          /\ EditsTorn

TermsPart == /\ feature = [f \in Features |-> feature[f]]
             /\ prices = [p \in Plans |-> prices[p]] /\ terms = [p \in Plans |-> terms[p]]
             /\ TermsOK

SoldPart == /\ sub = [o \in Orgs |-> sub[o]] /\ bought = [o \in Orgs |-> bought[o]]
            /\ SubscribedPublished
            /\ SubscriberTermsStable

SnapPart == IsSnap(snap) /\ SnapOK

LEMMA Together ==
  ASSUME RowsPart', TxPart', TermsPart', SoldPart', SnapPart' PROVE IInv'
BY DEF IInv, TypeOK, RowsPart, TxPart, TermsPart, SoldPart, SnapPart

(* The rows of plans are those of before. *)
LEMMA SameRows ==
  ASSUME plan' = plan
  PROVE  /\ Rows' = Rows /\ Published' = Published
         /\ \A d : RowsOf(d)' = RowsOf(d) /\ VersionsOf(d)' = VersionsOf(d)
BY DEF Rows, Published, RowsOf, VersionsOf

LEMMA RowsKept ==
  ASSUME IInv, plan' = plan, products \subseteq products'
  PROVE  RowsPart'
<1>1. Rows' = Rows /\ \A d : RowsOf(d)' = RowsOf(d) /\ VersionsOf(d)' = VersionsOf(d)
  BY SameRows
<1>2. \A p \in Plans : PlanOK(plan[p])' BY DEF IInv, PlanOK
<1>3. VersionsDense'
  <2>1. \A d : {p \in Rows' : plan'[p].product = d} = {p \in Rows : plan[p].product = d}
    BY <1>1
  <2> QED BY <1>1, <2>1 DEF IInv, VersionsDense
<1> QED BY <1>1, <1>2, <1>3 DEF IInv, TypeOK, RowsPart

LEMMA TxKept ==
  ASSUME IInv, UNCHANGED <<tx, plan, torn>>, products \subseteq products'
  PROVE  TxPart'
<1>1. Rows' = Rows /\ Published' = Published /\ \A d : RowsOf(d)' = RowsOf(d) BY SameRows
<1>2. \A s \in Sessions : TxOK(tx[s])' BY <1>1 DEF IInv, TxOK
<1> QED BY <1>1, <1>2 DEF IInv, TypeOK, TxPart, IdsApart, Creates, EditsTorn, Edits

LEMMA TermsKept ==
  ASSUME IInv, UNCHANGED <<feature, prices, terms>>
  PROVE  TermsPart'
BY DEF IInv, TypeOK, TermsPart, TermsOK

(* A published plan that is not torn keeps its offer, and what subscribers *)
(* and a snapshot know of published plans stays true.                      *)
LEMMA OffersKept ==
  ASSUME IInv, Published \subseteq Published', torn \subseteq torn',
         \A p \in Published \ torn : terms'[p] = terms[p] /\ prices'[p] = prices[p],
         UNCHANGED <<sub, bought>>
  PROVE  SoldPart'
<1>1. SubscribedPublished' BY DEF IInv, SubscribedPublished
<1>2. SubscriberTermsStable' BY DEF IInv, SubscribedPublished, SubscriberTermsStable, Offer
<1> QED BY <1>1, <1>2 DEF IInv, TypeOK, SoldPart

LEMMA SnapKept ==
  ASSUME IInv, Published \subseteq Published', torn \subseteq torn',
         \A p \in Published \ torn : terms'[p] = terms[p],
         \A p \in Published : plan'[p].product = plan[p].product,
         \A f \in Features : feature[f] # None => feature'[f] # None,
         UNCHANGED snap
  PROVE  SnapPart'
<1>1. \A p \in Published \ torn : LinksTrue(p) => LinksTrue(p)' BY DEF LinksTrue, Links
<1>2. SnapOK /\ snap.plans \subseteq Published BY DEF IInv, SnapOK
<1>3. SnapOK' BY <1>1, <1>2 DEF SnapOK
<1> QED BY <1>3 DEF IInv, TypeOK, SnapPart

(* A request moves on or ends, and nothing else changes that concerns it. *)
LEMMA TxMoves ==
  ASSUME IInv, NEW s \in Sessions, NEW u, TxOK(u), tx' = [tx EXCEPT ![s] = u],
         u.op \in {"checked", "numbered"} =>
           \A r \in Sessions \ {s} : Creates(r) => tx[r].plan # u.plan,
         u.op \in {"price", "terms", "loaded"} /\ u.plan \in Published => u.plan \in torn,
         UNCHANGED <<products, plan, torn>>
  PROVE  TxPart'
<1>1. /\ tx' = [r \in Sessions |-> tx'[r]]
      /\ \A r \in Sessions : tx'[r] = IF r = s THEN u ELSE tx[r]
  BY DEF IInv, TypeOK
<1>2. Rows' = Rows /\ Published' = Published /\ \A d : RowsOf(d)' = RowsOf(d) BY SameRows
<1>3. \A r \in Sessions : TxOK(tx[r])' BY <1>1, <1>2 DEF IInv, TxOK
<1>4. IdsApart' BY <1>1 DEF IInv, IdsApart, Creates
<1>5. EditsTorn' BY <1>1, <1>2 DEF IInv, EditsTorn, Edits
<1> QED BY <1>1, <1>3, <1>4, <1>5 DEF TxPart

LEMMA NoTxOK == TxOK(NoTx) /\ NoTx.op = "idle"
<1>1. IsTx(NoTx) /\ NoTx.op = "idle" BY DEF NoTx, IsTx
<1> QED BY <1>1 DEF TxOK

(* The request ends. *)
LEMMA TxEnds ==
  ASSUME IInv, NEW s \in Sessions, Become(s, NoTx), UNCHANGED <<products, plan, torn>>
  PROVE  TxPart'
<1>1. PICK u : u = NoTx OBVIOUS
<1> QED BY <1>1, NoTxOK, TxMoves DEF Become

(* Nothing but the requests changes. *)
LEMMA OnlyTx ==
  ASSUME IInv, TxPart', UNCHANGED <<products, feature, plan, prices, terms, snap, sub, bought, torn>>
  PROVE  IInv'
<1>1. Published' = Published BY SameRows
<1>2. RowsPart' BY RowsKept
<1>3. TermsPart' BY TermsKept
<1>4. SoldPart' BY <1>1, OffersKept
<1>5. SnapPart' BY <1>1, SnapKept
<1> QED BY <1>2, <1>3, <1>4, <1>5, Together

-----------------------------------------------------------------------------
(* Products and features.                                                  *)

LEMMA CreateProductIInv ==
  ASSUME IInv, NEW d, CreateProduct(d)
  PROVE  IInv'
<1>1. /\ UNCHANGED <<feature, plan, prices, terms, tx, snap, sub, bought, torn>>
      /\ products \subseteq products'
  BY DEF CreateProduct
<1>2. Published' = Published BY <1>1, SameRows
<1>3. RowsPart' /\ TxPart' /\ TermsPart' BY <1>1, RowsKept, TxKept, TermsKept
<1>4. SoldPart' BY <1>1, <1>2, OffersKept
<1>5. SnapPart' BY <1>1, <1>2, SnapKept
<1> QED BY <1>3, <1>4, <1>5, Together

LEMMA CreateFeatureIInv ==
  ASSUME IInv, NEW g \in Features, NEW type, CreateFeature(g, type)
  PROVE  IInv'
<1>1. /\ UNCHANGED <<products, plan, prices, terms, tx, snap, sub, bought, torn>>
      /\ feature[g] = None /\ feature' = [feature EXCEPT ![g] = type]
  BY DEF CreateFeature
<1>2. /\ feature' = [f \in Features |-> feature'[f]]
      /\ \A f \in Features : feature[f] # None => feature'[f] # None
  BY <1>1 DEF IInv, TypeOK
<1>3. Published' = Published BY <1>1, SameRows
<1>4. RowsPart' /\ TxPart' BY <1>1, RowsKept, TxKept
<1>5. TermsPart' BY <1>1, <1>2 DEF IInv, TypeOK, TermsPart, TermsOK
<1>6. SoldPart' BY <1>1, <1>3, OffersKept
<1>7. SnapPart' BY <1>1, <1>2, <1>3, SnapKept
<1> QED BY <1>4, <1>5, <1>6, <1>7, Together

-----------------------------------------------------------------------------
(* create_plan.                                                            *)

(* The id the request will insert is used by nobody else. *)
LEMMA CheckDraftIInv ==
  ASSUME IInv, NEW s \in Sessions, NEW p \in Plans, NEW d \in Products, CheckDraft(s, p, d)
  PROVE  IInv'
<1>0. PICK u : u = [NoTx EXCEPT !.op = "checked", !.plan = p, !.arg = d] OBVIOUS
<1>1. /\ plan[p] = NoPlan /\ d \in products /\ \A r \in Sessions : tx[r].plan # p
      /\ tx' = [tx EXCEPT ![s] = u]
      /\ UNCHANGED <<products, feature, plan, prices, terms, snap, sub, bought, torn>>
  BY <1>0 DEF CheckDraft, Become
<1>2. IsTx(u) /\ u.op = "checked" /\ u.plan = p /\ u.arg = d BY <1>0 DEF NoTx, IsTx
<1>3. TxOK(u) BY <1>1, <1>2 DEF TxOK
<1>4. TxPart' BY <1>1, <1>2, <1>3, TxMoves
<1> QED BY <1>1, <1>4, OnlyTx

(* The next version is one more than the number of rows. *)
LEMMA NextIsCount ==
  ASSUME IInv, NEW d \in Products
  PROVE  /\ Cardinality(RowsOf(d)) \in Nat
         /\ VersionsOf(d) = 1..Cardinality(RowsOf(d))
         /\ NextVersion(d) = Cardinality(RowsOf(d)) + 1
<1> DEFINE n == Cardinality(RowsOf(d))
           V == VersionsOf(d) \cup {0}
<1>1. n \in Nat
  <2>1. IsFiniteSet(RowsOf(d)) BY FS_Subset DEF IInv, RowsOf
  <2> QED BY <2>1, FS_CardinalityType
<1>2. VersionsOf(d) = 1..n BY DEF IInv, VersionsDense, RowsOf
<1> HIDE DEF n
<1>3. n \in V /\ \A y \in V : y \in Nat /\ n >= y BY <1>1, <1>2
<1> HIDE DEF V
<1>4. Max(V) \in V /\ \A y \in V : Max(V) >= y BY <1>3 DEF Max
<1>5. Max(V) = n
  <2>1. PICK m : m = Max(V) OBVIOUS
  <2>2. m \in Nat /\ m >= n /\ n >= m BY <1>3, <1>4, <2>1
  <2> QED BY <1>1, <2>1, <2>2
<1>6. NextVersion(d) = n + 1 BY <1>5 DEF NextVersion, V
<1> QED BY <1>1, <1>2, <1>6 DEF n

(* The version is read: it may be taken by the time it is used. *)
LEMMA ReadVersionIInv ==
  ASSUME IInv, NEW s \in Sessions, ReadVersion(s)
  PROVE  IInv'
<1>0. PICK t, n, u : /\ t = tx[s] /\ n = NextVersion(t.arg)
                     /\ u = [t EXCEPT !.op = "numbered", !.loaded = n]
  OBVIOUS
<1>1. /\ TxOK(t) /\ t.op = "checked" /\ tx' = [tx EXCEPT ![s] = u]
      /\ UNCHANGED <<products, feature, plan, prices, terms, snap, sub, bought, torn>>
  BY <1>0 DEF ReadVersion, Become, IInv
<1>2. /\ IsTx(u) /\ u.op = "numbered" /\ u.plan = t.plan /\ u.arg = t.arg /\ u.loaded = n
  BY <1>0, <1>1 DEF TxOK, IsTx
<1>3. t.plan \in Plans /\ plan[t.plan] = NoPlan /\ t.arg \in Products /\ t.arg \in products
  BY <1>1 DEF TxOK
<1>4. n \in 1..(Cardinality(RowsOf(t.arg)) + 1) BY <1>0, <1>3, NextIsCount
<1>5. TxOK(u) BY <1>2, <1>3, <1>4 DEF TxOK
<1>6. \A r \in Sessions \ {s} : Creates(r) => tx[r].plan # u.plan
  BY <1>0, <1>1, <1>2 DEF IInv, IdsApart, Creates
<1>7. TxPart' BY <1>1, <1>2, <1>5, <1>6, TxMoves
<1> QED BY <1>1, <1>7, OnlyTx

(* The row is inserted.  The unique constraint lets only the next version  *)
(* pass: the one that was read is at most that, and the lower ones are     *)
(* taken.                                                                  *)
LEMMA InsertPlanIInv ==
  ASSUME IInv, NEW s \in Sessions, InsertPlan(s)
  PROVE  IInv'
<1>0. PICK t, p, d, v : t = tx[s] /\ p = t.plan /\ d = t.arg /\ v = t.loaded OBVIOUS
<1>1. /\ TxOK(t) /\ t.op = "numbered" /\ Become(s, NoTx)
      /\ UNCHANGED <<products, feature, prices, terms, snap, sub, bought, torn>>
  BY <1>0 DEF InsertPlan, IInv
<1>2. /\ p \in Plans /\ plan[p] = NoPlan /\ d \in Products /\ d \in products
      /\ v \in 1..(Cardinality(RowsOf(d)) + 1)
  BY <1>0, <1>1 DEF TxOK
<1>3. CASE Taken(d, v)
  <2>1. plan' = plan BY <1>0, <1>3 DEF InsertPlan
  <2> QED BY <1>1, <2>1, TxEnds, OnlyTx
<1>4. CASE ~Taken(d, v)
  <2>0. PICK new : new = NewPlan(d, v) OBVIOUS
  <2> DEFINE n == Cardinality(RowsOf(d))
  <2>1. n \in Nat /\ VersionsOf(d) = 1..n /\ v = n + 1
    <3>1. n \in Nat /\ VersionsOf(d) = 1..n BY <1>2, NextIsCount
    <3>2. v \notin 1..n BY <1>4, <3>1 DEF Taken
    <3> QED BY <1>2, <3>1, <3>2
  <2>2. /\ IsPlan(new) /\ new.product = d /\ new.version = v /\ new.published = FALSE
        /\ new # NoPlan
    <3>1. IsPlan(new) /\ new.product = d /\ new.version = v /\ new.published = FALSE
      BY <2>0 DEF NewPlan, IsPlan
    <3>2. NoPlan.version = 0 BY DEF NoPlan
    <3> QED BY <2>1, <3>1, <3>2
  <2>3. /\ plan' = [q \in Plans |-> plan'[q]]
        /\ \A q \in Plans : plan'[q] = IF q = p THEN new ELSE plan[q]
    BY <1>0, <1>2, <1>4, <2>0 DEF InsertPlan, IInv, TypeOK
  <2>4. p \notin Rows /\ Rows' = Rows \cup {p} BY <1>2, <2>2, <2>3 DEF Rows
  <2>5. Published' = Published BY <2>2, <2>3, <2>4 DEF Published, Rows
  <2>6. /\ p \notin RowsOf(d) /\ RowsOf(d)' = RowsOf(d) \cup {p}
        /\ \A e : e # d => RowsOf(e)' = RowsOf(e)
    BY <1>2, <2>2, <2>3, <2>4 DEF RowsOf, Rows
  <2>7. /\ VersionsOf(d)' = VersionsOf(d) \cup {v}
        /\ \A e : e # d => VersionsOf(e)' = VersionsOf(e)
    <3>1. \A e : /\ VersionsOf(e) = {plan[q].version : q \in RowsOf(e)}
                 /\ VersionsOf(e)' = {plan'[q].version : q \in RowsOf(e)'}
      BY DEF VersionsOf, RowsOf
    <3>2. \A e : RowsOf(e) \subseteq Plans /\ p \notin RowsOf(e) BY <2>4 DEF RowsOf, Rows
    <3>3. \A e : \A q \in RowsOf(e) : plan'[q].version = plan[q].version BY <2>3, <3>2
    <3>4. plan'[p].version = v BY <1>2, <2>2, <2>3
    <3>5. VersionsOf(d)' = VersionsOf(d) \cup {v} BY <2>6, <3>1, <3>3, <3>4
    <3>6. ASSUME NEW e, e # d PROVE VersionsOf(e)' = VersionsOf(e)
      <4>1. RowsOf(e)' = RowsOf(e) BY <2>6, <3>6
      <4>2. \A q \in RowsOf(e) : plan'[q].version = plan[q].version BY <3>3
      <4>3. VersionsOf(e) = {plan[q].version : q \in RowsOf(e)} BY <3>1
      <4>4. VersionsOf(e)' = {plan'[q].version : q \in RowsOf(e)} BY <3>1, <4>1
      <4> QED BY <4>2, <4>3, <4>4
    <3> QED BY <3>5, <3>6
  <2>8. Cardinality(RowsOf(d)') = n + 1
    <3>1. IsFiniteSet(RowsOf(d)) BY FS_Subset DEF IInv, RowsOf
    <3>2. PICK R, S : R = RowsOf(d) /\ S = RowsOf(d)' OBVIOUS
    <3>3. S = R \cup {p} /\ p \notin R /\ IsFiniteSet(R) BY <2>6, <3>1, <3>2
    <3>4. Cardinality(S) = Cardinality(R) + 1 BY <3>3, FS_AddElement
    <3> QED BY <3>2, <3>4
  <2> HIDE DEF n
  <2>9. VersionsDense'
    <3>1. VersionsOf(d)' = 1..Cardinality(RowsOf(d)') BY <2>1, <2>7, <2>8
    <3>2. \A e \in Products : VersionsOf(e)' = 1..Cardinality(RowsOf(e)')
      BY <2>6, <2>7, <3>1 DEF IInv, VersionsDense, RowsOf
    <3> QED BY <3>2 DEF VersionsDense, RowsOf
  <2>10. IsFiniteSet(Rows') BY <2>4, FS_AddElement DEF IInv
  <2>11. \A q \in Plans : PlanOK(plan[q])'
    BY <1>1, <1>2, <2>1, <2>2, <2>3 DEF IInv, PlanOK
  <2>12. RowsPart' BY <2>3, <2>9, <2>10, <2>11 DEF RowsPart
  <2>13. TxPart'
    <3>0. PICK u : u = NoTx OBVIOUS
    <3>1. /\ tx' = [r \in Sessions |-> tx'[r]]
          /\ \A r \in Sessions : tx'[r] = IF r = s THEN u ELSE tx[r]
          /\ TxOK(u) /\ u.op = "idle"
      BY <1>1, <3>0, NoTxOK DEF Become, IInv, TypeOK
    <3>2. ASSUME NEW r \in Sessions PROVE TxOK(tx[r])'
      <4>1. CASE r = s BY <3>1, <4>1 DEF TxOK
      <4>2. CASE r # s
        <5>0. PICK w : w = tx[r] OBVIOUS
        <5>1. TxOK(w) /\ tx'[r] = w BY <3>1, <4>2, <5>0 DEF IInv
        <5>2. w.op \in {"checked", "numbered"} => w.plan # p
          BY <1>0, <1>1, <4>2, <5>0 DEF IInv, IdsApart, Creates
        <5>3. w.op \in {"checked", "numbered"} => plan'[w.plan] = NoPlan
          BY <2>3, <5>1, <5>2 DEF TxOK
        <5>4. w.op = "numbered" => w.loaded \in 1..(Cardinality(RowsOf(w.arg)') + 1)
          <6>1. CASE w.arg = d
            <7>1. w.op = "numbered" => w.loaded \in 1..(n + 1) BY <5>1, <6>1 DEF TxOK, n
            <7>2. RowsOf(w.arg)' = RowsOf(d)' BY <6>1 DEF RowsOf
            <7> QED BY <2>1, <2>8, <7>1, <7>2
          <6>2. CASE w.arg # d BY <2>6, <5>1, <6>2 DEF TxOK
          <6> QED BY <6>1, <6>2
        <5>5. TxOK(w)' BY <1>1, <2>4, <5>1, <5>3, <5>4 DEF TxOK
        <5> QED BY <5>1, <5>5 DEF TxOK
      <4> QED BY <4>1, <4>2
    <3>3. IdsApart' BY <3>1 DEF IInv, IdsApart, Creates
    <3>4. EditsTorn' BY <1>1, <2>5, <3>1 DEF IInv, EditsTorn, Edits
    <3> QED BY <3>1, <3>2, <3>3, <3>4 DEF TxPart
  <2>14. TermsPart' /\ SoldPart' BY <1>1, <2>5, TermsKept, OffersKept
  <2>15. \A q \in Published : plan'[q].product = plan[q].product
    BY <1>2, <2>3 DEF Published, Rows
  <2>16. SnapPart' BY <1>1, <2>5, <2>15, SnapKept
  <2> QED BY <2>12, <2>13, <2>14, <2>16, Together
<1> QED BY <1>3, <1>4

-----------------------------------------------------------------------------
(* Editing and publishing.                                                 *)

(* The plan is read as a draft: it is not published at this moment. *)
LEMMA OpenDraftIInv ==
  ASSUME IInv, NEW s \in Sessions, NEW op \in {"price", "terms", "publish"},
         NEW p, NEW arg, OpenDraft(s, op, p, arg)
  PROVE  IInv'
<1>0. PICK u : u = [NoTx EXCEPT !.op = op, !.plan = p, !.arg = arg] OBVIOUS
<1>1. /\ p \in Rows /\ ~plan[p].published /\ tx' = [tx EXCEPT ![s] = u]
      /\ UNCHANGED <<products, feature, plan, prices, terms, snap, sub, bought, torn>>
  BY <1>0 DEF OpenDraft, IsDraft, Become
<1>2. u = [op |-> op, plan |-> p, arg |-> arg, loaded |-> None] BY <1>0 DEF NoTx
<1>3. IsTx(u) /\ u.op = op /\ u.plan = p BY <1>2 DEF IsTx
<1>4. TxOK(u) BY <1>1, <1>3 DEF TxOK
<1>5. p \notin Published BY <1>1 DEF Published
<1>6. TxPart' BY <1>1, <1>3, <1>4, <1>5, TxMoves
<1> QED BY <1>1, <1>6, OnlyTx

(* The rows of the plan's features are read. *)
LEMMA LoadTermsIInv ==
  ASSUME IInv, NEW s \in Sessions, LoadTerms(s)
  PROVE  IInv'
<1>0. PICK t, n, u : /\ t = tx[s] /\ n = terms[t.plan]
                     /\ u = [t EXCEPT !.op = "loaded", !.loaded = n]
  OBVIOUS
<1>1. /\ TxOK(t) /\ t.op = "terms" /\ tx' = [tx EXCEPT ![s] = u]
      /\ UNCHANGED <<products, feature, plan, prices, terms, snap, sub, bought, torn>>
  BY <1>0 DEF LoadTerms, Become, IInv
<1>2. IsTx(u) /\ u.op = "loaded" /\ u.plan = t.plan BY <1>0, <1>1 DEF TxOK, IsTx
<1>3. TxOK(u) BY <1>1, <1>2 DEF TxOK
<1>4. t.plan \in Published => t.plan \in torn
  BY <1>0, <1>1 DEF IInv, EditsTorn, Edits
<1>5. TxPart' BY <1>1, <1>2, <1>3, <1>4, TxMoves
<1> QED BY <1>1, <1>5, OnlyTx

(* The request ends without an effect. *)
LEMMA RollbackIInv ==
  ASSUME IInv, NEW s \in Sessions, Rollback(s)
  PROVE  IInv'
<1>1. /\ Become(s, NoTx)
      /\ UNCHANGED <<products, feature, plan, prices, terms, snap, sub, bought, torn>>
  BY DEF Rollback
<1> QED BY <1>1, TxEnds, OnlyTx

(* A price is added to a plan that is a draft or torn. *)
LEMMA CommitPriceIInv ==
  ASSUME IInv, NEW s \in Sessions, CommitPrice(s)
  PROVE  IInv'
<1>0. PICK p : p = tx[s].plan OBVIOUS
<1>1. /\ tx[s].op = "price" /\ TxOK(tx[s]) /\ Become(s, NoTx)
      /\ prices' = [prices EXCEPT ![p] = prices[p] \cup {tx[s].arg}]
      /\ UNCHANGED <<products, feature, plan, terms, snap, sub, bought, torn>>
  BY <1>0 DEF CommitPrice, IInv
<1>2. p \in Published => p \in torn BY <1>0, <1>1 DEF IInv, EditsTorn, Edits
<1>3. /\ prices' = [q \in Plans |-> prices'[q]]
      /\ \A q \in Plans : q # p => prices'[q] = prices[q]
  BY <1>1 DEF IInv, TypeOK
<1>4. Published' = Published /\ Published \subseteq Plans
  BY <1>1, SameRows DEF Published, Rows
<1>5. RowsPart' /\ TxPart' BY <1>1, RowsKept, TxEnds
<1>6. TermsPart' BY <1>1, <1>3 DEF IInv, TypeOK, TermsPart, TermsOK
<1>7. SoldPart' BY <1>1, <1>2, <1>3, <1>4, OffersKept
<1>8. SnapPart' BY <1>1, <1>4, SnapKept
<1> QED BY <1>5, <1>6, <1>7, <1>8, Together

(* The terms are written, to a plan that is a draft or torn and for        *)
(* features that exist.                                                    *)
LEMMA CommitTermsIInv ==
  ASSUME IInv, NEW s \in Sessions, CommitTerms(s)
  PROVE  IInv'
<1>0. PICK t, p : t = tx[s] /\ p = t.plan OBVIOUS
<1>1. /\ t.op = "loaded" /\ TxOK(t) /\ Become(s, NoTx)
      /\ UNCHANGED <<products, feature, plan, prices, snap, sub, bought, torn>>
  BY <1>0 DEF CommitTerms, IInv
<1>2. CASE WriteFails(terms[p], t.loaded, t.arg)
  <2>1. terms' = terms BY <1>0, <1>2 DEF CommitTerms
  <2> QED BY <1>1, <2>1, TxEnds, OnlyTx
<1>3. CASE ~WriteFails(terms[p], t.loaded, t.arg)
  <2>0. PICK new : new = Written(terms[p], t.loaded, t.arg) OBVIOUS
  <2>1. terms' = [terms EXCEPT ![p] = new] BY <1>0, <1>3, <2>0 DEF CommitTerms
  <2>2. p \in Plans /\ (p \in Published => p \in torn)
    BY <1>0, <1>1 DEF IInv, TxOK, Rows, EditsTorn, Edits
  <2>3. /\ terms' = [q \in Plans |-> terms'[q]]
        /\ \A q \in Plans : terms'[q] = IF q = p THEN new ELSE terms[q]
    BY <2>1, <2>2 DEF IInv, TypeOK
  <2>4. ASSUME NEW f \in Features, new[f] # None PROVE feature[f] # None
    <3>1. CASE f \in DOMAIN t.arg BY <1>3, <3>1 DEF WriteFails
    <3>2. CASE f \notin DOMAIN t.arg
      <4>1. new[f] = terms[p][f] BY <2>0, <3>2 DEF Written
      <4> QED BY <2>2, <2>4, <4>1 DEF IInv, TermsOK
    <3> QED BY <3>1, <3>2
  <2>5. TermsPart' BY <1>1, <2>3, <2>4 DEF IInv, TypeOK, TermsPart, TermsOK
  <2>6. Published' = Published /\ Published \subseteq Plans
    BY <1>1, SameRows DEF Published, Rows
  <2>7. \A q \in Published \ torn : terms'[q] = terms[q] BY <2>2, <2>3, <2>6
  <2>8. RowsPart' /\ TxPart' BY <1>1, RowsKept, TxEnds
  <2>9. SoldPart' BY <1>1, <2>6, <2>7, OffersKept
  <2>10. SnapPart' BY <1>1, <2>6, <2>7, SnapKept
  <2> QED BY <2>5, <2>8, <2>9, <2>10, Together
<1> QED BY <1>2, <1>3

(* A plan is published: the requests that edit it tear it. *)
LEMMA CommitPublishIInv ==
  ASSUME IInv, NEW s \in Sessions, CommitPublish(s)
  PROVE  IInv'
<1>0. PICK p, new : p = tx[s].plan /\ new = [plan[p] EXCEPT !.published = TRUE] OBVIOUS
<1>1. /\ tx[s].op = "publish" /\ TxOK(tx[s]) /\ Become(s, NoTx)
      /\ plan' = [plan EXCEPT ![p] = new]
      /\ torn' = IF \E r \in Sessions : Edits(r, p) THEN torn \cup {p} ELSE torn
      /\ UNCHANGED <<products, feature, prices, terms, snap, sub, bought>>
  BY <1>0 DEF CommitPublish, IInv
<1>2. p \in Rows /\ p \in Plans /\ PlanOK(plan[p]) /\ plan[p] # NoPlan
  BY <1>0, <1>1 DEF TxOK, Rows, IInv
<1>3. /\ IsPlan(new) /\ new.product = plan[p].product /\ new.version = plan[p].version
      /\ new.published = TRUE
  BY <1>0, <1>2 DEF PlanOK, IsPlan
<1>4. new # NoPlan
  <2>1. new.version # 0 BY <1>2, <1>3 DEF PlanOK
  <2>2. NoPlan.version = 0 BY DEF NoPlan
  <2> QED BY <2>1, <2>2
<1>5. /\ plan' = [q \in Plans |-> plan'[q]]
      /\ \A q \in Plans : plan'[q] = IF q = p THEN new ELSE plan[q]
  BY <1>1, <1>2 DEF IInv, TypeOK
<1>6. \A q \in Plans : /\ plan'[q].product = plan[q].product
                       /\ plan'[q].version = plan[q].version
                       /\ plan'[q] = NoPlan <=> plan[q] = NoPlan
  BY <1>2, <1>3, <1>4, <1>5
<1>7. Rows' = Rows BY <1>6 DEF Rows
<1>8. Published' = Published \cup {p} BY <1>2, <1>3, <1>5, <1>7 DEF Published, Rows
<1>9. \A d : RowsOf(d)' = RowsOf(d) BY <1>6, <1>7 DEF RowsOf, Rows
<1>10. ASSUME NEW d PROVE VersionsOf(d)' = VersionsOf(d)
  <2>1. VersionsOf(d) = {plan[q].version : q \in RowsOf(d)} BY DEF VersionsOf, RowsOf
  <2>2. VersionsOf(d)' = {plan'[q].version : q \in RowsOf(d)'} BY DEF VersionsOf, RowsOf
  <2>3. RowsOf(d)' = RowsOf(d) /\ RowsOf(d) \subseteq Plans BY <1>9 DEF RowsOf, Rows
  <2> QED BY <1>6, <2>1, <2>2, <2>3
<1>11. RowsPart'
  <2>1. VersionsDense'
    <3>1. \A d \in Products : VersionsOf(d)' = 1..Cardinality(RowsOf(d)')
      BY <1>9, <1>10 DEF IInv, VersionsDense, RowsOf
    <3> QED BY <3>1 DEF VersionsDense, RowsOf
  <2>2. \A q \in Plans : PlanOK(plan[q])'
    BY <1>1, <1>2, <1>3, <1>5 DEF IInv, PlanOK
  <2> QED BY <1>5, <1>7, <2>1, <2>2 DEF IInv, RowsPart
<1>12. TxPart'
  <2>0. PICK u : u = NoTx OBVIOUS
  <2>1. /\ tx' = [r \in Sessions |-> tx'[r]]
        /\ \A r \in Sessions : tx'[r] = IF r = s THEN u ELSE tx[r]
        /\ TxOK(u) /\ u.op = "idle"
    BY <1>1, <2>0, NoTxOK DEF Become, IInv, TypeOK
  <2>2. ASSUME NEW r \in Sessions PROVE TxOK(tx[r])'
    <3>0. PICK w : w = tx'[r] OBVIOUS
    <3>1. TxOK(w) BY <2>1, <3>0 DEF IInv
    <3>2. TxOK(w)' BY <1>1, <1>6, <1>7, <1>9, <3>1 DEF TxOK
    <3> QED BY <3>0, <3>2 DEF TxOK
  <2>3. IdsApart' BY <2>1 DEF IInv, IdsApart, Creates
  <2>4. EditsTorn' BY <1>1, <1>8, <2>1 DEF IInv, EditsTorn, Edits
  <2> QED BY <2>1, <2>2, <2>3, <2>4 DEF TxPart
<1>13. TermsPart' BY <1>1, TermsKept
<1>14. torn \subseteq torn' BY <1>1
<1>15. SoldPart' BY <1>1, <1>8, <1>14, OffersKept
<1>16. \A q \in Published : plan'[q].product = plan[q].product BY <1>6 DEF Published, Rows
<1>17. SnapPart' BY <1>1, <1>8, <1>14, <1>16, SnapKept
<1> QED BY <1>11, <1>12, <1>13, <1>15, <1>17, Together

(* An organization buys what the plan offers at this moment. *)
LEMMA SubscribeIInv ==
  ASSUME IInv, NEW o \in Orgs, NEW p, Subscribe(o, p)
  PROVE  IInv'
<1>0. PICK x : x = Offer(p) OBVIOUS
<1>1. /\ p \in Published /\ sub' = [sub EXCEPT ![o] = p] /\ bought' = [bought EXCEPT ![o] = x]
      /\ UNCHANGED <<products, feature, plan, prices, terms, tx, snap, torn>>
  BY <1>0 DEF Subscribe
<1>2. Published' = Published BY <1>1, SameRows
<1>3. /\ sub' = [a \in Orgs |-> sub'[a]] /\ bought' = [a \in Orgs |-> bought'[a]]
      /\ \A a \in Orgs : /\ sub'[a] = IF a = o THEN p ELSE sub[a]
                         /\ bought'[a] = IF a = o THEN x ELSE bought[a]
  BY <1>1 DEF IInv, TypeOK
<1>4. SubscribedPublished' BY <1>1, <1>2, <1>3 DEF IInv, SubscribedPublished
<1>5. SubscriberTermsStable'
  <2>1. \A q : Offer(q)' = Offer(q) BY <1>1 DEF Offer
  <2>2. SUFFICES ASSUME NEW a \in Orgs, sub'[a] # None, sub'[a] \notin torn
                 PROVE  Offer(sub[a])' = bought'[a]
    BY <1>1 DEF SubscriberTermsStable
  <2>3. CASE a = o BY <1>0, <1>1, <1>3, <2>1, <2>3 DEF Offer
  <2>4. CASE a # o BY <1>1, <1>3, <2>2, <2>4 DEF IInv, SubscriberTermsStable, Offer
  <2> QED BY <2>3, <2>4
<1>6. SoldPart' BY <1>3, <1>4, <1>5 DEF SoldPart
<1>7. RowsPart' /\ TxPart' /\ TermsPart' BY <1>1, RowsKept, TxKept, TermsKept
<1>8. SnapPart' BY <1>1, <1>2, SnapKept
<1> QED BY <1>6, <1>7, <1>8, Together

-----------------------------------------------------------------------------
(* The snapshot.                                                           *)

LEMMA SnapFields ==
  ASSUME NEW st, NEW pl, NEW pr, NEW am, NEW ln, NEW ft, NEW x,
         x = [st |-> st, plans |-> pl, products |-> pr, prices |-> am, links |-> ln,
              features |-> ft]
  PROVE  /\ x.st = st /\ x.plans = pl /\ x.products = pr /\ x.prices = am /\ x.links = ln
         /\ x.features = ft /\ IsSnap(x)
BY DEF IsSnap

(* Only the snapshot moves. *)
LEMMA SnapMoves ==
  ASSUME IInv, IsSnap(snap'), SnapOK',
         UNCHANGED <<products, feature, plan, prices, terms, tx, sub, bought, torn>>
  PROVE  IInv'
<1>1. Published' = Published BY SameRows
<1>2. RowsPart' /\ TxPart' /\ TermsPart' BY RowsKept, TxKept, TermsKept
<1>3. SoldPart' BY <1>1, OffersKept
<1>4. SnapPart' BY DEF SnapPart
<1> QED BY <1>2, <1>3, <1>4, Together

(* The statement on plans: only published ones are in the snapshot. *)
LEMMA SnapPlansIInv ==
  ASSUME IInv, SnapPlans PROVE IInv'
<1>1. /\ snap = NoSnap
      /\ UNCHANGED <<products, feature, plan, prices, terms, tx, sub, bought, torn>>
  BY DEF SnapPlans, Snap, IInv, SnapOK
<1>2. PICK to, P : to = (IF Published = {} THEN "done" ELSE "plans") /\ P = Published OBVIOUS
<1>3. snap' = [[snap EXCEPT !.plans = P] EXCEPT !.st = to] BY <1>2 DEF SnapPlans, Snap
<1>4. snap' = [st |-> to, plans |-> P, products |-> {}, prices |-> {}, links |-> {},
               features |-> {}]
  BY <1>1, <1>3 DEF NoSnap
<1>5. PICK x : x = snap' OBVIOUS
<1>6. /\ x.st = to /\ x.plans = P /\ x.products = {} /\ x.prices = {} /\ x.links = {}
      /\ IsSnap(x)
  BY <1>4, <1>5, SnapFields
<1>7. Published' = P BY <1>1, <1>2, SameRows
<1>8. to \in {"done", "plans"} /\ (to = "done" => P = {}) BY <1>2
<1>9. SnapOK' BY <1>5, <1>6, <1>7, <1>8 DEF SnapOK
<1> QED BY <1>1, <1>5, <1>6, <1>9, SnapMoves

(* The statement on products: those of the plans exist. *)
LEMMA SnapProductsIInv ==
  ASSUME IInv, SnapProducts PROVE IInv'
<1>0. PICK o : o = snap OBVIOUS
<1>1. /\ IsSnap(o) /\ SnapOK /\ o.st = "plans"
      /\ UNCHANGED <<products, feature, plan, prices, terms, tx, sub, bought, torn>>
  BY <1>0 DEF SnapProducts, Snap, IInv, TypeOK
<1>2. PICK D : D = {d \in products : \E p \in o.plans : plan[p].product = d} OBVIOUS
<1>3. snap' = [[o EXCEPT !.products = D] EXCEPT !.st = "products"]
  BY <1>0, <1>2 DEF SnapProducts, Snap
<1>4. PICK x : x = snap' OBVIOUS
<1>5. x = [st |-> "products", plans |-> o.plans, products |-> D, prices |-> o.prices,
           links |-> o.links, features |-> o.features]
  BY <1>1, <1>3, <1>4 DEF IsSnap
<1>6. /\ x.st = "products" /\ x.plans = o.plans /\ x.products = D /\ x.prices = o.prices
      /\ x.links = o.links /\ IsSnap(x)
  BY <1>5, SnapFields
<1>7. Published' = Published /\ o.plans \subseteq Published
  BY <1>0, <1>1, SameRows DEF SnapOK
<1>8. \A p \in o.plans : plan[p].product \in D
  BY <1>2, <1>7 DEF Published, Rows, IInv, PlanOK
<1>9. SnapOK' BY <1>0, <1>1, <1>4, <1>6, <1>7, <1>8 DEF SnapOK
<1> QED BY <1>1, <1>4, <1>6, <1>9, SnapMoves

(* The statement on prices. *)
LEMMA SnapPricesIInv ==
  ASSUME IInv, SnapPrices PROVE IInv'
<1>0. PICK o : o = snap OBVIOUS
<1>1. /\ IsSnap(o) /\ SnapOK /\ o.st = "products"
      /\ UNCHANGED <<products, feature, plan, prices, terms, tx, sub, bought, torn>>
  BY <1>0 DEF SnapPrices, Snap, IInv, TypeOK
<1>2. PICK C : C = {c \in Plans \X Amounts : c[1] \in o.plans /\ c[2] \in prices[c[1]]} OBVIOUS
<1>3. snap' = [[o EXCEPT !.prices = C] EXCEPT !.st = "prices"]
  BY <1>0, <1>2 DEF SnapPrices, Snap
<1>4. PICK x : x = snap' OBVIOUS
<1>5. x = [st |-> "prices", plans |-> o.plans, products |-> o.products, prices |-> C,
           links |-> o.links, features |-> o.features]
  BY <1>1, <1>3, <1>4 DEF IsSnap
<1>6. /\ x.st = "prices" /\ x.plans = o.plans /\ x.products = o.products /\ x.prices = C
      /\ x.links = o.links /\ IsSnap(x)
  BY <1>5, SnapFields
<1>7. Published' = Published BY <1>1, SameRows
<1>8. \A c \in C : c[1] \in o.plans BY <1>2
<1>9. SnapOK' BY <1>0, <1>1, <1>4, <1>6, <1>7, <1>8 DEF SnapOK
<1> QED BY <1>1, <1>4, <1>6, <1>9, SnapMoves

(* The statement on plan_features: the terms of each plan as they are. *)
LEMMA SnapLinksIInv ==
  ASSUME IInv, SnapLinks PROVE IInv'
<1>0. PICK o : o = snap OBVIOUS
<1>1. /\ IsSnap(o) /\ SnapOK /\ o.st = "prices"
      /\ UNCHANGED <<products, feature, plan, prices, terms, tx, sub, bought, torn>>
  BY <1>0 DEF SnapLinks, Snap, IInv, TypeOK
<1>2. PICK L : L = {<<l[1], l[2], terms[l[1]][l[2]]>> : l \in Links(o.plans)} OBVIOUS
<1>3. snap' = [[o EXCEPT !.links = L] EXCEPT !.st = "links"]
  BY <1>0, <1>2 DEF SnapLinks, Snap
<1>4. PICK x : x = snap' OBVIOUS
<1>5. x = [st |-> "links", plans |-> o.plans, products |-> o.products, prices |-> o.prices,
           links |-> L, features |-> o.features]
  BY <1>1, <1>3, <1>4 DEF IsSnap
<1>6. /\ x.st = "links" /\ x.plans = o.plans /\ x.products = o.products /\ x.prices = o.prices
      /\ x.links = L /\ IsSnap(x)
  BY <1>5, SnapFields
<1>7. Published' = Published /\ o.plans \subseteq Published /\ Published \subseteq Plans
  BY <1>0, <1>1, SameRows DEF SnapOK, Published, Rows
<1>8. \A l \in Links(o.plans) : /\ l[1] \in o.plans /\ l[2] \in Features
                                /\ terms[l[1]][l[2]] # None
  BY DEF Links
<1>9. \A l \in L : l[1] \in o.plans /\ l[2] \in Features /\ feature[l[2]] # None
  BY <1>2, <1>7, <1>8 DEF IInv, TermsOK
<1>10. ASSUME NEW p \in o.plans
       PROVE  {<<l[2], l[3]>> : l \in {m \in L : m[1] = p}}
                = {<<l[2], terms[p][l[2]]>> : l \in Links({p})}
  <2> DEFINE A == {<<l[2], l[3]>> : l \in {m \in L : m[1] = p}}
             B == {<<l[2], terms[p][l[2]]>> : l \in Links({p})}
  <2>1. ASSUME NEW a \in A PROVE a \in B
    <3>1. PICK m \in L : m[1] = p /\ a = <<m[2], m[3]>> OBVIOUS
    <3>2. PICK l \in Links(o.plans) : m = <<l[1], l[2], terms[l[1]][l[2]]>> BY <1>2, <3>1
    <3>3. l[1] = p /\ a = <<l[2], terms[p][l[2]]>> BY <3>1, <3>2
    <3>4. l \in Links({p}) BY <3>2, <3>3 DEF Links
    <3> QED BY <3>3, <3>4
  <2>2. ASSUME NEW b \in B PROVE b \in A
    <3>1. PICK l \in Links({p}) : b = <<l[2], terms[p][l[2]]>> OBVIOUS
    <3>2. l[1] = p /\ l \in Links(o.plans) BY <3>1 DEF Links
    <3>3. PICK m : m = <<l[1], l[2], terms[l[1]][l[2]]>> OBVIOUS
    <3>4. m \in L BY <1>2, <3>2, <3>3
    <3>5. m[1] = p /\ m[2] = l[2] /\ m[3] = terms[p][l[2]] BY <3>2, <3>3
    <3> QED BY <3>1, <3>4, <3>5
  <2> QED BY <2>1, <2>2
<1>11. \A p \in o.plans : LinksTrue(p)'
  BY <1>1, <1>4, <1>6, <1>10 DEF LinksTrue, Links
<1>12. SnapOK' BY <1>0, <1>1, <1>4, <1>6, <1>7, <1>9, <1>11 DEF SnapOK
<1> QED BY <1>1, <1>4, <1>6, <1>12, SnapMoves

(* The statement on features: those of the links exist. *)
LEMMA SnapFeaturesIInv ==
  ASSUME IInv, SnapFeatures PROVE IInv'
<1>0. PICK o : o = snap OBVIOUS
<1>1. /\ IsSnap(o) /\ SnapOK /\ o.st = "links"
      /\ UNCHANGED <<products, feature, plan, prices, terms, tx, sub, bought, torn>>
  BY <1>0 DEF SnapFeatures, Snap, IInv, TypeOK
<1>2. PICK F : F = {f \in Features : feature[f] # None /\ \E l \in o.links : l[2] = f} OBVIOUS
<1>3. snap' = [[o EXCEPT !.features = F] EXCEPT !.st = "done"]
  BY <1>0, <1>2 DEF SnapFeatures, Snap
<1>4. PICK x : x = snap' OBVIOUS
<1>5. x = [st |-> "done", plans |-> o.plans, products |-> o.products, prices |-> o.prices,
           links |-> o.links, features |-> F]
  BY <1>1, <1>3, <1>4 DEF IsSnap
<1>6. /\ x.st = "done" /\ x.plans = o.plans /\ x.products = o.products /\ x.prices = o.prices
      /\ x.links = o.links /\ x.features = F /\ IsSnap(x)
  BY <1>5, SnapFields
<1>7. Published' = Published BY <1>1, SameRows
<1>8. \A l \in o.links : l[2] \in F BY <1>0, <1>1, <1>2 DEF SnapOK
<1>9. \A p : LinksTrue(p) => LinksTrue(p)' BY <1>0, <1>1, <1>4, <1>6 DEF LinksTrue, Links
<1>10. SnapOK' BY <1>0, <1>1, <1>4, <1>6, <1>7, <1>8, <1>9 DEF SnapOK
<1> QED BY <1>1, <1>4, <1>6, <1>10, SnapMoves

(* The answer goes out. *)
LEMMA SnapReturnIInv ==
  ASSUME IInv, SnapReturn PROVE IInv'
<1>1. /\ snap' = [NoSnap EXCEPT !.st = "idle"]
      /\ UNCHANGED <<products, feature, plan, prices, terms, tx, sub, bought, torn>>
  BY DEF SnapReturn, Snap
<1>2. PICK x : x = snap' OBVIOUS
<1>3. x = NoSnap BY <1>1, <1>2 DEF NoSnap
<1>4. /\ x.st = "idle" /\ x.plans = {} /\ x.prices = {} /\ x.links = {} /\ IsSnap(x)
  BY <1>3, SnapFields DEF NoSnap
<1>5. SnapOK' BY <1>2, <1>3, <1>4 DEF SnapOK
<1> QED BY <1>1, <1>2, <1>4, <1>5, SnapMoves

-----------------------------------------------------------------------------
(* The theorems.                                                           *)

(* No step of the catalog breaks the invariant. *)
LEMMA NextIInv == IInv /\ [Next]_vars => IInv'
<1> SUFFICES ASSUME IInv, [Next]_vars PROVE IInv' OBVIOUS
<1>1. CASE \E d \in Products : CreateProduct(d) BY <1>1, CreateProductIInv
<1>2. CASE \E f \in Features, type \in FeatureTypes : CreateFeature(f, type)
  BY <1>2, CreateFeatureIInv
<1>3. ASSUME NEW s \in Sessions, NEW p \in Plans,
             \/ \E d \in Products : CheckDraft(s, p, d)
             \/ \E amount \in Amounts : ReadForPrice(s, p, amount)
             \/ \E in \in Inputs : ReadForTerms(s, p, in)
             \/ ReadForPublish(s, p)
      PROVE  IInv'
  <2>1. CASE \E d \in Products : CheckDraft(s, p, d) BY <2>1, CheckDraftIInv
  <2>2. CASE \E amount \in Amounts : ReadForPrice(s, p, amount)
    BY <2>2, OpenDraftIInv DEF ReadForPrice
  <2>3. CASE \E in \in Inputs : ReadForTerms(s, p, in) BY <2>3, OpenDraftIInv DEF ReadForTerms
  <2>4. CASE ReadForPublish(s, p) BY <2>4, OpenDraftIInv DEF ReadForPublish
  <2> QED BY <1>3, <2>1, <2>2, <2>3, <2>4
<1>4. ASSUME NEW s \in Sessions,
             \/ ReadVersion(s) \/ InsertPlan(s) \/ CommitPrice(s) \/ LoadTerms(s)
             \/ CommitTerms(s) \/ CommitPublish(s) \/ Rollback(s)
      PROVE  IInv'
  BY <1>4, ReadVersionIInv, InsertPlanIInv, CommitPriceIInv, LoadTermsIInv, CommitTermsIInv,
     CommitPublishIInv, RollbackIInv
<1>5. CASE \E o \in Orgs, p \in Plans : Subscribe(o, p) BY <1>5, SubscribeIInv
<1>6. CASE SnapPlans \/ SnapProducts \/ SnapPrices \/ SnapLinks \/ SnapFeatures \/ SnapReturn
  BY <1>6, SnapPlansIInv, SnapProductsIInv, SnapPricesIInv, SnapLinksIInv, SnapFeaturesIInv,
     SnapReturnIInv
<1>7. CASE UNCHANGED vars
  <2>1. UNCHANGED <<products, feature, plan, prices, terms, tx, snap, sub, bought, torn>>
    BY <1>7 DEF vars
  <2>2. TxPart' BY <2>1, TxKept
  <2> QED BY <2>1, <2>2, OnlyTx
<1> QED BY <1>1, <1>2, <1>3, <1>4, <1>5, <1>6, <1>7 DEF Next

(* At first the catalog is empty. *)
LEMMA InitIInv == Init => IInv
<1> SUFFICES ASSUME Init PROVE IInv OBVIOUS
<1>1. Rows = {} /\ Published = {} BY DEF Init, Rows, Published
<1>2. \A p \in Plans : PlanOK(plan[p]) BY DEF Init, PlanOK
<1>3. VersionsDense
  <2>1. \A d : VersionsOf(d) = {} /\ {p \in Rows : plan[p].product = d} = {}
    BY <1>1 DEF VersionsOf
  <2>2. Cardinality({}) = 0 BY FS_EmptySet
  <2>3. 1..0 = {} OBVIOUS
  <2> QED BY <2>1, <2>2, <2>3 DEF VersionsDense
<1>4. IsFiniteSet(Rows) BY <1>1, FS_EmptySet
<1>5. \A s \in Sessions : tx[s] = NoTx BY DEF Init
<1>6. /\ \A s \in Sessions : TxOK(tx[s])
      /\ \A s \in Sessions : tx[s].op = "idle"
  BY <1>5, NoTxOK
<1>7. IdsApart /\ EditsTorn BY <1>1, <1>6 DEF IdsApart, Creates, EditsTorn
<1>8. TermsOK BY DEF Init, TermsOK
<1>9. SubscribedPublished /\ SubscriberTermsStable
  BY DEF Init, SubscribedPublished, SubscriberTermsStable
<1>10. snap.st = "idle" /\ snap.plans = {} /\ snap.prices = {} /\ snap.links = {} /\ IsSnap(snap)
  BY SnapFields DEF Init, NoSnap
<1>11. SnapOK BY <1>10 DEF Init, SnapOK
<1>12. TypeOK BY <1>10 DEF Init, TypeOK
<1> QED BY <1>2, <1>3, <1>4, <1>6, <1>7, <1>8, <1>9, <1>11, <1>12 DEF IInv

(* The inductive invariant holds in every reachable state. *)
THEOREM Invariance == Spec => []IInv
BY InitIInv, NextIInv, PTL DEF Spec

(* create_plan: whatever maximum the requests had read, and whoever rolls  *)
(* back, the versions of a product are 1, 2, ... without gap or repetition. *)
THEOREM Dense == Spec => []VersionsDense
<1>1. IInv => VersionsDense BY DEF IInv
<1> QED BY <1>1, Invariance, PTL

(* What a subscriber bought stays what the plan says, unless a request was *)
(* editing the plan at the moment publish_plan committed.                  *)
THEOREM TermsStable == Spec => []SubscriberTermsStable
<1>1. IInv => SubscriberTermsStable BY DEF IInv
<1> QED BY <1>1, Invariance, PTL

(* get_catalog_snapshot: although its statements see different states of   *)
(* the catalog, what a complete snapshot refers to it holds, and it shows  *)
(* every published plan as it is.                                          *)
THEOREM SnapshotWhole == Spec => []SnapshotClosed
<1>1. IInv => SnapshotClosed BY DEF IInv, SnapOK, LinksTrue, SnapshotClosed
<1> QED BY <1>1, Invariance, PTL
=============================================================================
