------------------------------ MODULE Catalog ------------------------------
(***************************************************************************)
(* The catalog (services/catalog.py, api/v1/catalog.py): products,         *)
(* features, versioned plans with their prices and feature terms, and the  *)
(* snapshot export, while administrators work concurrently and             *)
(* organizations subscribe to what is published.                           *)
(*                                                                         *)
(* No operation locks a row.  Each reads, decides on what it read, and     *)
(* writes later in the same transaction; a statement sees what is          *)
(* committed when it runs (READ COMMITTED), and two unique constraints     *)
(* decide what the reads could not.  The writes of an operation become     *)
(* visible at its commit and are one step here.  All plans of a product    *)
(* have the same key: versions of another key do not interact with them.   *)
(* A request that is refused (404, 409, 400) changes nothing and is no     *)
(* step.                                                                   *)
(***************************************************************************)
EXTENDS Integers, FiniteSets, FiniteSetsExt

CONSTANTS
  Sessions,        \* administrators' requests running at once
  Products, Features,
  Plans,           \* ids of plan rows
  Amounts,         \* prices a request may ask for
  Inputs,          \* bodies of PUT features: functions from features to Terms
  FeatureTypes,    \* feature types a request may ask for
  Orgs,
  None

\* The columns of a plan_features row.
Terms == [limit : Nat \cup {None}, enabled : BOOLEAN, mode : {"hard", "soft", "degraded"}]

ASSUME CatalogAssumption ==
  /\ None \notin Nat
  /\ \A in \in Inputs : DOMAIN in \subseteq Features /\ \A f \in DOMAIN in : in[f] \in Terms

VARIABLES
  products,        \* rows of products
  feature,         \* rows of features: the type, or None
  plan,            \* rows of plans: product, version, published
  prices,          \* plan -> amounts of its prices (equal ones count once)
  terms,           \* plan -> feature -> Terms, or None without a row
  tx,              \* the transaction of each session
  snap,            \* a GET of the snapshot: what its statements have returned
  sub              \* organization -> the plan subscribed to, or None

\* History, for the properties only.
VARIABLES
  bought,          \* organization -> terms and prices when it subscribed
  torn             \* plans published while another request was editing them

vars == <<products, feature, plan, prices, terms, tx, snap, sub, bought, torn>>

ALLOWED_FEATURE_TYPES == {"boolean", "quota", "rate_limit", "seat"}

NoPlan == [product |-> None, version |-> 0, published |-> FALSE]
NoTx   == [op |-> "idle", plan |-> None, arg |-> None, loaded |-> None]
NoSnap == [st |-> "idle", plans |-> {}, products |-> {}, prices |-> {}, links |-> {},
           features |-> {}]

Init ==
  /\ products = {}
  /\ feature = [f \in Features |-> None]
  /\ plan = [p \in Plans |-> NoPlan]
  /\ prices = [p \in Plans |-> {}]
  /\ terms = [p \in Plans |-> [f \in Features |-> None]]
  /\ tx = [s \in Sessions |-> NoTx]
  /\ snap = NoSnap
  /\ sub = [o \in Orgs |-> None]
  /\ bought = [o \in Orgs |-> None]
  /\ torn = {}

Rows           == {p \in Plans : plan[p] # NoPlan}
Published      == {p \in Rows : plan[p].published}
VersionsOf(d)  == {plan[p].version : p \in {q \in Rows : plan[q].product = d}}
DraftsOf(d)    == {p \in Rows \ Published : plan[p].product = d}

Become(s, t) == tx' = [tx EXCEPT ![s] = t]

----------------------------------------------------------------------------
(* Products and features: one statement each, the key is unique. *)

CreateProduct(d) ==
  /\ d \notin products
  /\ products' = products \cup {d}
  /\ UNCHANGED <<feature, plan, prices, terms, tx, snap, sub, bought, torn>>

CreateFeature(f, type) ==
  /\ type \in ALLOWED_FEATURE_TYPES
  /\ feature[f] = None
  /\ feature' = [feature EXCEPT ![f] = type]
  /\ UNCHANGED <<products, plan, prices, terms, tx, snap, sub, bought, torn>>

----------------------------------------------------------------------------
(* create_plan. *)

\* The product exists and its key has no draft.  With two drafts
\* scalar_one_or_none raises instead, and the request fails as well.
CheckDraft(s, p, d) ==
  /\ tx[s] = NoTx
  /\ plan[p] = NoPlan
  /\ \A r \in Sessions : tx[r].plan # p
  /\ d \in products
  /\ DraftsOf(d) = {}
  /\ Become(s, [NoTx EXCEPT !.op = "checked", !.plan = p, !.arg = d])
  /\ UNCHANGED <<products, feature, plan, prices, terms, snap, sub, bought, torn>>

NextVersion(d) == Max(VersionsOf(d) \cup {0}) + 1

ReadVersion(s) ==
  /\ tx[s].op = "checked"
  /\ Become(s, [tx[s] EXCEPT !.op = "numbered", !.loaded = NextVersion(tx[s].arg)])
  /\ UNCHANGED <<products, feature, plan, prices, terms, snap, sub, bought, torn>>

\* Mutant: no unique constraint on the versions.
MutantTaken(d, version) == FALSE

\* UniqueConstraint("product_id", "key", "version").
Taken(d, version) == version \in VersionsOf(d)

\* The row that create_plan adds.
NewPlan(d, version) == [product |-> d, version |-> version, published |-> FALSE]

InsertPlan(s) ==
  LET t == tx[s] IN
  /\ t.op = "numbered"
  /\ plan' = IF Taken(t.arg, t.loaded) THEN plan
             ELSE [plan EXCEPT ![t.plan] = NewPlan(t.arg, t.loaded)]
  /\ Become(s, NoTx)
  /\ UNCHANGED <<products, feature, prices, terms, snap, sub, bought, torn>>

----------------------------------------------------------------------------
(* create_price, set_plan_features and publish_plan begin alike: they read *)
(* the plan and go on if it is a draft.                                    *)

\* Mutant: only the existence of the plan is asserted.
MutantIsDraft(p) == p \in Rows

\* _get_plan_or_raise, _assert_plan_is_draft.
IsDraft(p) == p \in Rows /\ ~plan[p].published

OpenDraft(s, op, p, arg) ==
  /\ tx[s] = NoTx
  /\ IsDraft(p)
  /\ Become(s, [NoTx EXCEPT !.op = op, !.plan = p, !.arg = arg])
  /\ UNCHANGED <<products, feature, plan, prices, terms, snap, sub, bought, torn>>

ReadForPrice(s, p, amount) == OpenDraft(s, "price", p, amount)
ReadForTerms(s, p, in)     == OpenDraft(s, "terms", p, in)
ReadForPublish(s, p)       == OpenDraft(s, "publish", p, None)

CommitPrice(s) ==
  /\ tx[s].op = "price"
  /\ prices' = [prices EXCEPT ![tx[s].plan] = @ \cup {tx[s].arg}]
  /\ Become(s, NoTx)
  /\ UNCHANGED <<products, feature, plan, terms, snap, sub, bought, torn>>

\* The rows the plan has by now.
LoadTerms(s) ==
  /\ tx[s].op = "terms"
  /\ Become(s, [tx[s] EXCEPT !.op = "loaded", !.loaded = terms[tx[s].plan]])
  /\ UNCHANGED <<products, feature, plan, prices, terms, snap, sub, bought, torn>>

\* The ORM's UPDATE names the columns that differ from what was loaded.
Updated(current, loaded, given) ==
  [c \in DOMAIN given |-> IF given[c] = loaded[c] THEN current[c] ELSE given[c]]

\* set_plan_features: a given feature is updated, or inserted when it had no
\* row; a feature that is not given keeps its row.
Written(current, loaded, given) ==
  [f \in Features |-> CASE f \notin DOMAIN given -> current[f]
                       [] f \in DOMAIN given /\ loaded[f] = None -> given[f]
                       [] OTHER -> Updated(current[f], loaded[f], given[f])]

\* A feature does not exist, or another request has inserted the row since
\* (UniqueConstraint("plan_id", "feature_id")): the transaction fails.
WriteFails(current, loaded, given) ==
  \E f \in DOMAIN given : \/ feature[f] = None
                          \/ loaded[f] = None /\ current[f] # None

CommitTerms(s) ==
  LET t       == tx[s]
      current == terms[t.plan]
  IN /\ t.op = "loaded"
     /\ terms' = IF WriteFails(current, t.loaded, t.arg) THEN terms
                 ELSE [terms EXCEPT ![t.plan] = Written(current, t.loaded, t.arg)]
     /\ Become(s, NoTx)
     /\ UNCHANGED <<products, feature, plan, prices, snap, sub, bought, torn>>

Edits(s, p) == tx[s].plan = p /\ tx[s].op \in {"price", "terms", "loaded"}

CommitPublish(s) ==
  LET p == tx[s].plan IN
  /\ tx[s].op = "publish"
  /\ plan' = [plan EXCEPT ![p].published = TRUE]
  /\ torn' = IF \E r \in Sessions : Edits(r, p) THEN torn \cup {p} ELSE torn
  /\ Become(s, NoTx)
  /\ UNCHANGED <<products, feature, prices, terms, snap, sub, bought>>

\* The process dies or the connection is lost before the commit.
Rollback(s) ==
  /\ tx[s] # NoTx
  /\ Become(s, NoTx)
  /\ UNCHANGED <<products, feature, plan, prices, terms, snap, sub, bought, torn>>

----------------------------------------------------------------------------
(* create_subscription reads the plan and refuses one that is not          *)
(* published; a published plan stays so.                                   *)

Offer(p) == [terms |-> terms[p], prices |-> prices[p]]

Subscribe(o, p) ==
  /\ sub[o] = None
  /\ p \in Published
  /\ sub' = [sub EXCEPT ![o] = p]
  /\ bought' = [bought EXCEPT ![o] = Offer(p)]
  /\ UNCHANGED <<products, feature, plan, prices, terms, tx, snap, torn>>

----------------------------------------------------------------------------
(* get_catalog_snapshot: one statement after the other. *)

Snap(from, to, new) ==
  /\ snap.st = from
  /\ snap' = [new EXCEPT !.st = to]
  /\ UNCHANGED <<products, feature, plan, prices, terms, tx, sub, bought, torn>>

\* Without a published plan the other statements are left out.
SnapPlans ==
  Snap("idle", IF Published = {} THEN "done" ELSE "plans", [snap EXCEPT !.plans = Published])

SnapProducts ==
  Snap("plans", "products", [snap EXCEPT !.products =
    {d \in products : \E p \in snap.plans : plan[p].product = d}])

SnapPrices ==
  Snap("products", "prices", [snap EXCEPT !.prices =
    {c \in Plans \X Amounts : c[1] \in snap.plans /\ c[2] \in prices[c[1]]}])

Links(ps) == {l \in ps \X Features : terms[l[1]][l[2]] # None}

\* Mutant: the links are those of the plans published by now.
MutantSnapLinks ==
  Snap("prices", "links", [snap EXCEPT !.links =
    {<<l[1], l[2], terms[l[1]][l[2]]>> : l \in Links(Published)}])

SnapLinks ==
  Snap("prices", "links", [snap EXCEPT !.links =
    {<<l[1], l[2], terms[l[1]][l[2]]>> : l \in Links(snap.plans)}])

SnapFeatures ==
  Snap("links", "done", [snap EXCEPT !.features =
    {f \in Features : feature[f] # None /\ \E l \in snap.links : l[2] = f}])

SnapReturn == Snap("done", "idle", NoSnap)

----------------------------------------------------------------------------
Next ==
  \/ \E d \in Products : CreateProduct(d)
  \/ \E f \in Features, type \in FeatureTypes : CreateFeature(f, type)
  \/ \E s \in Sessions, p \in Plans :
       \/ \E d \in Products : CheckDraft(s, p, d)
       \/ \E amount \in Amounts : ReadForPrice(s, p, amount)
       \/ \E in \in Inputs : ReadForTerms(s, p, in)
       \/ ReadForPublish(s, p)
  \/ \E s \in Sessions : \/ ReadVersion(s) \/ InsertPlan(s) \/ CommitPrice(s) \/ LoadTerms(s)
                         \/ CommitTerms(s) \/ CommitPublish(s) \/ Rollback(s)
  \/ \E o \in Orgs, p \in Plans : Subscribe(o, p)
  \/ SnapPlans \/ SnapProducts \/ SnapPrices \/ SnapLinks \/ SnapFeatures \/ SnapReturn

Spec == Init /\ [][Next]_vars

----------------------------------------------------------------------------
(* Properties. *)

\* The versions of a product's plans are 1, 2, ... without gap or repetition,
\* although requests choose them from a maximum that may be out of date when
\* they insert, and roll back after choosing.
VersionsDense ==
  \A d \in Products :
    LET rows == {p \in Rows : plan[p].product = d}
    IN VersionsOf(d) = 1..Cardinality(rows)

\* "existing subscriptions keep their subscribed version": what a subscriber
\* bought stays what the plan says, unless a request that had read the plan
\* as a draft was still under way when the plan was published.  No request
\* that begins later changes the offer.
SubscriberTermsStable ==
  \A o \in Orgs : sub[o] # None /\ sub[o] \notin torn => Offer(sub[o]) = bought[o]

\* The snapshot is closed and true: what a complete one refers to it holds,
\* and it shows a published plan as it is, whatever is created, edited and
\* published between its statements.
SnapshotClosed ==
  snap.st = "done" =>
    /\ \A l \in snap.links : l[1] \in snap.plans /\ l[2] \in snap.features
    /\ \A c \in snap.prices : c[1] \in snap.plans
    /\ \A p \in snap.plans :
         /\ plan[p].product \in snap.products
         /\ p \notin torn => {<<l[2], l[3]>> : l \in {m \in snap.links : m[1] = p}}
                               = {<<l[2], terms[p][l[2]]>> : l \in Links({p})}
============================================================================
