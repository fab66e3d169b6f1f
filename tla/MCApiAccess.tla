---------------------------- MODULE MCApiAccess ----------------------------
(* The instance of ApiAccess that TLC checks. *)
EXTENDS ApiAccess, TLC

CONSTANTS adm, a, n, p1, p2, r1, r2

MCRootRow ==
  adm :> [org |-> None, role |-> Admin, expires |-> 2]
  @@ a :> [org |-> "org", role |-> "product_service", expires |-> Never]

\* The workers are alike, with the requests they serve.
MCSymmetry == {[x \in {p1, p2, r1, r2} |-> x], p1 :> p2 @@ p2 :> p1 @@ r1 :> r2 @@ r2 :> r1}

MCProcOf == r1 :> p1 @@ r2 :> p2

MCAsks ==
  {<<a, "call", a>>, <<a, "rotate", a>>, <<n, "call", n>>,
   <<adm, "issue", adm>>, <<adm, "revoke", a>>}

Mix(calls, rotations, newCalls, issues, revocations) ==
  <<a, "call", a>> :> calls @@ <<a, "rotate", a>> :> rotations @@ <<n, "call", n>> :> newCalls
  @@ <<adm, "issue", adm>> :> issues @@ <<adm, "revoke", a>> :> revocations

(* A burst; a key used while it is revoked, and rotated too; rotated while *)
(* it is revoked twice; keys used from when they are issued or replaced.   *)
MCLoads ==
  {Mix(4, 0, 0, 0, 0), Mix(3, 0, 0, 0, 1), Mix(1, 1, 0, 0, 1), Mix(0, 1, 0, 0, 2),
   Mix(0, 0, 2, 1, 0), Mix(0, 1, 2, 0, 0), Mix(0, 1, 1, 1, 0)}

MCWanted == {[org |-> "org", role |-> "product_service"]}

MCLimitOf == Admin :> 0 @@ "product_service" :> 1
=============================================================================
