----------------------------- MODULE MCCatalog -----------------------------
(* Model values, symmetry and request bodies for the run of Catalog. *)
EXTENDS Catalog, TLC

CONSTANTS s1, s2, p1, p2, f1, f2

Symm == Permutations(Sessions) \cup Permutations(Plans)

T(limit, mode) == [limit |-> limit, enabled |-> TRUE, mode |-> mode]

\* Two bodies that disagree in two columns; the second gives both features.
MCInputs == {f1 :> T(1, "hard"), [f \in {f1, f2} |-> T(2, "soft")]}
============================================================================
