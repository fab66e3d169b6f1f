------------------------- MODULE MCEntitlementCache -------------------------
(* Small instances of EntitlementCache for TLC. *)
EXTENDS EntitlementCache, TLC

CONSTANTS api1, api2, r1, r2, r3, w1

(* Two requests share a process with the writer; the third reader is in    *)
(* the other process.                                                      *)
MCProcOf == [x \in Readers \cup Writers |-> IF x = r3 THEN api2 ELSE api1]

ReaderSymmetry == Permutations({r1, r2} \cap Readers)
=============================================================================
