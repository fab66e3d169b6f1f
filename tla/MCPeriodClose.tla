--------------------------- MODULE MCPeriodClose ---------------------------
(* Instance of PeriodClose: two adjacent periods whose common bound lies in *)
(* the middle of hour 1.                                                    *)
EXTENDS PeriodClose, TLC

CONSTANTS k1, k2, c1, c2, s1, s2

MCStart == k1 :> 0 @@ k2 :> 3
MCEnd   == k1 :> 3 @@ k2 :> 6

\* For the runs with one key.
MCStart1 == k1 :> 0
MCEnd1   == k1 :> 2

Symm == Permutations(Closes) \cup Permutations(Syncs)
============================================================================
