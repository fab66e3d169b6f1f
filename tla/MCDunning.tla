----------------------------- MODULE MCDunning -----------------------------
(* Small instances of Dunning for TLC. *)
EXTENDS Dunning, TLC

CONSTANTS s1

ProcessSymmetry == Permutations(Runners) \cup Permutations(Admins)

(* Every payment failure is one of the same subscription. *)
MCSubOf == [k \in Keys |-> s1]
=============================================================================
