------------------------------ MODULE MCPruning ------------------------------
(***************************************************************************)
(* Instances of pruning for TLC: a second of two ticks, so that times      *)
(* within a second differ, and a minute of two seconds, so that the        *)
(* deadline's rounding is more than that of the names.                     *)
(***************************************************************************)
EXTENDS Pruning, TLC

CONSTANTS p1, p2, e1, e2

Symmetry == Permutations(Pruners) \cup Permutations(Entries)
=============================================================================
