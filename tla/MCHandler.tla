------------------------------ MODULE MCHandler ------------------------------
(***************************************************************************)
(* Instances of the handler for TLC.  With one file there are two task     *)
(* objects, so that a second task for the file would not go unseen; with   *)
(* two files the tasks compete for the slot and for h.mu.                  *)
(***************************************************************************)
EXTENDS Handler, TLC

CONSTANTS f1, f2, k1, k2

Symmetry == Permutations(TaskIds) \cup Permutations(Files)
=============================================================================
