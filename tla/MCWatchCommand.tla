---------------------------- MODULE MCWatchCommand ----------------------------
(***************************************************************************)
(* Two handlers, so that the triggers of one can fail after those of the   *)
(* other; one goroutine of a group at a time would hide that, hence two.   *)
(***************************************************************************)
EXTENDS WatchCommand, TLC

CONSTANTS h1, h2

Symmetry == Permutations(Handlers)
=============================================================================
