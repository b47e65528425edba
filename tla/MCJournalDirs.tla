---------------------------- MODULE MCJournalDirs ----------------------------
(***************************************************************************)
(* Two tasks and one move, the default path "_/journal" of two elements    *)
(* and fewer random names than callers that might want one.                *)
(***************************************************************************)
EXTENDS JournalDirs

CONSTANTS a, b, m, first, r1, r2
=============================================================================
