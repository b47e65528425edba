----------------------------- MODULE MCSelfTest -----------------------------
(***************************************************************************)
(* An instance of the self-test for TLC: fewer files and generations than  *)
(* the program's 11 and 10.                                                *)
(***************************************************************************)
EXTENDS SelfTest
=============================================================================
