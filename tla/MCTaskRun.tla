------------------------------- MODULE MCTaskRun -------------------------------
(***************************************************************************)
(* One task whose agent emits up to three events, so that one save of the  *)
(* chain is in flight while another waits, and two decisions about it.     *)
(***************************************************************************)
EXTENDS TaskRun

CONSTANTS d1, d2
=============================================================================
