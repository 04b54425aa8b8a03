-------------------------- MODULE MCContextAcquisition --------------------------
(***************************************************************************)
(* A small instance of ContextAcquisition for TLC: two tasks in batches of *)
(* one, launchd's process and one by hand, and a cap that is reached in    *)
(* the midst of the last task or not at all.                               *)
(***************************************************************************)
EXTENDS ContextAcquisition

MCCaps == {7, 11}
=================================================================================
