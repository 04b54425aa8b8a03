--------------------------- MODULE MCScheduledRefresh ---------------------------
(***************************************************************************)
(* Small instances of ScheduledRefresh for TLC: launchd alone, or launchd  *)
(* and an invocation by hand.                                              *)
(***************************************************************************)
EXTENDS ScheduledRefresh, TLC

ProcSymmetry == Permutations(Proc)
================================================================================
