---------------------------- MODULE MCManualResearch ----------------------------
(***************************************************************************)
(* Instances of ManualResearch with a few concurrent API calls for TLC.    *)
(***************************************************************************)
EXTENDS ManualResearch, TLC

CallSymmetry == Permutations(Call)
================================================================================
