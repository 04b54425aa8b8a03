-------------------------- MODULE MCSchedulerExecution --------------------------
(***************************************************************************)
(* Instances of SchedulerExecution for TLC.                                *)
(***************************************************************************)
EXTENDS SchedulerExecution, TLC

\* Calls, keys and executions are interchangeable, in the code and in every property.
Symmetric == Permutations(Call) \union Permutations(Key) \union Permutations(Exec)
================================================================================
