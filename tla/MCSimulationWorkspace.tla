-------------------------- MODULE MCSimulationWorkspace --------------------------
(***************************************************************************)
(* A small instance of SimulationWorkspace for TLC: two amounts of cash,   *)
(* one restart, and enough moments for a user step to pass the market and  *)
(* a late tick to pull the clock back.                                     *)
(***************************************************************************)
EXTENDS SimulationWorkspace

MCCash == {1, 2}
================================================================================
