---------------------------- MODULE MCPublishRelease ----------------------------
(***************************************************************************)
(* A small instance of PublishRelease for TLC.                             *)
(***************************************************************************)
EXTENDS PublishRelease
=================================================================================
