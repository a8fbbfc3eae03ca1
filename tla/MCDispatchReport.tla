-------------------------- MODULE MCDispatchReport --------------------------
(***************************************************************************)
(* DispatchReport for TLC, with the instances of MCWorker.                 *)
(***************************************************************************)
EXTENDS MCWorker, DispatchReport
=============================================================================
