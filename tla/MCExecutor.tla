----------------------------- MODULE MCExecutor -----------------------------
(***************************************************************************)
(* TLC instances of Executor, with the record of DispatchOrder: every      *)
(* acyclic graph over the tasks of the configuration, at the concurrency   *)
(* the configuration names.                                                *)
(***************************************************************************)
EXTENDS DispatchOrder
=============================================================================
