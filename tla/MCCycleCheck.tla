---------------------------- MODULE MCCycleCheck ----------------------------
(***************************************************************************)
(* TLC instance of CycleCheck: every directed graph without self loops,    *)
(* which graph has refused by then, over the tasks of the configuration.   *)
(***************************************************************************)
EXTENDS CycleCheck
=============================================================================
