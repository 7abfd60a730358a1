---------------------------- MODULE MCChartCache ----------------------------
(***************************************************************************)
(* TLC instances of ChartCache: a puller, a task it races with, and a      *)
(* later one.                                                              *)
(***************************************************************************)
EXTENDS ChartCache
=============================================================================
