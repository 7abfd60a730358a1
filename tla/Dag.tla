-------------------------------- MODULE Dag ---------------------------------
(***************************************************************************)
(* The task graph of a TaskSet, as graph derives it and execute runs it    *)
(* (src/internal/component/v1beta1/v1beta1.go).                            *)
(***************************************************************************)
CONSTANT
    Task  \* the task names, numbered in the order sort.Strings gives

VARIABLE
    pred  \* g.pred: the tasks a task depends on

\* A set of tasks in which everyone waits for a member never gets started.
Acyclic(p) == \A S \in (SUBSET Task) \ {{}} : \E t \in S : p[t] \cap S = {}
=============================================================================
