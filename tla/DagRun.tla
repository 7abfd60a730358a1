------------------------------- MODULE DagRun -------------------------------
(***************************************************************************)
(* What TaskSet.execute (src/internal/component/v1beta1/v1beta1.go)        *)
(* promises: the tasks of an acyclic graph run after the tasks they depend *)
(* on, each once, at most Limit at a time; the call returns when nothing   *)
(* runs, with nil exactly when every task succeeded.                       *)
(***************************************************************************)
EXTENDS Integers, FiniteSets

CONSTANTS Task, Limit

VARIABLES
    pred,     \* the tasks a task depends on
    status,   \* what became of each task
    outcome   \* "running" until execute returns "ok" (nil) or "error"

vars == <<pred, status, outcome>>

Running == {t \in Task : status[t] = "running"}

Init ==
    /\ pred \in [Task -> SUBSET Task]
    /\ status = [t \in Task |-> "waiting"]
    /\ outcome = "running"

\* A task begins once everything it depends on is there.
Start(t) ==
    /\ outcome = "running"
    /\ status[t] = "waiting"
    /\ \A p \in pred[t] : status[p] = "ok"
    /\ Cardinality(Running) < Limit
    /\ status' = [status EXCEPT ![t] = "running"]
    /\ UNCHANGED <<pred, outcome>>

\* A task ends well or badly.
Finish(t) ==
    /\ status[t] = "running"
    /\ \E s \in {"ok", "failed"} : status' = [status EXCEPT ![t] = s]
    /\ UNCHANGED <<pred, outcome>>

\* Every task succeeded.
ReturnNil ==
    /\ outcome = "running"
    /\ \A t \in Task : status[t] = "ok"
    /\ outcome' = "ok"
    /\ UNCHANGED <<pred, status>>

\* Some task failed; the ones that had not begun never do.
ReturnError ==
    /\ outcome = "running"
    /\ Running = {}
    /\ \E t \in Task : status[t] = "failed"
    /\ outcome' = "error"
    /\ UNCHANGED <<pred, status>>

Next == (\E t \in Task : Start(t) \/ Finish(t)) \/ ReturnNil \/ ReturnError

\* A running task ends, and execute returns as soon as it may: while tasks can
\* still be started and none has failed, one of them is.
Fairness == WF_vars(Next)

Spec == Init /\ [][Next]_vars /\ Fairness
=============================================================================
