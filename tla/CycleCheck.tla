----------------------------- MODULE CycleCheck -----------------------------
(***************************************************************************)
(* checkCycles of src/internal/component/v1beta1/v1beta1.go: Kahn's        *)
(* algorithm, and when it leaves tasks over, a walk along predecessors     *)
(* that ends in the cycle the error names.                                 *)
(***************************************************************************)
EXTENDS Integers, FiniteSets, SequencesExt

CONSTANTS
    Task,    \* the task names, numbered in the order sort.Strings gives
    NoTask   \* stands for the absence of a task: "" in the code

ASSUME TaskAssumption == Task \subseteq Nat /\ IsFiniteSet(Task) /\ NoTask \notin Task

VARIABLES
    pred,       \* g.pred; g.succ is its inverse
    indegree,   \* the predecessors of a task not yet processed
    queue,      \* the tasks to process, in some order: succ is a Go map
    processed,  \* the tasks taken from the queue; the code counts them
    path,       \* the tasks the predecessor walk has seen, in its order
    cur,        \* where the walk stands
    result      \* "none" until checkCycles returns "nil" or "cycle"

vars == <<pred, indegree, queue, processed, path, cur, result>>

\* graph has already refused a task that depends on itself.
Init ==
    /\ pred \in {p \in [Task -> SUBSET Task] : \A t \in Task : t \notin p[t]}
    /\ indegree = [t \in Task |-> Cardinality(pred[t])]
    /\ queue = {t \in Task : indegree[t] = 0}
    /\ processed = {}
    /\ path = <<>>
    /\ cur = NoTask
    /\ result = "none"

\* BUG: every successor is queued.
ProcessAndQueueAll(t) ==
    /\ t \in queue
    /\ processed' = processed \cup {t}
    /\ LET succ == {u \in Task : t \in pred[u]}
       IN  /\ indegree' = [u \in Task |-> IF u \in succ THEN indegree[u] - 1 ELSE indegree[u]]
           /\ queue' = (queue \ {t}) \cup (succ \ processed')
    /\ UNCHANGED <<pred, path, cur, result>>

\* One iteration of Kahn's loop.
Process(t) ==
    /\ t \in queue
    /\ processed' = processed \cup {t}
    /\ LET succ == {u \in Task : t \in pred[u]}
       IN  /\ indegree' = [u \in Task |-> IF u \in succ THEN indegree[u] - 1 ELSE indegree[u]]
           /\ queue' = (queue \ {t}) \cup {u \in succ : indegree'[u] = 0}
    /\ UNCHANGED <<pred, path, cur, result>>

\* processed == len(g.names)
Accept ==
    /\ queue = {} /\ result = "none"
    /\ Cardinality(processed) = Cardinality(Task)
    /\ result' = "nil"
    /\ UNCHANGED <<pred, indegree, queue, processed, path, cur>>

\* The tasks Kahn's algorithm left over.
Remaining == {t \in Task : indegree[t] > 0}

Smallest(S) == CHOOSE t \in S : \A u \in S : t <= u

\* The walk starts at the smallest task left over.
StartWalk ==
    /\ queue = {} /\ result = "none" /\ cur = NoTask /\ path = <<>>
    /\ Cardinality(processed) # Cardinality(Task)
    /\ cur' = Smallest(Remaining)
    /\ UNCHANGED <<pred, indegree, queue, processed, path, result>>

\* An unseen task: append it and go on to its smallest predecessor left over.
Walk ==
    /\ cur # NoTask /\ result = "none"
    /\ cur \notin Range(path)
    /\ path' = Append(path, cur)
    /\ LET before == pred[cur] \cap Remaining
       IN  cur' = IF before = {} THEN NoTask ELSE Smallest(before)
    /\ UNCHANGED <<pred, indegree, queue, processed, result>>

\* BUG: only a return to the first task ends the walk.
ReportAtStart ==
    /\ cur # NoTask /\ result = "none"
    /\ path # <<>> /\ cur = path[1]
    /\ result' = "cycle"
    /\ UNCHANGED <<pred, indegree, queue, processed, path, cur>>

\* A task seen before: what the walk did since then is the cycle.
Report ==
    /\ cur # NoTask /\ result = "none"
    /\ cur \in Range(path)
    /\ result' = "cycle"
    /\ UNCHANGED <<pred, indegree, queue, processed, path, cur>>

\* BUG: the way to the cycle is reported with it.
CycleWithApproach == Reverse(path)

\* The cycle the error names: path[idx:], reversed into execution order.
Cycle ==
    Reverse(SubSeq(path, CHOOSE i \in DOMAIN path : path[i] = cur, Len(path)))

Returned == result # "none" /\ UNCHANGED vars

Next == (\E t \in Task : Process(t)) \/ Accept \/ StartWalk \/ Walk \/ Report \/ Returned

\* A single goroutine computes to its end.
Spec == Init /\ [][Next]_vars /\ WF_vars(Next)

-----------------------------------------------------------------------------
(***************************************************************************)
(* Properties.                                                             *)
(***************************************************************************)

\* The variables keep their types.
TypeOK ==
    /\ pred \in [Task -> SUBSET Task]
    /\ indegree \in [Task -> Nat]
    /\ queue \in SUBSET Task
    /\ processed \in SUBSET Task
    /\ path \in Seq(Task)
    /\ cur \in Task \cup {NoTask}
    /\ result \in {"none", "nil", "cycle"}

\* A set of tasks in which everyone waits for a member never gets started.
Acyclic == \A S \in (SUBSET Task) \ {{}} : \E t \in S : pred[t] \cap S = {}

\* checkCycles accepts acyclic graphs only, so execute cannot wait forever, and
\* once it looks for a cycle there is one.
VerdictIsRight ==
    /\ result = "nil" => Acyclic
    /\ result = "cycle" \/ cur # NoTask => ~Acyclic

\* "reported with the full cycle path": consecutive tasks of the reported path,
\* and its last and first, are edges of the graph, and no task is named twice.
CycleIsReal ==
    result = "cycle" =>
        /\ Cycle # <<>>
        /\ \A i, j \in DOMAIN Cycle : Cycle[i] = Cycle[j] => i = j
        /\ \A i \in DOMAIN Cycle :
              Cycle[i] \in pred[Cycle[(i % Len(Cycle)) + 1]]

\* The walk never runs out of predecessors: next is never "" in the code.
WalkGoesOn == path # <<>> => cur # NoTask

\* checkCycles returns.
EventuallyReturns == <>(result # "none")
=============================================================================
