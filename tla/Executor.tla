------------------------------ MODULE Executor ------------------------------
(***************************************************************************)
(* The scheduler of one component's TaskSet: TaskSet.execute in            *)
(* src/internal/component/v1beta1/v1beta1.go.                              *)
(*                                                                         *)
(* One dispatcher goroutine hands ready tasks to an errgroup bounded by    *)
(* Opts.Concurrency and learns of finished tasks from a buffered channel;  *)
(* one worker goroutine per dispatched task runs the task body.  What a    *)
(* body does is left open here (it succeeds or fails); TaskSetBuild        *)
(* refines it.  The graph is any acyclic graph: TaskGraph derives it from  *)
(* the declared paths and CycleCheck rejects the cyclic ones.              *)
(***************************************************************************)
EXTENDS Integers, Sequences, FiniteSets, Dag

CONSTANTS
    Concurrency,  \* Opts.Concurrency; may be zero or negative
    NoTask        \* stands for the absence of a task

ASSUME TaskAssumption ==
    /\ Task \subseteq Nat
    /\ IsFiniteSet(Task)
    /\ NoTask \notin Task
    /\ Concurrency \in Int

VARIABLES
    indegree,     \* the dependencies of a task the dispatcher still awaits
    ready,        \* the ready queue; kept sorted, so a set read in name order
    held,         \* the name popped from ready while eg.Go blocks on its limit
    pending,      \* the tasks whose completion has not been received
    pc,           \* the dispatcher: "run", "wait" (in eg.Wait) or "done"
    worker,       \* where each task's goroutine stands
    slots,        \* the tasks whose goroutine holds a slot of the errgroup
    completions,  \* the buffered channel
    err           \* the task whose error the errgroup recorded

vars == <<pred, indegree, ready, held, pending, pc, worker, slots, completions, err>>

WorkerState ==
    {"idle", "spawned", "running", "succeeded", "sent",
     "failed", "refused", "recorded", "dropped"}

\* eg.SetLimit(max(1, b.Opts.Concurrency))
Limit == IF Concurrency > 1 THEN Concurrency ELSE 1

\* make(chan string, len(g.names)): room for every task.
Buffer == Cardinality(Task)

\* egctx.Err() != nil: the errgroup cancels its context with the first error.
Cancelled == err # NoTask

-----------------------------------------------------------------------------

Init ==
    /\ pred \in {p \in [Task -> SUBSET Task] : Acyclic(p)}
    /\ indegree = [t \in Task |-> Cardinality(pred[t])]
    /\ ready = {t \in Task : indegree[t] = 0}
    /\ held = NoTask
    /\ pending = Cardinality(Task)
    /\ pc = "run"
    /\ worker = [t \in Task |-> "idle"]
    /\ slots = {}
    /\ completions = <<>>
    /\ err = NoTask

\* BUG: any ready name is popped.
PopUnsorted(t) ==
    /\ pc = "run" /\ pending > 0 /\ held = NoTask
    /\ ~Cancelled
    /\ t \in ready
    /\ ready' = ready \ {t}
    /\ held' = t
    /\ UNCHANGED <<pred, indegree, pending, pc, worker, slots, completions, err>>

\* The dispatch loop pops the first ready task and calls eg.Go.
Pop(t) ==
    /\ pc = "run" /\ pending > 0 /\ held = NoTask
    /\ ~Cancelled
    /\ t \in ready /\ \A u \in ready : t <= u
    /\ ready' = ready \ {t}
    /\ held' = t
    /\ UNCHANGED <<pred, indegree, pending, pc, worker, slots, completions, err>>

\* eg.Go gets a slot and starts the goroutine, cancelled or not.
Go(t) ==
    /\ held = t
    /\ Cardinality(slots) < Limit
    /\ slots' = slots \cup {t}
    /\ worker' = [worker EXCEPT ![t] = "spawned"]
    /\ held' = NoTask
    /\ UNCHANGED <<pred, indegree, ready, pending, pc, completions, err>>

\* BUG: a cancelled dispatcher with a queue never gets to its select.
AtSelectWhenEmpty ==
    /\ pc = "run" /\ pending > 0 /\ held = NoTask
    /\ ready = {}

\* The dispatcher stands at its select: nothing more may be dispatched now.
AtSelect ==
    /\ pc = "run" /\ pending > 0 /\ held = NoTask
    /\ ready = {} \/ Cancelled

\* BUG: a successor is ready with its first completion.
ReceiveAndReadyAll ==
    /\ AtSelect
    /\ completions # <<>>
    /\ LET succ == {t \in Task : Head(completions) \in pred[t]}
       IN  /\ indegree' = [t \in Task |-> IF t \in succ THEN indegree[t] - 1 ELSE indegree[t]]
           /\ ready' = ready \cup {t \in succ : worker[t] = "idle"}
    /\ completions' = Tail(completions)
    /\ pending' = pending - 1
    /\ UNCHANGED <<pred, held, pc, worker, slots, err>>

\* case name := <-completions
Receive ==
    /\ AtSelect
    /\ completions # <<>>
    /\ LET done  == Head(completions)
           succ  == {t \in Task : done \in pred[t]}
       IN  /\ indegree' = [t \in Task |-> IF t \in succ THEN indegree[t] - 1
                                                       ELSE indegree[t]]
           /\ ready' = ready \cup {t \in succ : indegree'[t] = 0}
    /\ completions' = Tail(completions)
    /\ pending' = pending - 1
    /\ UNCHANGED <<pred, held, pc, worker, slots, err>>

\* case <-egctx.Done()
Stop ==
    /\ AtSelect
    /\ Cancelled
    /\ pc' = "wait"
    /\ UNCHANGED <<pred, indegree, ready, held, pending, worker, slots, completions, err>>

\* The loop ends because every completion was received.
Drain ==
    /\ pc = "run" /\ held = NoTask
    /\ pending = 0
    /\ pc' = "wait"
    /\ UNCHANGED <<pred, indegree, ready, held, pending, worker, slots, completions, err>>

\* eg.Wait returns: no goroutine is left.  The result of execute is err.
Return ==
    /\ pc = "wait"
    /\ slots = {}
    /\ pc' = "done"
    /\ UNCHANGED <<pred, indegree, ready, held, pending, worker, slots, completions, err>>

Dispatcher == (\E t \in Task : Pop(t) \/ Go(t)) \/ Receive \/ Stop \/ Drain \/ Return

-----------------------------------------------------------------------------

\* A worker moves from one place in its goroutine to another.
Move(t, from, to) ==
    /\ worker[t] = from
    /\ worker' = [worker EXCEPT ![t] = to]
    /\ UNCHANGED <<pred, indegree, ready, held, pending, pc>>

\* egctx.Err() is nil: the worker enters runTask.
Begin(t) ==
    /\ ~Cancelled
    /\ Move(t, "spawned", "running")
    /\ UNCHANGED <<slots, completions, err>>

\* BUG: a cancelled worker returns nil as if its task had run.
RefuseSilently(t) ==
    /\ Cancelled
    /\ Move(t, "spawned", "succeeded")
    /\ UNCHANGED <<slots, completions, err>>

\* egctx.Err() is not nil: the worker returns it.
Refuse(t) ==
    /\ Cancelled
    /\ Move(t, "spawned", "refused")
    /\ UNCHANGED <<slots, completions, err>>

\* runTask returns nil.
Succeed(t) == Move(t, "running", "succeeded") /\ UNCHANGED <<slots, completions, err>>

\* runTask returns an error, of its own or because egctx was cancelled.
Fail(t) == Move(t, "running", "failed") /\ UNCHANGED <<slots, completions, err>>

\* completions <- name
Send(t) ==
    /\ Len(completions) < Buffer
    /\ Move(t, "succeeded", "sent")
    /\ completions' = Append(completions, t)
    /\ UNCHANGED <<slots, err>>

\* BUG: the last error wins.
RecordLast(t) ==
    /\ Move(t, "failed", "recorded") \/ Move(t, "refused", "dropped")
    /\ err' = t
    /\ UNCHANGED <<slots, completions>>

\* errgroup's errOnce: the first error is kept and cancels egctx.
Record(t) ==
    /\ Move(t, "failed", "recorded") \/ Move(t, "refused", "dropped")
    /\ err' = IF Cancelled THEN err ELSE t
    /\ UNCHANGED <<slots, completions>>

\* The goroutine ends and gives its slot back.
Exit(t) ==
    /\ t \in slots
    /\ worker[t] \in {"sent", "recorded", "dropped"}
    /\ slots' = slots \ {t}
    /\ UNCHANGED <<pred, indegree, ready, held, pending, pc, worker, completions, err>>

Worker(t) ==
    Begin(t) \/ Refuse(t) \/ Succeed(t) \/ Fail(t) \/ Send(t) \/ Record(t) \/ Exit(t)

\* execute has returned; the component is built or its error is reported.
Terminated == pc = "done" /\ UNCHANGED vars

Next == Dispatcher \/ (\E t \in Task : Worker(t)) \/ Terminated

\* Goroutines that can move eventually do, and every task body ends: a command
\* that never exits blocks the build in the code as well.
Fairness == WF_vars(Dispatcher) /\ \A t \in Task : WF_vars(Worker(t))

Spec == Init /\ [][Next]_vars /\ Fairness

-----------------------------------------------------------------------------
(***************************************************************************)
(* Properties.                                                             *)
(***************************************************************************)

\* Every variable keeps its type (the declarations of execute).
TypeOK ==
    /\ pred \in [Task -> SUBSET Task]
    /\ indegree \in [Task -> Nat]
    /\ ready \in SUBSET Task
    /\ held \in Task \cup {NoTask}
    /\ pending \in Nat
    /\ pc \in {"run", "wait", "done"}
    /\ worker \in [Task -> WorkerState]
    /\ slots \in SUBSET Task
    /\ completions \in Seq(Task)
    /\ err \in Task \cup {NoTask}

\* The tasks whose completion the dispatcher has received.
Received ==
    {t \in Task : /\ worker[t] = "sent"
                  /\ \A i \in DOMAIN completions : completions[i] # t}

\* "execute runs tasks in topological order": the goroutine of a task exists
\* only once every task it depends on has succeeded and said so.
TopologicalOrder ==
    \A t \in Task : worker[t] # "idle" => \A p \in pred[t] : worker[p] = "sent"

\* The bookkeeping behind the order: the counters agree with what was received,
\* and a task is queued, held or started exactly when its counter is zero.
CountersAgree ==
    /\ pending = Cardinality(Task \ Received)
    /\ \A t \in Task : indegree[t] = Cardinality(pred[t] \ Received)
    /\ \A t \in Task : indegree[t] = 0 <=> (t \in ready \/ t = held \/ worker[t] # "idle")

\* No task is queued or held again after it was handed to a goroutine.
DispatchedOnce ==
    \A t \in Task : /\ t \in ready => t # held /\ worker[t] = "idle"
                    /\ t = held => worker[t] = "idle"

\* "bounded concurrency": no more goroutines than max(1, Concurrency), and every
\* one that has not returned holds a slot, so eg.Wait really waits for all.
BoundedConcurrency ==
    /\ Cardinality(slots) <= Limit
    /\ \A t \in Task :
          worker[t] \in {"spawned", "running", "succeeded", "failed", "refused"} => t \in slots

\* execute returns nil only after every task succeeded: an early end of the loop
\* always comes with an error.
NilMeansAllSucceeded ==
    pc = "done" /\ err = NoTask => \A t \in Task : worker[t] = "sent"

\* A task that failed is never lost: execute then returns an error ...
FailureReported ==
    pc = "done" /\ (\E t \in Task : worker[t] \in {"failed", "recorded"}) => err # NoTask

\* ... and the error it returns is one a task body gave, never the cancellation
\* the first error caused in the tasks that had not begun.
RootCauseReported == err # NoTask => worker[err] = "recorded"

\* Without a failure nothing is left behind, with one nothing hangs: execute
\* always returns (no lost wakeup between eg.Go, the channel and the select).
EventuallyReturns == <>(pc = "done")

-----------------------------------------------------------------------------

\* What a caller sees of a task.
StatusOf(t) ==
    CASE worker[t] = "running" -> "running"
      [] worker[t] \in {"succeeded", "sent"} -> "ok"
      [] worker[t] \in {"failed", "recorded"} -> "failed"
      [] OTHER -> "waiting"

Abstract == INSTANCE DagRun WITH
    status <- [t \in Task |-> StatusOf(t)],
    outcome <- IF pc # "done" THEN "running" ELSE IF Cancelled THEN "error" ELSE "ok"

\* The scheduler implements the promise of execute (DagRun): no interleaving of
\* dispatcher, workers, channel and cancellation shows a caller more than that.
ImplementsDagRun == Abstract!Spec
=============================================================================
