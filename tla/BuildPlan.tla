----------------------------- MODULE BuildPlan ------------------------------
(***************************************************************************)
(* The build of one component's BuildPlan in the v1alpha5 and v1alpha6     *)
(* APIs: BuildPlan.Build, buildArtifact and worker of                      *)
(* src/internal/component/v1alpha6/v1alpha6.go, of which v1alpha5.go has   *)
(* the same text.                                                          *)
(*                                                                         *)
(* One pipeline goroutine per artifact sends its generators, its list of   *)
(* transformers and its validators over an unbuffered channel to a fixed   *)
(* pool of workers, with a wait group between the stages, and then writes  *)
(* the artifact.  Two errgroups are nested: the pipelines in p, and in g   *)
(* the workers and the producer, which waits for p and closes the channel. *)
(***************************************************************************)
EXTENDS Integers, Sequences, FiniteSets

CONSTANTS
    Artifact,    \* the indices of b.Spec.Artifacts
    Generators,  \* the number of generators of each artifact
    Validators,  \* the number of validators of each artifact
    Worker       \* the workers: max(1, b.Opts.Concurrency) of them

ASSUME PlanAssumption ==
    /\ IsFiniteSet(Artifact)
    /\ Generators \in [Artifact -> Nat]
    /\ Validators \in [Artifact -> Nat]
    /\ IsFiniteSet(Worker) /\ Worker # {}

VARIABLES
    stage,      \* where each pipeline stands: an index into Stages, or Returned
    sent,       \* how many tasks of its stage each pipeline has sent
    wg,         \* the wait group of each pipeline
    worker,     \* where each worker stands
    task,       \* the task each worker took last
    succeeded,  \* the tasks whose run returned nil
    failed,     \* the tasks whose run returned an error
    written,    \* the artifacts that were saved to the write-to directory
    closed,     \* close(tasks) was called
    producer,   \* the producer: "wait" (in p.Wait), "closed" or "done"
    perr,       \* the error p recorded
    err         \* the error g recorded

pipelines == <<stage, sent, written, perr>>
pool == <<worker, task, succeeded, failed>>
vars == <<pipelines, wg, pool, closed, producer, err>>

\* The stages of buildArtifact; the transformers are one task, a list run in order.
Stages == <<"generators", "transformers", "validators", "write">>
Write == Len(Stages)
Returned == Write + 1

Size(a, s) ==
    CASE s = 1 -> Generators[a]
      [] s = 2 -> 1
      [] s = 3 -> Validators[a]
      [] OTHER -> 0

\* A task is named by its artifact, its stage and its index in the stage.
TasksOf(a) == UNION {{a} \X {s} \X (1 .. Size(a, s)) : s \in 1 .. 3}
Tasks == UNION {TasksOf(a) : a \in Artifact}

\* Errors: a task stands for the error its run returned.
NoErr == <<>>
SaveError(a) == <<a, Write>>
Canceled == <<"canceled">>

\* g's context, and p's, which is derived from it, are done.
CtxDone == err # NoErr
ProducerCtxDone == CtxDone \/ perr # NoErr

\* BUG: the group keeps the last error.
LastOf(old, new) == IF new = NoErr THEN old ELSE new

\* errgroup keeps the first error that one of its functions returned.
FirstOf(old, new) == IF old = NoErr THEN new ELSE old

-----------------------------------------------------------------------------

Init ==
    /\ stage = [a \in Artifact |-> 1]
    /\ sent = [a \in Artifact |-> 0]
    /\ wg = [a \in Artifact |-> 0]
    /\ worker = [w \in Worker |-> "idle"]
    /\ task = [w \in Worker |-> <<>>]
    /\ succeeded = {}
    /\ failed = {}
    /\ written = {}
    /\ closed = FALSE
    /\ producer = "wait"
    /\ perr = NoErr
    /\ err = NoErr

\* The pipeline stands at a select that offers its next task.
AtSend(a) == stage[a] < Returned /\ sent[a] < Size(a, stage[a])

(***************************************************************************)
(* The pipeline offers a task and an idle worker takes it: one rendezvous  *)
(* of the two selects, wg.Add(1) included.  Both selects may pick it even  *)
(* when their contexts are done: Go chooses among the ready cases freely.  *)
(***************************************************************************)
Send(a, w) ==
    /\ AtSend(a)
    /\ worker[w] = "idle"
    /\ wg' = [wg EXCEPT ![a] = @ + 1]
    /\ sent' = [sent EXCEPT ![a] = @ + 1]
    /\ worker' = [worker EXCEPT ![w] = "running"]
    /\ task' = [task EXCEPT ![w] = <<a, stage[a], sent[a] + 1>>]
    /\ UNCHANGED <<stage, written, perr, succeeded, failed, closed, producer, err>>

\* The other case of the pipeline's select: it returns ctx.Err(), and the
\* wg.Add(1) of the task nobody took stays.
Abort(a) ==
    /\ AtSend(a)
    /\ ProducerCtxDone
    /\ wg' = [wg EXCEPT ![a] = @ + 1]
    /\ stage' = [stage EXCEPT ![a] = Returned]
    /\ perr' = FirstOf(perr, Canceled)
    /\ UNCHANGED <<sent, written, pool, closed, producer, err>>

\* BUG: the wait between two stages is forgotten.
WaitNot(a) ==
    /\ stage[a] < Write
    /\ sent[a] = Size(a, stage[a])
    /\ stage' = [stage EXCEPT ![a] = @ + 1]
    /\ sent' = [sent EXCEPT ![a] = 0]
    /\ UNCHANGED <<written, perr, wg, pool, closed, producer, err>>

\* wg.Wait() returns and the next stage starts, whatever became of the tasks.
Wait(a) ==
    /\ stage[a] < Write
    /\ sent[a] = Size(a, stage[a])
    /\ wg[a] = 0
    /\ stage' = [stage EXCEPT ![a] = @ + 1]
    /\ sent' = [sent EXCEPT ![a] = 0]
    /\ UNCHANGED <<written, perr, wg, pool, closed, producer, err>>

\* opts.Store.Save(opts.AbsWriteTo(), out), and the pipeline returns nil.
Save(a) ==
    /\ stage[a] = Write
    /\ stage' = [stage EXCEPT ![a] = Returned]
    /\ written' = written \cup {a}
    /\ UNCHANGED <<sent, perr, wg, pool, closed, producer, err>>

\* The artifact is not in the store, or a file cannot be written.
SaveFails(a) ==
    /\ stage[a] = Write
    /\ stage' = [stage EXCEPT ![a] = Returned]
    /\ perr' = FirstOf(perr, SaveError(a))
    /\ UNCHANGED <<sent, written, wg, pool, closed, producer, err>>

-----------------------------------------------------------------------------

\* task.run returns nil; its deferred wg.Done() ran first.
Succeed(w) ==
    /\ worker[w] = "running"
    /\ wg' = [wg EXCEPT ![task[w][1]] = @ - 1]
    /\ succeeded' = succeeded \cup {task[w]}
    /\ worker' = [worker EXCEPT ![w] = "idle"]
    /\ UNCHANGED <<pipelines, task, failed, closed, producer, err>>

\* BUG: wg.Done() without defer, forgotten on the error path.
FailWithoutDone(w) ==
    /\ worker[w] = "running"
    /\ failed' = failed \cup {task[w]}
    /\ worker' = [worker EXCEPT ![w] = "failing"]
    /\ UNCHANGED <<pipelines, wg, task, succeeded, closed, producer, err>>

\* task.run returns an error; its deferred wg.Done() ran, and g does not know
\* of the error yet.
Fail(w) ==
    /\ worker[w] = "running"
    /\ wg' = [wg EXCEPT ![task[w][1]] = @ - 1]
    /\ failed' = failed \cup {task[w]}
    /\ worker' = [worker EXCEPT ![w] = "failing"]
    /\ UNCHANGED <<pipelines, task, succeeded, closed, producer, err>>

\* worker returned the task's error: g records it if it is the first, and
\* cancels its context.
Record(w) ==
    /\ worker[w] = "failing"
    /\ worker' = [worker EXCEPT ![w] = "exited"]
    /\ err' = FirstOf(err, task[w])
    /\ UNCHANGED <<pipelines, wg, task, succeeded, failed, closed, producer>>

\* case <-ctx.Done(): the worker returns ctx.Err().
Quit(w) ==
    /\ worker[w] = "idle"
    /\ CtxDone
    /\ worker' = [worker EXCEPT ![w] = "exited"]
    /\ err' = FirstOf(err, Canceled)
    /\ UNCHANGED <<pipelines, wg, task, succeeded, failed, closed, producer>>

\* The channel is closed: the worker returns nil.
Drained(w) ==
    /\ worker[w] = "idle"
    /\ closed
    /\ worker' = [worker EXCEPT ![w] = "exited"]
    /\ UNCHANGED <<pipelines, wg, task, succeeded, failed, closed, producer, err>>

\* p.Wait() returns and the deferred close(tasks) runs.
Close ==
    /\ producer = "wait"
    /\ \A a \in Artifact : stage[a] = Returned
    /\ closed' = TRUE
    /\ producer' = "closed"
    /\ UNCHANGED <<pipelines, wg, pool, err>>

\* The producer returned p's error to g.
RecordProducer ==
    /\ producer = "closed"
    /\ producer' = "done"
    /\ err' = FirstOf(err, perr)
    /\ UNCHANGED <<pipelines, wg, pool, closed>>

\* g.Wait() returned: Build returns err.
Built == producer = "done" /\ \A w \in Worker : worker[w] = "exited"

Terminated == Built /\ UNCHANGED vars

-----------------------------------------------------------------------------

Pipeline(a) == Abort(a) \/ Wait(a) \/ Save(a) \/ SaveFails(a)
Work(w) == Succeed(w) \/ Fail(w) \/ Record(w) \/ Quit(w) \/ Drained(w)
Produce == Close \/ RecordProducer

Next ==
    \/ \E a \in Artifact, w \in Worker : Send(a, w)
    \/ \E a \in Artifact : Pipeline(a)
    \/ \E w \in Worker : Work(w)
    \/ Produce
    \/ Terminated

(***************************************************************************)
(* Fairness: a goroutine that can go on goes on, and every task, Save and  *)
(* command ends.  The sends of a pipeline need no strong fairness: a       *)
(* worker that is idle stays idle until some pipeline's send or its exit.  *)
(***************************************************************************)
Fairness ==
    /\ WF_vars(\E a \in Artifact, w \in Worker : Send(a, w))
    /\ \A a \in Artifact : WF_vars(Pipeline(a))
    /\ \A w \in Worker : WF_vars(Work(w))
    /\ WF_vars(Produce)

Spec == Init /\ [][Next]_vars
FairSpec == Spec /\ Fairness

-----------------------------------------------------------------------------

\* Every variable keeps its type.
TypeOK ==
    /\ stage \in [Artifact -> 1 .. Returned]
    /\ sent \in [Artifact -> Nat]
    /\ wg \in [Artifact -> Nat]
    /\ worker \in [Worker -> {"idle", "running", "failing", "exited"}]
    /\ task \in [Worker -> Tasks \cup {<<>>}]
    /\ succeeded \subseteq Tasks
    /\ failed \subseteq Tasks
    /\ written \subseteq Artifact
    /\ closed \in BOOLEAN
    /\ producer \in {"wait", "closed", "done"}
    /\ {perr, err} \subseteq {NoErr, Canceled} \cup Tasks \cup {SaveError(a) : a \in Artifact}

\* The tasks somebody runs.
Running == {task[w] : w \in {v \in Worker : worker[v] = "running"}}

\* The stages of one artifact never overlap: a task that is running has every
\* task of its artifact's earlier stages behind it, though the
\* pipelines share one channel and one wait group serves all three stages.
StagesInOrder ==
    \A t \in Running, u \in Tasks :
        u[1] = t[1] /\ u[2] < t[2] => u \in succeeded \cup failed

\* A nil error of Build means that the whole plan was carried out: every task
\* succeeded and every artifact was written (Render relies on it: render.go
\* goes on to the next component).
NilMeansAllWritten ==
    Built /\ err = NoErr => written = Artifact /\ succeeded = Tasks

\* A non-nil error names a task that failed or an artifact that could not be
\* saved: it is never the cancellation that the failure set off in the other
\* goroutines of the two nested groups.
RootCauseReported ==
    err # NoErr =>
        \/ err \in failed
        \/ \E a \in Artifact \ written : err = SaveError(a)

\* close(tasks) comes after the last send: a send on a closed channel panics.
NoSendOnClosed == closed => \A a \in Artifact : ~ AtSend(a)

\* What the v1alpha6 API documents: "Validator validates files.  Useful to
\* validate an [Artifact] prior to writing it out to the final destination"
\* (api/core/v1alpha6/types.go), and "writes the artifact: path implicitly
\* after validators pass" (doc/design/v1beta1/schema.md).
ValidatorsGateWrites ==
    \A a \in written : \A t \in TasksOf(a) : t[2] = 3 => t \notin failed

\* Build returns: no pipeline is left at its send when the workers are gone,
\* no worker at its receive, and no wg.Wait() hangs.
EventuallyReturns == <>Built
=============================================================================
