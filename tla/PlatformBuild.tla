--------------------------- MODULE PlatformBuild ----------------------------
(***************************************************************************)
(* "holos render platform": Platform.Build of                              *)
(* src/internal/platform/platform.go with the per-component function of    *)
(* src/internal/cli/render/render.go, which runs "holos render component"  *)
(* as a child process.                                                     *)
(*                                                                         *)
(* The producer and the component goroutines share one errgroup.  Its      *)
(* limit is one above the concurrency because the producer, which blocks   *)
(* in g.Go while the group is full, holds a slot itself.                   *)
(***************************************************************************)
EXTENDS Integers, FiniteSets

CONSTANTS
    Total,          \* the number of selected components
    Concurrencies,  \* the values of p.cfg.Concurrency; may be zero or negative
    NoErr           \* stands for a nil error

ASSUME BuildAssumption ==
    Total \in Nat /\ Concurrencies \subseteq Int /\ NoErr \notin 1 .. (Total + 1)

VARIABLES
    limit,     \* max(1, p.cfg.Concurrency)
    next,      \* the component the producer comes to next
    producer,  \* "loop", "go" (blocked in g.Go), "recording", "exiting" or "exited"
    comp,      \* where each component's goroutine stands
    err,       \* the error g recorded: a component, or Total + 1 for the cancellation
    returned   \* Build has returned

vars == <<limit, next, producer, comp, err, returned>>

Component == 1 .. Total

\* BUG: no slot for the producer.
GroupLimitOfWorkers == limit

\* g.SetLimit(limit + 1)
GroupLimit == limit + 1

\* g's context is cancelled with the first error.
Cancelled == err # NoErr

Canceled == Total + 1

Active == {i \in Component : comp[i] \notin {"waiting", "ok", "exited"}}

\* The goroutines of the group that have not returned.
Slots == Cardinality(Active) + (IF producer = "exited" THEN 0 ELSE 1)

-----------------------------------------------------------------------------

Init ==
    /\ limit \in {IF c > 1 THEN c ELSE 1 : c \in Concurrencies}
    /\ next = 1
    /\ producer = "loop"
    /\ comp = [i \in Component |-> "waiting"]
    /\ err = NoErr
    /\ returned = FALSE

\* The select of the loop: the context is not done.
Offer ==
    /\ producer = "loop" /\ next <= Total
    /\ ~Cancelled
    /\ producer' = "go"
    /\ UNCHANGED <<limit, next, comp, err, returned>>

\* The select of the loop: the producer returns ctx.Err().
GiveUp ==
    /\ producer = "loop" /\ next <= Total
    /\ Cancelled
    /\ producer' = "recording"
    /\ UNCHANGED <<limit, next, comp, err, returned>>

\* BUG: one goroutine too many.
SpawnBeyondLimit ==
    /\ producer = "go"
    /\ Slots <= GroupLimit
    /\ comp' = [comp EXCEPT ![next] = "spawned"]
    /\ next' = next + 1
    /\ producer' = "loop"
    /\ UNCHANGED <<limit, err, returned>>

\* g.Go finds a slot, cancelled or not, and starts the component's goroutine.
Spawn ==
    /\ producer = "go"
    /\ Slots < GroupLimit
    /\ comp' = [comp EXCEPT ![next] = "spawned"]
    /\ next' = next + 1
    /\ producer' = "loop"
    /\ UNCHANGED <<limit, err, returned>>

\* BUG: the loop ends one component early.
FinishEarly ==
    /\ producer = "loop" /\ next >= Total
    /\ producer' = "exiting"
    /\ UNCHANGED <<limit, next, comp, err, returned>>

\* The producer has spawned every component and returns nil.
Finish ==
    /\ producer = "loop" /\ next > Total
    /\ producer' = "exiting"
    /\ UNCHANGED <<limit, next, comp, err, returned>>

\* g records the first error only.
FirstOf(e) == err' = IF Cancelled THEN err ELSE e

RecordProducer ==
    /\ producer = "recording"
    /\ FirstOf(Canceled)
    /\ producer' = "exiting"
    /\ UNCHANGED <<limit, next, comp, returned>>

ExitProducer ==
    /\ producer = "exiting"
    /\ producer' = "exited"
    /\ UNCHANGED <<limit, next, comp, err, returned>>

-----------------------------------------------------------------------------

Move(i, from, to) ==
    /\ comp[i] = from
    /\ comp' = [comp EXCEPT ![i] = to]
    /\ UNCHANGED <<limit, next, producer, returned>>

\* The context is looked at twice, by Build and by the per-component function.
Begin(i) == ~Cancelled /\ Move(i, "spawned", "running") /\ UNCHANGED err

Refuse(i) == Cancelled /\ Move(i, "spawned", "refused") /\ UNCHANGED err

\* The child process exits with 0 ...
Succeed(i) == Move(i, "running", "rendered") /\ UNCHANGED err

\* ... or fails ...
Fail(i) == Move(i, "running", "failed") /\ UNCHANGED err

\* ... or is killed because the context is done.
Killed(i) == Cancelled /\ Move(i, "running", "refused") /\ UNCHANGED err

Record(i) ==
    \/ Move(i, "failed", "exiting") /\ FirstOf(i)
    \/ Move(i, "refused", "exiting") /\ FirstOf(Canceled)

\* The goroutine gives its slot back.
Exit(i) ==
    /\ Move(i, "rendered", "ok") \/ Move(i, "exiting", "exited")
    /\ UNCHANGED err

\* g.Wait() returns when the group is empty; the result of Build is err.
Return ==
    /\ Slots = 0 /\ ~returned
    /\ returned' = TRUE
    /\ UNCHANGED <<limit, next, producer, comp, err>>

Produce == Offer \/ GiveUp \/ Spawn \/ Finish \/ RecordProducer \/ ExitProducer

Render(i) ==
    Begin(i) \/ Refuse(i) \/ Succeed(i) \/ Fail(i) \/ Killed(i) \/ Record(i) \/ Exit(i)

Terminated == returned /\ UNCHANGED vars

Next == Produce \/ (\E i \in Component : Render(i)) \/ Return \/ Terminated

\* Goroutines go on and every child process ends.
Spec ==
    /\ Init /\ [][Next]_vars
    /\ WF_vars(Produce) /\ WF_vars(Return)
    /\ \A i \in Component : WF_vars(Render(i))

-----------------------------------------------------------------------------

\* Every variable keeps its type; next counts the components spawned.
TypeOK ==
    /\ limit \in Nat \ {0}
    /\ next \in 1 .. (Total + 1)
    /\ producer \in {"loop", "go", "recording", "exiting", "exited"}
    /\ comp \in [Component -> {"waiting", "spawned", "running", "rendered", "failed",
                               "refused", "exiting", "ok", "exited"}]
    /\ err \in Component \cup {Canceled, NoErr}
    /\ returned \in BOOLEAN

\* "Limit the number of concurrent goroutines due to CUE memory usage": though
\* the group admits one goroutine more, no more than limit components are ever
\* in work, also after the producer has left its slot.
AtMostLimit == Cardinality(Active) <= limit

\* "render platform" succeeds only when every selected component was rendered:
\* the early exit of the producer always comes with an error.
NilMeansAllRendered == returned /\ err = NoErr => \A i \in Component : comp[i] = "ok"

\* No child process outlives Build, though goroutines are added to the group
\* while Build is in g.Wait().
NoOrphans == returned => Active = {} /\ producer = "exited"

\* Build returns: the producer, which waits for slots in a group it is itself a
\* member of, gets one for every component.
EventuallyReturns == <>returned
=============================================================================
