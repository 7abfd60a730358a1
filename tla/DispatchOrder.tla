--------------------------- MODULE DispatchOrder ----------------------------
(***************************************************************************)
(* Executor with a record of what its dispatcher handed out and received,  *)
(* to state the comment on TaskSet.execute (v1beta1.go): "dispatch order   *)
(* is a deterministic function of completion order".                       *)
(***************************************************************************)
EXTENDS Executor, SequencesExt

VARIABLES
    dispatched,  \* the tasks popped from the ready queue, in order
    received     \* the completions received, in order

recordVars == <<vars, dispatched, received>>

RecordInit == Init /\ dispatched = <<>> /\ received = <<>>

Recorded ==
    /\ dispatched' = IF held = NoTask /\ held' # NoTask
                     THEN Append(dispatched, held') ELSE dispatched
    /\ received' = IF pending' < pending THEN Append(received, Head(completions)) ELSE received

RecordNext == Next /\ Recorded

RecordSpec == RecordInit /\ [][RecordNext]_recordVars /\ Fairness

\* The tasks of graph g that are ready once the first i completions of c are
\* received: at the start, those without dependencies.
ReadyAfter(g, c, i) == {t \in Task : g[t] \subseteq {c[k] : k \in 1 .. i}}

\* The order the comment promises: a task that is ready with an earlier completion
\* comes first, and of those ready with the same one the first by name.
Before(g, c, t, u) ==
    LET Rounds(v) == {i \in 0 .. Len(c) : v \in ReadyAfter(g, c, i)}
    IN  \/ ~(Rounds(t) \subseteq Rounds(u))
        \/ Rounds(t) = Rounds(u) /\ t < u

\* "dispatch order is a deterministic function of completion order": the tasks
\* dispatched so far are the first in that order, each at its place, and none that
\* is ready is left when the dispatcher waits for the next completion.
DispatchIsReplay ==
    LET all == ReadyAfter(pred, received, Len(received))
    IN  /\ \A j \in DOMAIN dispatched :
               /\ dispatched[j] \in all
               /\ {t \in all : Before(pred, received, t, dispatched[j])} = {dispatched[k] : k \in 1 .. (j - 1)}
        /\ AtSelect /\ ~Cancelled => Range(dispatched) = all
=============================================================================
