----------------------------- MODULE TaskGraph ------------------------------
(***************************************************************************)
(* The derivation of a TaskSet's graph: TaskSet.graph, validateTask,       *)
(* matchProducers and checkPrefixFree of                                   *)
(* src/internal/component/v1beta1/v1beta1.go, and the choice Build makes   *)
(* of the component files to load before anything runs.  Which of several  *)
(* errors is reported first is left out; CycleCheck models checkCycles.    *)
(***************************************************************************)
EXTENDS Dag, Paths

CONSTANTS
    TaskSets,  \* the declarations considered: a set of functions on Task
    Listings   \* the component directories considered: sets of file paths

VARIABLES
    tasks,     \* b.Spec.Tasks
    dir,       \* the files of the component directory
    verdict,   \* "none" until graph returns "accepted" or "rejected"
    files      \* g.files

graphVars == <<tasks, dir, verdict, pred, files>>

\* core.Task; dependsOn may name tasks that do not exist.
Declaration ==
    [kind : {"Resources", "Helm", "File", "Kustomize", "Join", "Command", "Artifact"},
     inputs : SUBSET Path, output : Path, sink : Path, stdin : Path,
     stdout : BOOLEAN, dependsOn : SUBSET Nat]

ASSUME GraphAssumption ==
    /\ Task \subseteq Nat
    /\ TaskSets \subseteq [Task -> Declaration]
    /\ \A listing \in Listings : listing \subseteq Path

-----------------------------------------------------------------------------

\* The requiredness and cardinality table of validateTask.
ValidTask(d) ==
    /\ d.output # NoPath => ValidLocalPath(d.output)
    /\ \A i \in d.inputs : ValidLocalPath(i)
    /\ CASE d.kind \in {"Resources", "Helm", "File"} -> d.inputs = {} /\ d.output # NoPath
         [] d.kind \in {"Kustomize", "Join"} -> d.inputs # {} /\ d.output # NoPath
         [] d.kind = "Command" -> /\ d.stdout => d.output # NoPath
                                  /\ d.stdin # NoPath => d.stdin \in d.inputs
         [] d.kind = "Artifact" -> /\ \E i \in d.inputs : d.inputs = {i}
                                   /\ d.output = NoPath
                                   /\ d.sink # NoPath => ValidLocalPath(d.sink)

Sinks == {t \in Task : tasks[t].kind = "Artifact"}

\* The final path of a sink defaults to its single input.
ArtifactPath(t) ==
    IF tasks[t].sink # NoPath THEN tasks[t].sink ELSE CHOOSE i \in tasks[t].inputs : TRUE

Producers == {t \in Task : tasks[t].output # NoPath}

\* No two tasks declare the same path, and none a path under another's.
PrefixFree(path) ==
    \A t, u \in DOMAIN path : ~Under(path[t], path[u]) /\ (path[t] = path[u] => t = u)

OutputOf(t) == tasks[t].output

\* BUGS: rule 3, then rule 2, is forgotten; rule 2 stops at its first match.
MatchWithoutRule3(p) ==
    LET exact == {t \in Producers : OutputOf(t) = p}
        below == {t \in Producers : Under(OutputOf(t), p)}
    IN  IF exact # {} THEN exact ELSE below

MatchWithoutRule2(p) ==
    LET exact == {t \in Producers : OutputOf(t) = p}
        above == {t \in Producers : Under(p, OutputOf(t))}
    IN  IF exact # {} THEN exact ELSE above

MatchFirst(p) ==
    LET exact == {t \in Producers : OutputOf(t) = p}
        below == {t \in Producers : Under(OutputOf(t), p)}
        above == {t \in Producers : Under(p, OutputOf(t))}
        all   == IF exact # {} THEN exact ELSE IF below # {} THEN below ELSE above
    IN  {t \in all : \A u \in all : t <= u}

\* Three rules; the first one yielding matches wins.
MatchProducers(p) ==
    LET exact == {t \in Producers : OutputOf(t) = p}
        below == {t \in Producers : Under(OutputOf(t), p)}
        above == {t \in Producers : Under(p, OutputOf(t))}
    IN  IF exact # {} THEN exact ELSE IF below # {} THEN below ELSE above

\* os.Stat finds the path in the component directory, as a file or a directory.
Exists(p) == \E f \in dir : f = Clean(p) \/ Under(f, Clean(p))

\* The tasks whose output some input of t matches.
InputProducers(t) == UNION {MatchProducers(i) : i \in tasks[t].inputs}

\* BUG: dependsOn adds no edge.
EdgesOfDataOnly == [t \in Task |-> InputProducers(t)]

\* addEdge for every match of every input and for every dependsOn target.
Edges == [t \in Task |-> InputProducers(t) \cup tasks[t].dependsOn]

\* The inputs that match no output.
Files == {i \in UNION {tasks[t].inputs : t \in Task} : MatchProducers(i) = {}}

\* Everything graph checks before it returns a graph.
Accepted ==
    /\ \A t \in Task : ValidTask(tasks[t])
    /\ PrefixFree([t \in Sinks |-> ArtifactPath(t)])
    /\ PrefixFree([t \in Producers |-> OutputOf(t)])
    /\ \A p \in Files : Exists(p)
    /\ \A t \in Task : tasks[t].dependsOn \subseteq Task /\ t \notin Edges[t]
    /\ Acyclic(Edges)

\* BUG: a path is loaded again with the directory that covers it.
LoadedAll(paths) == paths

\* Build loads g.files in sorted order and skips what an already loaded
\* directory covers: the paths no other path of g.files lies above.
Loaded(paths) == {p \in paths : \A q \in paths : ~Under(p, q)}

-----------------------------------------------------------------------------

GraphInit ==
    /\ tasks \in TaskSets
    /\ dir \in Listings
    /\ verdict = "none"
    /\ pred = [t \in Task |-> {}]
    /\ files = {}

Accept ==
    /\ verdict = "none" /\ Accepted
    /\ verdict' = "accepted"
    /\ pred' = Edges
    /\ files' = Files
    /\ UNCHANGED <<tasks, dir>>

Reject ==
    /\ verdict = "none" /\ ~Accepted
    /\ verdict' = "rejected"
    /\ UNCHANGED <<tasks, dir, pred, files>>

GraphNext == Accept \/ Reject

GraphSpec == GraphInit /\ [][GraphNext]_graphVars

-----------------------------------------------------------------------------
(***************************************************************************)
(* Properties.                                                             *)
(***************************************************************************)

\* The three matching rules, of which the first to match wins, miss no data
\* flow: in an accepted graph a task waits for exactly the tasks whose output
\* is, contains or lies in one of its inputs, and for its dependsOn targets.
EdgesFollowData ==
    verdict = "accepted" =>
        \A t, u \in Task :
            t \in pred[u] <=> \/ t \in tasks[u].dependsOn
                              \/ /\ t \in Producers
                                 /\ \E i \in tasks[u].inputs : Overlap(OutputOf(t), i)

\* Every input has a source: an output of another task, or the component
\* directory; and no task can read what it writes itself.
InputsSourced ==
    verdict = "accepted" =>
        \A u \in Task : \A i \in tasks[u].inputs :
            /\ i \in files \/ \E t \in pred[u] : Overlap(OutputOf(t), i)
            /\ u \in Producers => ~Overlap(OutputOf(u), i)

\* Loading the component files cannot collide with itself or with a task's
\* write-once output: the loaded paths are disjoint, and from all outputs.
LoadsAreDisjoint ==
    verdict = "accepted" =>
        \A p \in Loaded(files) :
            /\ \A q \in Loaded(files) : p # q => ~Overlap(p, q)
            /\ \A t \in Producers : ~Overlap(OutputOf(t), p)
=============================================================================
