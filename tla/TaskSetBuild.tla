---------------------------- MODULE TaskSetBuild ----------------------------
(***************************************************************************)
(* The build of one component's TaskSet once graph has accepted it:        *)
(* TaskSet.Build, the task bodies and sharedSave of                        *)
(* src/internal/component/v1beta1/v1beta1.go over the artifact store of    *)
(* src/internal/artifact/artifact.go.                                      *)
(*                                                                         *)
(* It composes TaskGraph (which tasks wait for which, which files are      *)
(* loaded) with Executor (who runs when), gives every task a body, and     *)
(* follows three file trees: the in-memory store, the temporary directory  *)
(* all command and join tasks of the build share, and the write-to         *)
(* directory of the final artifacts (FileTrees).  The store keeps paths as *)
(* they are spelled and writes each once, so a path of the store stands    *)
(* for its content; on the disk paths are cleaned.                         *)
(***************************************************************************)
EXTENDS TaskGraph, Executor, FileTrees

CONSTANTS
    Leaf,     \* the names of the files a command writes into a directory output
    Previous  \* the files an earlier render left in the write-to directory

\* What lies on a disk is a file tree: no file has another one below it, and no
\* name is empty or made of dots.
ASSUME BuildAssumption ==
    /\ \A listing \in Listings : \A f, g \in listing : f # <<>> /\ ValidFSPath(f) /\ ~Under(f, g)
    /\ Leaf \subseteq STRING \ DotSegment
    /\ Previous \subseteq Path
    /\ \A f, g \in Previous : f # <<>> /\ ValidFSPath(f) /\ ~Under(f, g)

VARIABLES
    phase,    \* Build: "load", then "run" (execute) or "failed"
    store,    \* the paths set in the artifact store
    body,     \* where each task's body stands, and the paths it has yet to treat
    seen,     \* the files each task's body has read
    saveMu,   \* the task that holds saveMu
    saved,    \* the keys of b.saved
    broken,   \* the keys of b.saved with an error
    saving,   \* what sharedSave is saving: the path, the keys yet to write, the open one
    tmp,      \* the files of the shared temporary directory
    torn,     \* the paths of those that are truncated and not written again yet
    deploy    \* the files of the write-to directory

declVars == <<tasks, dir, verdict, files>>
saveVars == <<saveMu, saved, broken, saving, torn>>
bodyVars == <<phase, store, body, seen, saveVars, tmp, deploy>>
buildVars == <<declVars, vars, bodyVars>>

Kind(t) == tasks[t].kind
Inputs(t) == tasks[t].inputs

\* The keys of the store that Store.Save(dir, p) writes: p, or else every key
\* under p; none is no error.
Matched(p) ==
    IF Refused(p) THEN {} ELSE IF p \in store THEN {p} ELSE {k \in store : Under(k, p)}

\* The files a path of the component directory stands for.
Found(p) == {f \in dir : AtOrUnder(f, p)}

-----------------------------------------------------------------------------

BuildInit ==
    /\ tasks \in TaskSets
    /\ dir \in Listings
    /\ Accepted /\ verdict = "accepted"
    /\ pred = Edges
    /\ files = Files
    /\ Init
    /\ phase = "load"
    /\ store = {}
    /\ body = [t \in Task |-> [at |-> "none", todo |-> {}]]
    /\ seen = [t \in Task |-> {}]
    /\ saveMu = NoTask
    /\ saved = {}
    /\ broken = {}
    /\ saving = [path |-> NoPath, keys |-> {}, open |-> NoPath]
    /\ tmp = {}
    /\ torn = {}
    /\ deploy = {[path |-> p, content |-> NoPath] : p \in Previous}

\* BUG: the whole component directory is loaded.
LoadEverything ==
    /\ phase = "load"
    /\ \A p \in Loaded(files) : ValidFSPath(p)
    /\ store' = dir
    /\ phase' = "run"
    /\ UNCHANGED <<declVars, vars, body, seen, saveVars, tmp, deploy>>

\* Build loads the component files; fs.WalkDir refuses a path with dot segments.
Load ==
    /\ phase = "load"
    /\ \A p \in Loaded(files) : ValidFSPath(p)
    /\ store' = UNION {Found(p) : p \in Loaded(files)}
    /\ phase' = "run"
    /\ UNCHANGED <<declVars, vars, body, seen, saveVars, tmp, deploy>>

LoadFails ==
    /\ phase = "load"
    /\ \E p \in Loaded(files) : ~ValidFSPath(p)
    /\ phase' = "failed"
    /\ UNCHANGED <<declVars, vars, store, body, seen, saveVars, tmp, deploy>>

-----------------------------------------------------------------------------
(***************************************************************************)
(* The task bodies (taskRunner.run).                                       *)
(***************************************************************************)

\* A step of the scheduler alone.
Schedule ==
    /\ phase = "run"
    /\ Dispatcher \/ \E t \in Task :
           Refuse(t) \/ Send(t) \/ Record(t) \/ Exit(t)
    /\ UNCHANGED <<declVars, bodyVars>>

\* Where a body starts: with its inputs, its output, or its destination.
Start(t) ==
    CASE Kind(t) \in {"Resources", "File", "Helm"} -> [at |-> "set", todo |-> {tasks[t].output}]
      [] Kind(t) \in {"Kustomize", "Join", "Command"} -> [at |-> "inputs", todo |-> Inputs(t)]
      [] Kind(t) = "Artifact" -> [at |-> "remove", todo |-> {}]

BeginBody(t) ==
    /\ phase = "run"
    /\ Begin(t)
    /\ body' = [body EXCEPT ![t] = Start(t)]
    /\ UNCHANGED <<declVars, phase, store, seen, saveVars, tmp, deploy>>

\* The body of t stands at the given place.
In(t, place) == worker[t] = "running" /\ body[t].at = place

\* A step within the body of t.
Step(t, next) ==
    /\ body' = [body EXCEPT ![t] = next]
    /\ UNCHANGED <<declVars, vars, phase, deploy>>

Drop(t, p) == [body[t] EXCEPT !.todo = @ \ {p}]

\* kustomize saves its inputs to a directory of its own.
SaveInput(t, p) ==
    /\ In(t, "inputs") /\ Kind(t) = "Kustomize" /\ p \in body[t].todo
    /\ ~Refused(p) /\ Fits(seen[t], SavedFiles(Matched(p)))
    /\ \E saves \in Outcomes(SavedFiles(Matched(p))) :
           seen' = [seen EXCEPT ![t] = Overwrite(@, saves)]
    /\ Step(t, Drop(t, p))
    /\ UNCHANGED <<store, saveVars, tmp>>

\* join gets each input from the store and needs it to be a file.
GetInput(t, p) ==
    /\ In(t, "inputs") /\ Kind(t) = "Join" /\ p \in body[t].todo
    /\ p \in store
    /\ seen' = [seen EXCEPT ![t] = @ \cup {SavedFile(p)}]
    /\ Step(t, Drop(t, p))
    /\ UNCHANGED <<store, saveVars, tmp>>

\* BUG: a path is taken as saved while it is being saved.
SkipSaveUnlocked(t, p) ==
    /\ In(t, "inputs") /\ Kind(t) = "Command" /\ p \in body[t].todo
    /\ p \in saved \ broken
    /\ Step(t, Drop(t, p))
    /\ UNCHANGED <<store, seen, saveVars, tmp>>

\* sharedSave of a path that some task has saved already.
SkipSave(t, p) ==
    /\ In(t, "inputs") /\ Kind(t) = "Command" /\ p \in body[t].todo
    /\ saveMu = NoTask /\ p \in saved \ broken
    /\ Step(t, Drop(t, p))
    /\ UNCHANGED <<store, seen, saveVars, tmp>>

\* BUGS: a path is saved by every task that needs it; the key is not remembered.
LockSaveAgain(t, p) ==
    /\ In(t, "inputs") /\ Kind(t) = "Command" /\ p \in body[t].todo
    /\ saveMu = NoTask
    /\ saveMu' = t
    /\ saved' = saved \cup {p}
    /\ saving' = [path |-> p, keys |-> Matched(p), open |-> NoPath]
    /\ Step(t, Drop(t, p))
    /\ UNCHANGED <<store, seen, broken, tmp, torn>>

\* sharedSave of a new path: it keeps the mutex until its files are written.
LockSave(t, p) ==
    /\ In(t, "inputs") /\ Kind(t) = "Command" /\ p \in body[t].todo
    /\ saveMu = NoTask /\ p \notin saved
    /\ saveMu' = t
    /\ saved' = saved \cup {p}
    /\ saving' = [path |-> p, keys |-> Matched(p), open |-> NoPath]
    /\ Step(t, Drop(t, p))
    /\ UNCHANGED <<store, seen, broken, tmp, torn>>

\* os.WriteFile truncates the file of a key ...
Truncate(t, k) ==
    /\ In(t, "inputs") /\ saveMu = t /\ k \in saving.keys /\ saving.open = NoPath
    /\ Fits(tmp, {SavedFile(k)})
    /\ tmp' = Overwrite(tmp, {SavedFile(k)})
    /\ torn' = torn \cup {Clean(k)}
    /\ saving' = [saving EXCEPT !.open = k]
    /\ Step(t, body[t])
    /\ UNCHANGED <<store, seen, saveMu, saved, broken>>

\* ... and then writes it.
Rewrite(t, k) ==
    /\ In(t, "inputs") /\ saveMu = t /\ k \in saving.keys /\ saving.open = k
    /\ torn' = torn \ {Clean(k)}
    /\ saving' = [saving EXCEPT !.keys = @ \ {k}, !.open = NoPath]
    /\ Step(t, body[t])
    /\ UNCHANGED <<store, seen, saveMu, saved, broken, tmp>>

UnlockSave(t) ==
    /\ In(t, "inputs") /\ saveMu = t /\ saving.keys = {} /\ ~Refused(saving.path)
    /\ saveMu' = NoTask
    /\ Step(t, body[t])
    /\ UNCHANGED <<store, seen, saved, broken, saving, tmp, torn>>

\* What a body finds on the disk at or below a declared path.
OnDisk(tree, p) == {f \in tree : AtOrUnder(f.path, Clean(p))}

\* kustomize has its inputs and is run: its output is next.
RunKustomize(t) ==
    /\ In(t, "inputs") /\ Kind(t) = "Kustomize" /\ body[t].todo = {}
    /\ Step(t, [at |-> "set", todo |-> {tasks[t].output}])
    /\ UNCHANGED <<store, seen, saveVars, tmp>>

\* join has its inputs and writes its output to the shared directory, from
\* where it is loaded.
WriteJoined(t) ==
    /\ In(t, "inputs") /\ Kind(t) = "Join" /\ body[t].todo = {}
    /\ Fits(tmp, {SavedFile(tasks[t].output)})
    /\ tmp' = Overwrite(tmp, {SavedFile(tasks[t].output)})
    /\ Step(t, [at |-> "set", todo |-> {tasks[t].output}])
    /\ UNCHANGED <<store, seen, saveVars>>

\* A command starts, and reads what it finds below the shared directory.
StartCommand(t) ==
    /\ In(t, "inputs") /\ Kind(t) = "Command" /\ body[t].todo = {} /\ saveMu # t
    /\ tasks[t].stdin # NoPath => tasks[t].stdin \in store
    /\ seen' = [seen EXCEPT ![t] = UNION {OnDisk(tmp, p) : p \in Inputs(t)}]
    /\ Step(t, [at |-> "exec", todo |-> {}])
    /\ UNCHANGED <<store, saveVars, tmp>>

\* What a command leaves at its output: the captured stdout, or what it wrote
\* itself, a file or a directory.  The contents are named by what the store is
\* going to call them.
Written(t) ==
    LET out == tasks[t].output
    IN  IF tasks[t].stdout THEN {{out}} ELSE {{out}, {out \o <<n>> : n \in Leaf}}

\* Store.Load sets what it finds at or below a path; fs.WalkDir refuses a path
\* with dot segments, which the set of that path then fails with.
FoundAt(tree, p) == IF ValidFSPath(p) THEN {f.path : f \in OnDisk(tree, p)} ELSE {p}

\* A command with an output exits, and its files are loaded into the store.
CommandWrote(t) ==
    /\ In(t, "exec") /\ tasks[t].output # NoPath
    /\ \E out \in Written(t) :
          LET left == Overwrite(tmp, SavedFiles(out))
          IN  /\ Fits(tmp, SavedFiles(out))
              /\ tmp' = left
              /\ Step(t, [at |-> "set", todo |-> FoundAt(left, tasks[t].output)])
    /\ UNCHANGED <<store, seen, saveVars>>

\* Store.Set writes once, and Store.Load, through which join and command set
\* their output, refuses dot segments.
Settable(t, p) == p \notin store /\ (Kind(t) \in {"Join", "Command"} => ValidFSPath(p))

SetPath(t, p) ==
    /\ In(t, "set") /\ p \in body[t].todo
    /\ Settable(t, p)
    /\ store' = store \cup {p}
    /\ Step(t, Drop(t, p))
    /\ UNCHANGED <<seen, saveVars, tmp>>

Dest(t) == Clean(ArtifactPath(t))
Input(t) == CHOOSE p \in Inputs(t) : TRUE
Rest(k, p) == SubSeq(k, Len(p) + 1, Len(k))

\* BUG: the destination is written over.
ReplaceNothing(t) ==
    /\ In(t, "remove")
    /\ body' = [body EXCEPT ![t].at = "write"]
    /\ UNCHANGED <<declVars, vars, phase, store, seen, saveVars, tmp, deploy>>

\* os.RemoveAll: a sink replaces its destination.
Replace(t) ==
    /\ In(t, "remove")
    /\ deploy' = {f \in deploy : ~AtOrUnder(f.path, Dest(t))}
    /\ body' = [body EXCEPT ![t].at = "write"]
    /\ UNCHANGED <<declVars, vars, phase, store, seen, saveVars, tmp>>

\* The files a sink writes: its input saved as it is, or as a file under its
\* new name, or staged and copied below it.
Artifacts(t) ==
    LET saves == SavedFiles(Matched(Input(t)))
        root  == Clean(Input(t))
    IN  IF ArtifactPath(t) = Input(t) THEN saves
        ELSE IF Input(t) \in store THEN {[path |-> Dest(t), content |-> Input(t)]}
        ELSE {[path |-> Dest(t) \o Rest(f.path, root), content |-> f.content] :
                  f \in {g \in saves : Under(g.path, root)}}

\* A sink can write its input.  One that is not in the store is an error only
\* when it is renamed, and os.CopyFS writes over no file.
Writable(t) ==
    /\ ArtifactPath(t) # Input(t) \/ Refused(Input(t)) => Artifacts(t) # {}
    /\ Fits(deploy, Artifacts(t))
    /\ ArtifactPath(t) # Input(t) /\ Input(t) \notin store =>
           \A f \in deploy, g \in Artifacts(t) : f.path # g.path

\* A sink writes its input and succeeds.
Write(t) ==
    /\ In(t, "write") /\ Writable(t)
    /\ \E out \in Outcomes(Artifacts(t)) : deploy' = Overwrite(deploy, out)
    /\ seen' = [seen EXCEPT ![t] = SavedFiles(Matched(Input(t)))]
    /\ Succeed(t)
    /\ UNCHANGED <<declVars, phase, store, body, saveVars, tmp>>

\* BUG: the slot is given back before the completion is sent.
SucceedAndExit(t) ==
    /\ \/ In(t, "set") /\ body[t].todo = {}
       \/ In(t, "exec") /\ tasks[t].output = NoPath
    /\ worker' = [worker EXCEPT ![t] = "succeeded"]
    /\ slots' = slots \ {t}
    /\ UNCHANGED <<declVars, pred, indegree, ready, held, pending, pc, completions, err, bodyVars>>

\* The other kinds succeed with their output set; a command without one (a
\* validator) when it exits with 0.
BodySucceeds(t) ==
    /\ \/ In(t, "set") /\ body[t].todo = {}
       \/ In(t, "exec") /\ tasks[t].output = NoPath
    /\ Succeed(t)
    /\ UNCHANGED <<declVars, bodyVars>>

\* The body can only return an error: an input that is not there or that Save
\* refuses, a file where another needs a directory, a path whose sharedSave
\* failed before, an output that is set already or cannot be loaded.
Doomed(t) ==
    \/ /\ In(t, "inputs") /\ Kind(t) = "Kustomize"
       /\ \E p \in body[t].todo : Refused(p) \/ ~Fits(seen[t], SavedFiles(Matched(p)))
    \/ /\ In(t, "inputs") /\ Kind(t) = "Join"
       /\ \/ ~(body[t].todo \subseteq store)
          \/ body[t].todo = {} /\ ~Fits(tmp, {SavedFile(tasks[t].output)})
    \/ /\ In(t, "inputs") /\ Kind(t) = "Command"
       /\ \/ saveMu = NoTask /\ body[t].todo \cap broken # {}
          \/ saveMu = t /\ (Refused(saving.path) \/ \E k \in saving.keys : ~Fits(tmp, {SavedFile(k)}))
          \/ saveMu # t /\ body[t].todo = {} /\ tasks[t].stdin \notin store \cup {NoPath}
    \/ In(t, "exec") /\ tasks[t].output # NoPath /\ \A out \in Written(t) : ~Fits(tmp, SavedFiles(out))
    \/ In(t, "set") /\ \E p \in body[t].todo : ~Settable(t, p)
    \/ In(t, "write") /\ ~Writable(t)

\* The body is at work on files or with an external tool, which may fail or be
\* killed through egctx; it is not waiting for the mutex.
AtWork(t) ==
    \/ In(t, "inputs") /\ (Kind(t) = "Kustomize" \/ saveMu = t)
    \/ In(t, "inputs") /\ Kind(t) = "Join" /\ body[t].todo = {}
    \/ In(t, "exec") \/ In(t, "set") \/ In(t, "remove") \/ In(t, "write")

\* BUG: the mutex is not released with defer.
FailLocked(t) ==
    /\ Doomed(t) \/ AtWork(t)
    /\ Fail(t)
    /\ UNCHANGED <<declVars, bodyVars>>

\* What a sink leaves of its destination when it fails: it may have removed or
\* written a part.
Partial(t) ==
    CASE In(t, "remove") ->
            {deploy \ S : S \in SUBSET {f \in deploy : AtOrUnder(f.path, Dest(t))}}
      [] In(t, "write") -> {Overwrite(deploy, S) : S \in {R \in SUBSET Artifacts(t) :
                                                           OnePerPath(R) /\ Fits(deploy, R)}}
      [] OTHER -> {deploy}

\* runTask returns an error.  A failure inside sharedSave is remembered for the
\* path, and the mutex is released.
BodyFails(t) ==
    /\ Doomed(t) \/ AtWork(t)
    /\ Fail(t)
    /\ IF saveMu = t
       THEN /\ saveMu' = NoTask
            /\ broken' = broken \cup {saving.path}
            /\ saving' = [saving EXCEPT !.keys = {}, !.open = NoPath]
       ELSE UNCHANGED <<saveMu, broken, saving>>
    /\ deploy' \in Partial(t)
    /\ UNCHANGED <<declVars, phase, store, body, seen, saved, tmp, torn>>

Proceed(t) ==
    \/ BeginBody(t)
    \/ \E p \in body[t].todo :
           SaveInput(t, p) \/ GetInput(t, p) \/ SkipSave(t, p) \/ LockSave(t, p) \/ SetPath(t, p)
    \/ \E k \in saving.keys : Truncate(t, k) \/ Rewrite(t, k)
    \/ UnlockSave(t) \/ RunKustomize(t) \/ WriteJoined(t) \/ StartCommand(t) \/ CommandWrote(t)
    \/ Replace(t) \/ Write(t) \/ BodySucceeds(t)

\* Build has returned.
BuildTerminated == (pc = "done" \/ phase = "failed") /\ UNCHANGED buildVars

BuildNext == Load \/ LoadFails \/ Schedule \/ (\E t \in Task : Proceed(t) \/ BodyFails(t)) \/ BuildTerminated

\* Goroutines make progress and every external tool ends, as in Executor; a
\* failure is never owed to a body that could go on.
BuildFairness ==
    /\ WF_buildVars(Load \/ LoadFails)
    /\ WF_buildVars(Dispatcher /\ Schedule)
    /\ \A t \in Task : /\ WF_buildVars(Proceed(t) \/ (Doomed(t) /\ BodyFails(t)))
                      /\ WF_buildVars(Worker(t) /\ Schedule)

BuildSpec == BuildInit /\ [][BuildNext]_buildVars /\ BuildFairness

-----------------------------------------------------------------------------
(***************************************************************************)
(* Properties.                                                             *)
(***************************************************************************)

\* Every declared path is spelled as it is cleaned.  The code does not ask for
\* it: graph compares paths as they are spelled, and accepts the outputs, or the
\* final paths, c and ./c.
DeclaredPaths ==
    (UNION {Inputs(t) : t \in Task}) \cup {OutputOf(t) : t \in Producers}
        \cup {ArtifactPath(t) : t \in Sinks}
PathsClean == \A p \in DeclaredPaths : p # NoPath /\ ValidFSPath(p)

\* The keys of the store the inputs of t stand for, as the store is now.
InputFiles(t) == {k \in store : \E p \in Inputs(t) : AtOrUnder(k, p)}

\* The body of t has read its inputs.
HasRead(t) ==
    \/ worker[t] = "running" /\ body[t].at \in {"exec", "set"} /\ Inputs(t) # {}
    \/ worker[t] \in {"succeeded", "sent"}

\* The render is a function of its declarations: whatever the interleaving, a
\* task has read every file its inputs ever stand for.  A file that arrives under
\* an input after its reader has read, or over one of its files, would make the
\* result depend on timing.
ReadsAreComplete == \A t \in Task : HasRead(t) => seen[t] = SavedFiles(InputFiles(t))

\* "the store is write-once": no task finds its output, or a file under its
\* directory output, in the store already; Set never fails.
OutputsNeverClash ==
    \A t \in Task : worker[t] = "running" /\ body[t].at = "set" => body[t].todo \cap store = {}

\* "a re-render never leaves stale files": once a sink succeeded, its destination
\* holds its input and nothing else, for the rest of the build.
SinksAreFresh ==
    \A t \in Sinks : worker[t] \in {"succeeded", "sent"} =>
        {f \in deploy : AtOrUnder(f.path, Dest(t))} = Artifacts(t)

\* "a failed validator fails the render before anything is written": the
\* destination of a sink whose dependsOn names a failed task keeps its files.
FailuresGateWrites ==
    \A t \in Sinks :
        (\E v \in tasks[t].dependsOn : worker[v] \in {"failed", "recorded", "dropped"}) =>
            {f \in deploy : AtOrUnder(f.path, Dest(t))} =
                {[path |-> p, content |-> NoPath] : p \in {q \in Previous : AtOrUnder(q, Dest(t))}}

\* A tool left a file there in the shared directory: it lies in the output of
\* its task.
ToolWrote(p) ==
    \E t \in Producers : Kind(t) \in {"Join", "Command"} /\ AtOrUnder(p, Clean(OutputOf(t)))

\* "materialize each store path into the shared build temp directory at most
\* once": sharedSave truncates no file it has written before, only what is new
\* to the directory or what the tool of a task left there itself ...
MaterializedOnce ==
    [][\A p \in torn' \ torn : (\E f \in tmp : f.path = p) => ToolWrote(p)]_buildVars

\* ... so that no command is "reading a file another task is truncating and
\* rewriting".
NoTornReads ==
    \A t \in Task : worker[t] = "running" /\ body[t].at = "exec" =>
        \A f \in seen[t] : f.path \notin torn

\* The bodies move the scheduler only as Executor says, so what holds of every
\* run of Executor holds of this build.
ImplementsExecutor == Init /\ [][Next]_vars

\* Build returns, whoever holds the mutex when something fails.
BuildReturns == <>(pc = "done" \/ phase = "failed")
=============================================================================
