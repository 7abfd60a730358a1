--------------------------- MODULE BuildPlanFiles ---------------------------
(***************************************************************************)
(* The bodies of the tasks of BuildPlan, and the files they share:         *)
(* generatorTask, transformersTask and validatorTask of                    *)
(* src/internal/component/v1alpha6/v1alpha6.go and of                      *)
(* src/internal/component/v1alpha5/v1alpha5.go, over the artifact store of *)
(* src/internal/artifact/artifact.go.                                      *)
(*                                                                         *)
(* Every step of BuildPlan is kept; Send, Succeed, Fail, Save and SaveFails *)
(* are joined with what happens to the store, to the temporary directory   *)
(* all tasks of a v1alpha6 build share, and to the write-to directory.     *)
(* The store keeps paths as they are spelled, and a path of it is set      *)
(* once; on the way to a directory they are cleaned (FileTrees).           *)
(***************************************************************************)
EXTENDS BuildPlan, FileTrees

CONSTANTS
    Plans,  \* the BuildPlans of the instance: [api, artifacts]
    Leaf    \* the names of the files a command writes into a directory output

VARIABLES
    plan,   \* the BuildPlan that is built
    store,  \* the paths set in the artifact store
    body,   \* where each worker's task stands: its unit, place, inputs and files
    seen,   \* the files each unit has read, or has in its own directory
    tmp,    \* the files of the shared temporary directory
    torn,   \* the paths of it that are truncated and not written again yet
    deploy  \* the files of the write-to directory

fileVars == <<plan, store, body, seen, tmp, torn, deploy>>
filesVars == <<vars, fileVars>>

\* What the bodies look at of a generator, a transformer or a validator, and of
\* an artifact.  A generator and a validator are units as well: the one has no
\* inputs, the other no output.  The string "" is a path of one empty segment.
Unit == [kind : {"Resources", "Helm", "File", "Command", "Kustomize", "Join", "Validator"},
         inputs : Seq(Path \ {NoPath}), output : Path, stdout : BOOLEAN]
ArtifactDecl ==
    [path : Path \ {NoPath}, generators : Seq(Unit), transformers : Seq(Unit), validators : Seq(Unit)]

ASSUME FilesAssumption ==
    /\ Leaf \subseteq STRING \ DotSegment
    /\ \A p \in Plans :
          /\ p.api \in {"v1alpha5", "v1alpha6"}
          /\ p.artifacts \in [Artifact -> ArtifactDecl]
          /\ \A a \in Artifact : /\ Len(p.artifacts[a].generators) = Generators[a]
                                 /\ Len(p.artifacts[a].validators) = Validators[a]

Declared(a) == plan.artifacts[a]

\* What a task runs, in order: a generator, the list of transformers, or a
\* validator.
Units(t) ==
    CASE t[2] = 1 -> <<Declared(t[1]).generators[t[3]]>>
      [] t[2] = 2 -> Declared(t[1]).transformers
      [] t[2] = 3 -> <<Declared(t[1]).validators[t[3]]>>

\* The units of the plan, each named by its task and its place in the task.
UnitsOfPlan == UNION {{t} \X DOMAIN Units(t) : t \in Tasks}
UnitAt(k) == Units(k[1])[k[2]]

\* The kinds a task runs; any other is an error.
GeneratorKinds5   == {"Resources", "Helm", "File"}
GeneratorKinds6   == GeneratorKinds5 \cup {"Command"}
TransformerKinds5 == {"Kustomize", "Join"}
TransformerKinds6 == TransformerKinds5 \cup {"Command"}

Supported(s) ==
    CASE s = 1 -> IF plan.api = "v1alpha5" THEN GeneratorKinds5 ELSE GeneratorKinds6
      [] s = 2 -> IF plan.api = "v1alpha5" THEN TransformerKinds5 ELSE TransformerKinds6
      [] s = 3 -> {"Validator"}

\* BUG: validators of v1alpha5 share the temporary directory as well.
IsolatedKustomizeOnly(u) == u.kind = "Kustomize"

\* The unit runs its tool in a temporary directory of its own.
Isolated(u) == u.kind = "Kustomize" \/ (u.kind = "Validator" /\ plan.api = "v1alpha5")

\* The unit runs its tool in the directory all tasks of the build share.
Shared(u) == u.kind \in {"Command", "Validator"} /\ ~Isolated(u)

CurrentUnit(w) == <<task[w], body[w].unit>>
Current(w) == Units(task[w])[body[w].unit]

\* The keys of the store that Store.Save(dir, p) writes: the file p, or else
\* every file under p; none is no error.
Matched(p) == IF p \in store THEN {p} ELSE {k \in store : Under(k, p)}

-----------------------------------------------------------------------------

\* Where the k-th unit of a task starts: with its inputs, or with its output
\* when it has none to read.
Start(t, k) ==
    LET units == Units(t)
        At(place, inputs, out) == [unit |-> k, at |-> place, inputs |-> inputs, files |-> out, open |-> NoPath]
    IN  IF k > Len(units) THEN At("end", <<>>, {})
        ELSE IF units[k].kind \in GeneratorKinds5 THEN At("generate", <<>>, {})
        ELSE At("inputs", units[k].inputs, {})

FilesInit ==
    /\ Init
    /\ plan \in Plans
    /\ store = {} /\ tmp = {} /\ torn = {} /\ deploy = {}
    /\ body = [w \in Worker |-> [unit |-> 1, at |-> "end", inputs |-> <<>>, files |-> {}, open |-> NoPath]]
    /\ seen = [k \in UnitsOfPlan |-> {}]

\* The steps of BuildPlan that touch no file.
Schedule ==
    /\ \/ \E a \in Artifact : Abort(a) \/ Wait(a)
       \/ \E w \in Worker : Record(w) \/ Quit(w) \/ Drained(w)
       \/ Produce
    /\ UNCHANGED fileVars

\* The worker takes a task and starts its body.
Take(a, w) ==
    /\ Send(a, w)
    /\ body' = [body EXCEPT ![w] = Start(<<a, stage[a], sent[a] + 1>>, 1)]
    /\ UNCHANGED <<plan, store, seen, tmp, torn, deploy>>

\* The body of w stands at the given place of a unit it can run.
In(w, place) ==
    /\ worker[w] = "running"
    /\ body[w].at = place
    /\ place # "end" => Current(w).kind \in Supported(task[w][2])

\* A step of the body; with the last unit the task returns nil.
Step(w, next) ==
    /\ body' = [body EXCEPT ![w] = next]
    /\ IF next.at = "end" THEN Succeed(w) ELSE UNCHANGED vars
    /\ UNCHANGED <<plan, deploy>>

Goto(w, place, out) == [body[w] EXCEPT !.at = place, !.files = out]

NextUnit(w) == Start(task[w], body[w].unit + 1)

\* BUG: the store takes a path again.
SettableAgain(f) == TRUE

\* Store.Set writes once.
Settable(f) == f \notin store

\* A File, Helm or Resources generator has its data and sets its output.  Helm
\* runs in a directory of its own, and its chart is the matter of ChartCache.
Generate(w) ==
    /\ In(w, "generate")
    /\ Settable(Current(w).output)
    /\ store' = store \cup {Current(w).output}
    /\ Step(w, NextUnit(w))
    /\ UNCHANGED <<seen, tmp, torn>>

\* The data of the generator cannot be had, or its output is set already.
GeneratorFails(w) == In(w, "generate") /\ Fail(w) /\ UNCHANGED fileVars

\* The unit reads its next input, and then has the given files.
Reads(w, p, files) ==
    /\ In(w, "inputs") /\ body[w].inputs # <<>> /\ p = Head(body[w].inputs)
    /\ seen' = [seen EXCEPT ![CurrentUnit(w)] = files]
    /\ Step(w, [body[w] EXCEPT !.inputs = Tail(@)])
    /\ UNCHANGED <<store, tmp, torn>>

\* An isolated unit saves an input to its own directory.
SaveIsolated(w, p) ==
    LET own == seen[CurrentUnit(w)]
    IN  /\ Isolated(Current(w))
        /\ ~Refused(p) /\ Fits(own, SavedFiles(Matched(p)))
        /\ \E saves \in Outcomes(SavedFiles(Matched(p))) : Reads(w, p, Overwrite(own, saves))

\* Join gets an input from the store and needs it to be a file.
GetInput(w, p) ==
    /\ Current(w).kind = "Join" /\ p \in store
    /\ Reads(w, p, seen[CurrentUnit(w)] \cup {SavedFile(p)})

\* A command saves its next input to the shared directory, file by file.
SaveInput(w) ==
    /\ In(w, "inputs") /\ body[w].inputs # <<>> /\ Shared(Current(w))
    /\ ~Refused(Head(body[w].inputs))
    /\ LET files == Matched(Head(body[w].inputs))
       IN  Step(w, [body[w] EXCEPT !.at = IF files = {} THEN "inputs" ELSE "saving",
                                   !.inputs = Tail(@), !.files = files])
    /\ UNCHANGED <<store, seen, tmp, torn>>

\* The places where files of the shared directory are written: inputs, the
\* joined file, and a captured stdout.
Writing(w) == In(w, "saving") \/ In(w, "writing")

\* os.WriteFile truncates the file of a key ...
Truncate(w, k) ==
    /\ Writing(w) /\ body[w].open = NoPath /\ k \in body[w].files
    /\ Fits(tmp, {SavedFile(k)})
    /\ tmp' = Overwrite(tmp, {SavedFile(k)})
    /\ torn' = torn \cup {Clean(k)}
    /\ Step(w, [body[w] EXCEPT !.open = k])
    /\ UNCHANGED <<store, seen>>

\* What Store.Load finds at or below the unit's output, whoever wrote it; a path
\* with dot segments it refuses.  An output "." is left out.
Found(w, tree) ==
    IF ValidFSPath(Current(w).output)
    THEN {f.path : f \in {g \in tree : AtOrUnder(g.path, Current(w).output)}} ELSE {}

\* ... and then writes it.  When it was the last, the next input follows, or
\* the output is loaded.  Of two that write one file at once the later has it.
Rewrite(w) ==
    /\ Writing(w) /\ body[w].open # NoPath
    /\ LET rest == [body[w] EXCEPT !.open = NoPath, !.files = @ \ {body[w].open}]
           tree == Overwrite(tmp, {SavedFile(body[w].open)})
       IN  /\ tmp' = tree
           /\ torn' = torn \ {Clean(body[w].open)}
           /\ Step(w, IF rest.files # {} THEN rest
                      ELSE IF In(w, "saving") THEN [rest EXCEPT !.at = "inputs"]
                      ELSE [rest EXCEPT !.at = "set", !.files = Found(w, tree)])
    /\ UNCHANGED <<store, seen>>

\* The inputs are there.
InputsRead(w) == In(w, "inputs") /\ body[w].inputs = <<>>

\* kustomize runs on its own directory and its stdout is set.
Kustomized(w) ==
    /\ InputsRead(w) /\ Current(w).kind = "Kustomize"
    /\ Step(w, Goto(w, "set", {Current(w).output}))
    /\ UNCHANGED <<store, seen, tmp, torn>>

\* A validator of v1alpha5 runs on its own directory, which it leaves behind.
Validated(w) ==
    /\ InputsRead(w) /\ Current(w).kind = "Validator" /\ Isolated(Current(w))
    /\ Step(w, NextUnit(w))
    /\ UNCHANGED <<store, seen, tmp, torn>>

\* Join sets the joined inputs in v1alpha5; v1alpha6 writes them to the shared
\* directory and loads them from there.
Joined(w) ==
    /\ InputsRead(w) /\ Current(w).kind = "Join"
    /\ Step(w, Goto(w, IF plan.api = "v1alpha5" THEN "set" ELSE "writing", {Current(w).output}))
    /\ UNCHANGED <<store, seen, tmp, torn>>

\* What a unit finds in a directory at or below its inputs.
InputsOf(u) == {u.inputs[i] : i \in DOMAIN u.inputs}
ReadBy(u, tree) == {f \in tree : \E p \in InputsOf(u) : AtOrUnder(f.path, Clean(p))}

\* The tool of a shared unit starts and reads what it finds in the directory.
StartTool(w) ==
    /\ InputsRead(w) /\ Shared(Current(w))
    /\ seen' = [seen EXCEPT ![CurrentUnit(w)] = ReadBy(Current(w), tmp)]
    /\ Step(w, Goto(w, "exec", {}))
    /\ UNCHANGED <<store, tmp, torn>>

\* What a command leaves at its output itself: a file, or a directory.
Outputs(u) == {{u.output}, {u.output \o <<n>> : n \in Leaf}}

\* The tool exits with 0.  A validator has no output; a command has it on
\* stdout, or in the shared directory, where it may be missing.
Exit(w) ==
    /\ In(w, "exec")
    /\ LET u == Current(w)
       IN  \/ u.kind = "Validator" /\ Step(w, NextUnit(w)) /\ UNCHANGED tmp
           \/ u.kind = "Command" /\ u.stdout /\ Step(w, Goto(w, "writing", {u.output})) /\ UNCHANGED tmp
           \/ u.kind = "Command" /\ ~u.stdout /\ \E out \in Outputs(u) \cup {{}} :
                 /\ Fits(tmp, SavedFiles(out))
                 /\ tmp' = Overwrite(tmp, SavedFiles(out))
                 /\ Step(w, Goto(w, "set", Found(w, Overwrite(tmp, SavedFiles(out)))))
    /\ UNCHANGED <<store, seen, torn>>

\* The unit sets one of its files, and the last of them ends it.
SetFile(w, f) ==
    /\ In(w, "set") /\ f \in body[w].files /\ Settable(f)
    /\ store' = store \cup {f}
    /\ Step(w, IF body[w].files = {f} THEN NextUnit(w) ELSE Goto(w, "set", body[w].files \ {f}))
    /\ UNCHANGED <<seen, tmp, torn>>

\* A list without transformers.
Done(w) == In(w, "end") /\ Succeed(w) /\ UNCHANGED fileVars

\* The body can only return an error: a kind it does not support, an input that
\* Save refuses or that join does not find in the store, a file where another
\* needs a directory, an output that is not there or is set already.
Doomed(w) ==
    /\ worker[w] = "running" /\ body[w].at # "end"
    /\ \/ Current(w).kind \notin Supported(task[w][2])
       \/ In(w, "inputs") /\ Current(w).kind = "Join" /\ \E i \in DOMAIN body[w].inputs : body[w].inputs[i] \notin store
       \/ /\ In(w, "inputs") /\ Current(w).kind # "Join" /\ body[w].inputs # <<>>
          /\ \/ Refused(Head(body[w].inputs))
             \/ /\ Isolated(Current(w))
                /\ ~Fits(seen[CurrentUnit(w)], SavedFiles(Matched(Head(body[w].inputs))))
       \/ Writing(w) /\ body[w].open = NoPath /\ \E k \in body[w].files : ~Fits(tmp, {SavedFile(k)})
       \/ In(w, "generate") /\ ~Settable(Current(w).output)
       \/ In(w, "set") /\ body[w].files = {}
       \/ In(w, "set") /\ \E f \in body[w].files : ~Settable(f)

\* The body works on files or with a tool, which may fail or be killed.
AtWork(w) ==
    \/ Writing(w) \/ In(w, "exec") \/ In(w, "set")
    \/ In(w, "inputs") /\ Current(w).kind # "Join"

\* The task returns an error and leaves its files as they are.
Break(w) == (Doomed(w) \/ AtWork(w)) /\ Fail(w) /\ UNCHANGED fileVars

\* The artifact is saved from the store to the write-to directory: what the
\* store has of it at this moment, which may be nothing.
Deploy(a) ==
    /\ Save(a)
    /\ ~Refused(Declared(a).path) /\ Fits(deploy, SavedFiles(Matched(Declared(a).path)))
    /\ \E out \in Outcomes(SavedFiles(Matched(Declared(a).path))) : deploy' = Overwrite(deploy, out)
    /\ UNCHANGED <<plan, store, body, seen, tmp, torn>>

\* A file cannot be written; some others of the artifact may have been.
DeployFails(a) ==
    /\ SaveFails(a)
    /\ \E part \in SUBSET SavedFiles(Matched(Declared(a).path)) :
          OnePerPath(part) /\ Fits(deploy, part) /\ deploy' = Overwrite(deploy, part)
    /\ UNCHANGED <<plan, store, body, seen, tmp, torn>>

Body(w) ==
    \/ Generate(w) \/ SaveInput(w) \/ Kustomized(w) \/ Validated(w) \/ Joined(w) \/ StartTool(w)
    \/ (\E i \in DOMAIN body[w].inputs : SaveIsolated(w, body[w].inputs[i]) \/ GetInput(w, body[w].inputs[i]))
    \/ (\E f \in body[w].files : Truncate(w, f) \/ SetFile(w, f))
    \/ Rewrite(w) \/ Exit(w) \/ Done(w)

FilesNext ==
    \/ Schedule
    \/ \E a \in Artifact, w \in Worker : Take(a, w)
    \/ \E w \in Worker : Body(w) \/ GeneratorFails(w) \/ Break(w)
    \/ \E a \in Artifact : Deploy(a) \/ DeployFails(a)
    \/ Terminated /\ UNCHANGED fileVars

\* Fairness as in BuildPlan: a goroutine that can go on does, and a tool ends.
\* A failure is never owed to a body that can go on.
FilesFairness ==
    /\ WF_filesVars(\E a \in Artifact, w \in Worker : Take(a, w))
    /\ \A a \in Artifact : WF_filesVars((Schedule /\ (Abort(a) \/ Wait(a))) \/ Deploy(a) \/ DeployFails(a))
    /\ \A w \in Worker : WF_filesVars((Schedule /\ Work(w)) \/ Body(w) \/ (Doomed(w) /\ Break(w)))
    /\ WF_filesVars(Schedule /\ Produce)

FilesSpec == FilesInit /\ [][FilesNext]_filesVars
FairFilesSpec == FilesSpec /\ FilesFairness

-----------------------------------------------------------------------------

\* The units with an output: all but the validators.
Producing(k) == k[1][2] # 3

\* The paths a unit and an artifact declare, and what the API asks of a plan:
\* "One Artifact must not use an output of another Artifact as an input".
DeclaredBy(k) == InputsOf(UnitAt(k)) \cup (IF Producing(k) THEN {UnitAt(k).output} ELSE {})
PathsOf(a) == {Declared(a).path} \cup UNION {DeclaredBy(k) : k \in {u \in UnitsOfPlan : u[1][1] = a}}
AllPaths == UNION {PathsOf(a) : a \in Artifact}
Separate == \A a, b \in Artifact : a # b => \A p \in PathsOf(a), q \in PathsOf(b) : ~Overlap(p, q)

\* Every declared path is spelled as it is cleaned, which no code asks for.
PathsClean == \A p \in AllPaths : p # NoPath /\ ValidFSPath(p)

\* The unit produces one file, its output; a command that writes its output
\* itself may make a directory of it.
MakesFile(k) == Producing(k) /\ (UnitAt(k).kind = "Command" => UnitAt(k).stdout)

\* "Output fields are write-once.  It is an error for multiple Generators or
\* Transformers to produce the same Output value within the context of a
\* BuildPlan" (api/core/v1alpha6/types.go): however the two run, the build does
\* not return nil.  It holds of units that produce one file; a command that
\* makes a directory of its output does not clash with a file of that name.
OutputsAreWriteOnce ==
    Built /\ err = NoErr =>
        \A j, k \in UnitsOfPlan :
            j # k /\ MakesFile(j) /\ MakesFile(k) => UnitAt(j).output # UnitAt(k).output

\* What the store has of the inputs of a unit: what Save writes of each, and all
\* the files at or below them.
Given(u) == UNION {Matched(p) : p \in InputsOf(u)}
GivenBelow(u) == {k \in store : \E p \in InputsOf(u) : AtOrUnder(k, p)}

\* A nil error means that each artifact is complete in the write-to directory,
\* and that its validators were given what the store has in the end: no file is
\* set after the artifact was saved, no file is written over by another, and no
\* validator saw less than what is deployed of its inputs, or leftovers of the
\* shared temporary directory.
NilMeansValidated ==
    Built /\ err = NoErr /\ PathsClean /\ Separate =>
        /\ deploy = UNION {SavedFiles(Matched(Declared(a).path)) : a \in Artifact}
        /\ \A k \in UnitsOfPlan : k[1][2] = 3 =>
               /\ SavedFiles(Given(UnitAt(k))) \subseteq seen[k]
               /\ seen[k] \subseteq SavedFiles(GivenBelow(UnitAt(k)))

\* The paths the tool of a worker reads in the shared directory while it runs.
Reading(w) ==
    IF In(w, "exec") /\ Shared(Current(w)) THEN {f.path : f \in ReadBy(Current(w), tmp)} ELSE {}

\* The paths the files of a declaration may have.
FilesOf(p) == {Clean(k) : k \in {q \in store \cup {p} : AtOrUnder(q, p)}}

\* A tool may read a truncated file, since v1alpha6 saves inputs to the shared
\* directory without a lock (v1alpha6.go, transformersTask.command and
\* validatorTask.command; v1beta1 has sharedSave for it) - but only in v1alpha6
\* and only a file that another task of the plan declares too, in whatever
\* spelling: its own inputs are whole, and so are those of kustomize and of all
\* of v1alpha5.
TornOnlyIfShared ==
    \A w \in Worker : \A f \in Reading(w) \cap torn :
        /\ plan.api = "v1alpha6"
        /\ \E k \in UnitsOfPlan : k[1] # task[w] /\ \E p \in DeclaredBy(k) : f \in FilesOf(p)
=============================================================================
