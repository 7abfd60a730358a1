# TLA+ models of kubestart (holos)

`holos` renders Kubernetes manifests: a *platform* is a list of *components*;
each component is a CUE configuration that evaluates to a BuildPlan (API
v1alpha5, v1alpha6) or to a TaskSet (v1beta1), a program of generators,
transformers, validators and final writes. This directory holds TLA+ models of
the parts of the program that run concurrently or decide what may run
concurrently, the TLC configurations that check them, and TLAPS proofs for
every value of their constants.

All source paths below are relative to `src/`.

## 1. Inventory

### The system's parts and how they meet

```
holos render platform                          holos show buildplans
  platform.Build  (errgroup, limit+1)            compile.Compile (errgroup)
    |  one child process per component             |  a pool of child processes,
    v                                              v  JSON requests over pipes
  holos render component                         holos compile (Compiler.Run)
    component.go: apiVersion -> v1alpha5 | v1alpha6 | v1beta1
      v1alpha5/6  BuildPlan.Build: pipelines -> channel -> workers
      v1beta1     TaskSet.Build: graph -> checkCycles -> Load -> execute
                    task bodies <-> artifact store, shared temp dir, deploy dir
                    helm bodies <-> chart cache on disk (shared with every other
                                    process that renders the same component)
```

| Part | State it keeps | Operations | Meets others through |
|---|---|---|---|
| TaskSet graph (`internal/component/v1beta1/v1beta1.go` `graph`, `validateTask`, `matchProducers`, `checkPrefixFree`) | pred, succ, files | derive a DAG from declared paths | result used by `checkCycles`, `Build`, `execute` |
| TaskSet cycle check (`checkCycles`) | in-degrees, queue, walk | Kahn, predecessor walk | refuses graphs before `execute` |
| TaskSet scheduler (`execute`) | indegree, ready, pending, completions channel, errgroup | pop, `eg.Go`, receive, stop, wait | goroutines, channel, cancellation |
| TaskSet build and bodies (`Build`, `taskRunner.*`, `sharedSave`) | store, temp dir, `saveMu`, `saved`, deploy dir | seven kinds of body | store, mutex, files |
| Artifact store (`internal/artifact/artifact.go`) | map of path to bytes, mutex | Set (write once), Get, Save, Load, Keys | called by the bodies |
| BuildPlan pipelines and task bodies (`internal/component/v1alpha6/v1alpha6.go`, `internal/component/v1alpha5/v1alpha5.go`) | per-artifact wait group, task channel, two nested errgroups; store, shared temp dir, deploy dir | send, run a body, wait, save | channel, wait group, contexts, store, files |
| Chart cache (`helm`, `onceWithLock`, `internal/helm`) | chart directory, lock directory | stat, mkdir, pull, poll, remove | the file system, across processes |
| Platform build and render platform (`internal/platform/platform.go`, `internal/cli/render`) | errgroup, child processes | spawn, run child, cancel | child processes |
| Component dispatch and render component (`internal/component`) | temporary directory | version discrimination, load, build, remove | one child process per component; all builds |
| Compile pool (`internal/compile/compile.go`) | channel, pipes, responses | hand, encode, decode, reap | pipes to child processes |
| Show and selectors (`internal/cli/show.go`, `internal/holos/types.go`, `Platform.Select`) | flags, output position | select, request, print | Compile |
| BuildPlan comparison (`internal/compare`) | none | two matching passes, recursive comparison of YAML trees | `holos compare` |
| Ordered encoder, CUE loading, generators of files, command line, utilities, API types | none, or pure I/O | | |

### What is hard about each, and what makes it correct

* **Scheduler.** One goroutine reads completions and at the same time blocks in
  `eg.Go`; workers must send before they give their slot back; a `select` is
  free to take either ready case, so the loop may leave with completions unread.
  Correct means: topological order, every task at most once, at most
  `max(1, Concurrency)` at a time, a deterministic dispatch order, nil only when
  all succeeded, the root cause and not the cancellation reported, no hang.
* **Graph.** "The first rule that matches wins" could hide a producer; a missing
  edge is a data race, a surplus one a false cycle. Correct means: edges are
  exactly the data flow and `dependsOn`; every input has a source; what `Build`
  loads cannot clash with write-once outputs; no two sinks write the same file.
  It compares paths as they are spelled, and the file system cleans them.
* **Cycle check.** Kahn and the walk must agree; the walk must not run out of
  predecessors; the reported path must be a cycle.
* **Bodies and store.** Commands share one temporary directory, saves truncate
  files, directory saves enumerate the store at one moment, a failure may leave
  the mutex or half a destination behind. Correct means: every read is complete
  whatever the interleaving, no torn read, each file materialized once, sinks
  replace their destination, failed gates keep it, no hang.
* **BuildPlan.** Pipelines block in sends while workers leave; `wg.Done()` runs
  before the task's error is known; two errgroups cancel each other; the bodies
  save their inputs to one temporary directory without a lock, and nothing
  compares the declared outputs. Correct means: stages in order, nil only when
  everything was written and its validators saw exactly that, root cause
  reported, a repeated output fails the build in every order, no torn read of a
  file the unit has for itself, no send on a closed channel, no hang.
* **Chart cache.** Check-then-act on the file system, kills in the middle,
  waiters that learn nothing of the holder's result. Correct means: exclusive
  pulls, no stale lock but after a kill, no endless wait, nobody renders from a
  chart that is being unpacked.
* **Platform build and render.** The producer is a member of the group it waits
  for; goroutines are added while `g.Wait()` waits; a failure kills the other
  children, whose deferred functions do not run. Correct means: the limit holds,
  nil means everything rendered, no child and no temporary directory outlives the
  command unless it was killed, no hang.
* **Compile pool and show.** The messages on the pipes carry no index; the
  deferred function waits for a child that waits for its input; children answer
  in any order. Correct means: response *i* answers request *i*, nil means all
  answered, the output is the selected components in platform order, no orphan,
  no hang.
* **Comparison.** Greedy passes stand for a matching; lists are sorted by a name
  that need not be unique, and filtered by position before that. Correct means:
  documents and artifacts in another order are accepted, what is accepted can be matched one to one, and
  nothing of the first file is missing in the second.

`PROJECT.json` lists these hazards at their lines with the properties that cover
them, and the few no property covers yet.

## 2. Modules

| Module | Models | Uses |
|---|---|---|
| `DagRun` | abstract: what `execute` promises its caller | |
| `Dag` | the task graph both share: `pred`, acyclicity | |
| `Executor` | `execute`: dispatcher, workers, errgroup, channel | `Dag`; refines `DagRun` |
| `DispatchOrder` | `Executor` with a record of dispatches and receipts | `Executor` |
| `Paths` | declared paths as sequences of segments, `filepath.Clean`, `IsLocal`, `fs.ValidPath` | |
| `FileTrees` | files below a directory, as `Store.Save` writes them: under the cleaned path of their key | `Paths` |
| `TaskGraph` | `graph` and helpers, the choice of files to load | `Dag`, `Paths` |
| `CycleCheck` | `checkCycles` | |
| `TaskSetBuild` | `Build`, task bodies, `sharedSave`, the store, three file trees | `TaskGraph`, `Executor`, `FileTrees` |
| `BuildPlan` | `Build`, `buildArtifact`, `worker` of v1alpha6 and v1alpha5: who runs when | |
| `BuildPlanFiles` | the bodies of their tasks, the store, the shared temporary directory, the write-to directory | `BuildPlan`, `FileTrees` |
| `ChartCache` | `helm`'s cache, `onceWithLock` (three copies), `PullChart` | |
| `PlatformBuild` | `Platform.Build` and the per-component function | |
| `RenderPlatform` | the child processes: `Component.Render` and the life of its temporary directory | `PlatformBuild` |
| `CompilePool` | `Compile`, `compiler`, `Compiler.Run` | |
| `Show` | `show buildplans` from its flags to its output, selectors, version dispatch of `Component.BuildPlan` | `CompilePool` |
| `YamlValues` | YAML values, their normalization, filter, sort and equality | |
| `Compare` | `Comparer.BuildPlans` and the two passes of `compareDocumentLists` | `YamlValues` |
| `MC<Module>` | instances for TLC | |
| `<Module>Proofs` | theorems and TLAPS proofs | |

`TaskSetBuild`, `BuildPlanFiles`, `RenderPlatform` and `Show` extend the module they
compose with: each of their steps is a step of it, joined with what happens to
files, processes or output, or leaves it alone. That is proved, so what holds of
`Executor`, `BuildPlan`, `PlatformBuild` and `CompilePool` holds of them.

Operators whose comment starts with `BUG` are plausible defects of the
definition below them (a dropped guard, a forgotten reset). Nothing uses them:
put in the place of that definition, each makes TLC report the property that
`PROJECT.json` ("mutants") pairs it with, which shows that the property depends
on the code it is about.

### Correspondence with the code

`PROJECT.json` ("map") gives the lines of every definition. The conventions:

* **Scheduler.** `pc` is the position of the dispatcher, `held` the name between
  the pop and the return of `eg.Go`. A goroutine's life is `spawned`, `running`,
  then `succeeded` and `sent`, or `failed`/`refused` and `recorded`/`dropped`;
  `slots` is separate because the slot is given back after that. `select` is two
  actions that may both be enabled (`Receive`, `Stop`).
* **Paths and files.** Paths are sequences of segments *as they are spelled*, because
  `graph` and the store compare strings: `c` and `./c` are two outputs, two final
  paths, two keys. On the disk they are one file, since everything that touches it
  goes through `filepath.Join`, which cleans: `Store.Save` (`artifact.go:82`, `:102`),
  the outputs of join and command (`v1beta1.go:847`, `:912`, `v1alpha6.go:334`, `:468`,
  `:502`) and the destination of a sink (`v1beta1.go:939`). So a *key* is a spelled
  path, a *file* (`FileTrees`) is a cleaned path with a content, and a content is
  named by the key it belongs to, which the store sets once. `Fits` says when a file
  can be written (no file where a directory is needed), `Outcomes` which of several keys
  of one file a `Save` of a directory leaves there (`Keys` ranges over a map).
  `Store.Load` (`fs.WalkDir`) refuses a path with dot segments, and `Store.Save` one
  that ends in a slash. Empty directories, symbolic links and the
  `kustomization.yaml` that kustomize is given are left out.
* **Graph.** Which of several errors is reported is left out, and so are the checks
  that only reject more (name pattern, argument and file names).
* **Task bodies.** `body[t]` is a place in the body and the paths it has yet to
  treat; `seen[t]` the files it read. `Store.Save` of the shared directory is one
  `Truncate` and one `Rewrite` per file under `saveMu`; the store's own mutex makes
  everything else in it atomic. What a command reads is what it finds at or below its
  cleaned inputs when it starts (`seen`), whoever wrote it; `torn` is what is
  truncated meanwhile. A sink removes its cleaned destination and writes the files of
  its input to where their cleaned keys take them, which need not be below it. `Fail`
  is possible wherever the body works on files or with a tool, and leaves of the
  destination any part; `Doomed` says when the body can do nothing else.
* **BuildPlan.** A task is `<<artifact, stage, index>>` and stands for its own
  error. `Send` is the rendezvous of the two selects, possible even when the
  contexts are done. `Fail` (deferred `wg.Done`) and `Record` (the errgroup
  learns of it) are two actions: everything between them is where the hazard is.
* **BuildPlan bodies.** `body[w]` is where worker `w` stands in its task: the unit
  (a generator, one of the transformers, a validator), the place in it, the inputs
  it has yet to read and the files it has yet to write. Saves, joined files and
  captured stdout go to the shared directory file by file (`Truncate`, `Rewrite`)
  with no lock; `tmp` is that directory, `torn` what is truncated in it. In
  v1alpha5 join writes no file and validators, like kustomize, save to a
  directory of their own. Nothing compares the paths of a plan, so two units may write
  one file of the shared directory at once, in one spelling or in two; it ends as
  the one that finishes later wrote it. An output `.` is left out. `Deploy` is the
  final `Store.Save`: it copies what the store has, and none of an artifact that
  is not there is no error, as in the code. Pipelines deploy in single steps, one after the
  other in any order.
* **Chart cache.** `Proc` are helm tasks of any process, now or later. `Kill` may
  strike anywhere (`render platform` kills its children). `lock` and `chart` are
  directories and survive it; `used` is the state of the chart at `helm template`.
  helm refuses to unpack over a directory that is there (`Unpack` needs an absent
  chart): a task that found no chart, and takes the lock after another one has pulled
  it, can only fail (`PullFails`). `PullChart` does not hand the context to the
  client, so that only the wait for the lock has a deadline.
* **Platform build.** `Slots` counts the producer, as the errgroup does. A
  goroutine's child is a process of `RenderPlatform`: `child[i]` is its place in
  `render`, `temp[i]` its directory, `code[i]` how it ended. `renderAlpha5` has
  the steps of `render` without the check of the kind.
* **Compile pool.** A request and its response are the index. Pipes are
  sequences; closing the parent's end makes the child's decoder see `io.EOF`. A child
  may die while it reads and while it compiles (`ChildFails`).
* **Show.** A component is its labels, its `typemeta.yaml` and the version and kind
  its build plan carries; a flag is the sequence of its terms. Only platforms on
  which the flags select `Requests` components are looked at, since the pool has
  that many requests.
* **Compare.** A YAML value is a tree of maps, lists and scalars, nested at most
  `MaxDepth` deep (`Level[n]`); a map has a place for every key, which holds
  `Missing` where the document has none. What calls itself in the code is a recursive
  function on these values. `cmp.Equal` with the `sortSlices` transformer is equality
  of the trees with all lists sorted; the text a list element is sorted by is a
  sequence of tokens. `sort.Slice` is not stable in general, but is an insertion sort
  up to 12 elements, and the model's sort is stable. Each document that one of the two
  passes treats is a step; `treated` and `used` are the loop variable and `used`. The
  index `usedIdx` only remembers how far the search for an unused document has come.

## 3. Runs

Liveness is checked in the same run as safety. "pass" runs explore the whole
reachable state space of the instance.

| Run | Instance | Shows |
|---|---|---|
| `executor` | all acyclic graphs of 4 tasks, 2 slots; any task fails at any time | `TopologicalOrder`, `RootCauseReported`; `DispatchIsReplay` (the comment "dispatch order is a deterministic function of completion order": the tasks dispatched so far are the first in the order of the completion they became ready with and, among those of one completion, of their names); `EventuallyReturns`; `ImplementsDagRun`, the refinement with its liveness |
| `cycle_check` | all graphs of 4 tasks without self-edges | `VerdictIsRight` (accepted iff acyclic), `CycleIsReal`, `EventuallyReturns` |
| `task_graph` | 3 tasks, each any of 36 declarations over a directory `a`, two files in it, a file beside it, a path that escapes; an empty and a full component directory | `EdgesFollowData`, `InputsSourced`, `LoadsAreDisjoint` |
| `task_set_build` | eight pipelines of 4 tasks (gates, sliced and gathered directories, shared and chained inputs, three with dot segments in component files and outputs), 2 slots | `ReadsAreComplete`, `OutputsNeverClash`, `SinksAreFresh`, `FailuresGateWrites`, `NoTornReads`, `MaterializedOnce`, `BuildReturns`; `ImplementsExecutor`: what holds of `Executor` holds of this build |
| `overlapping_inputs` | two commands with inputs `a/x` and `a` | finding 1 |
| `build_plan` | six plans of two artifacts, v1alpha5 and v1alpha6, each kind of unit, an unsupported kind, an output declared twice, artifacts `d` and `./d`; 2 workers | `StagesInOrder`, `RootCauseReported`, `OutputsAreWriteOnce`, `NilMeansValidated`, `TornOnlyIfShared`, `EventuallyReturns` |
| `validator_gate` | the same | finding 2 |
| `chart_cache` | 3 helm tasks, failures and kills anywhere | `PullsExclusive`, `StaleLockMeansKilled`, `EventuallyReturns` |
| `partial_chart` | the same | finding 3 |
| `platform_build` | 3 components of all versions, two platforms, concurrency -1, 1 and 2; children fail or are killed anywhere | `AtMostLimit`, `NilMeansAllRendered`, `TempDirsRemoved`, `EventuallyReturns` |
| `compile_pool` | 3 requests, 2 children, five platforms, three flag lists, three formats | `ResponsesMatch`, `NilMeansAllCompiled`, `NoOrphans`, `ShownInOrder`, `ShowReturns` |
| `compare` | all pairs of files of a document out of fourteen, of two out of ten and of three out of three, both modes | `PermutationsAccepted`, `AcceptedMeansMatched`, `FieldsOfBeforeKept` |

Four more configurations are not runs of the project. Each asks for a promise of a
comment in a case in which the code does not keep it, and makes TLC print the
counterexample: `AliasedInputs.cfg` (`ReadsAreComplete`) and `AliasedSinks.cfg`
(`SinksAreFresh`) of `MCTaskSetBuild`, `AcceptedDifferences.cfg`
(`OnlyEquivalentAccepted`) and `RejectedEquivalents.cfg` (`EquivalentAccepted`) of
`MCCompare`. They are described under "Findings".

### The bounds, and why they are enough

* `executor`: four tasks have every shape that matters (chain, fork, join,
  diamond, independent tasks); two slots make both a full group and a task that
  waits for a slot while another completes possible. That the limit, the topological
  order and the dispatch order hold beyond four tasks is proved.
* `cycle_check`: four tasks allow a cycle with a way into it and a task behind it,
  and a cycle of every length up to four. The verdict and the reported cycle are
  proved for every size.
* `task_graph`: the paths cover equal, above, below and unrelated, through
  producers, inputs, sinks, `stdin` and `dependsOn`, legal and not; three tasks
  are what the matching rules can distinguish (two producers and a reader). The
  three properties are proved for every task set.
* `task_set_build`: each pipeline is there for a hazard (see the comments of
  `MCTaskSetBuild`), with its component directory empty and full, and a previous
  render to replace. All its safety properties are proved for every task set, those
  about files for the task sets whose paths are spelled as they are cleaned.
* `build_plan`: two workers and two artifacts are the least in which a worker
  fails while another runs and another pipeline is between stages; two validators
  of one file make a save meet a running tool. A command's directory output has
  one file, the saved directory `a` two; one plan has a file that a command writes
  as `d` and a validator as `./d`. All its safety properties are proved for every
  set of plans.
* `chart_cache`: a holder, one that arrives meanwhile and one that comes later.
* `platform_build`, `compile_pool`: more work than workers, so that slots are
  reused, and enough for one to fail while others are under way. The components
  the selectors leave out stand at every place of a platform. The safety of both is
  proved for any number of components, workers, children and requests.
* `compare`: three documents are needed for a greedy pass to take the wrong one;
  the documents differ in one field, in an empty or null one, in the order, names
  and length of `spec.artifacts`, and in the order of other lists, one within
  an element without a name among them.
  The three properties are proved for all files, of values of any depth.

Deadlock is checked wherever the program has a next step; the modules say with
`Terminated` where it may stop. `TaskGraph` computes its verdict in one step and
stops, so its two configurations switch the deadlock check off.

### Fairness

Weak fairness only: a goroutine or process that can go on does (Go's scheduler
and the operating system run every runnable thread), and every external tool,
pull and child process ends (the code has no timeout for them either; the wait
for a chart's lock has one, and it is `Timeout`). No fairness is assumed
for failures, kills or for one branch of a `select`: fairness is on the whole of
what one goroutine can do next. In `BuildPlan` the rendezvous of pipelines and
workers is one fair action.

### Findings

1. `overlapping_inputs`: `sharedSave` remembers whole paths. A command with the
   input `a/x` may be reading it while a command with the input `a` truncates and
   rewrites it; the comment at `v1beta1.go:59-60` says this must not happen.
2. `validator_gate`: in v1alpha6 (and v1alpha5) an artifact is written when its
   wait group is zero, and a failed validator counts down before its error is
   known and is never looked at again by the pipeline. The design document says
   "validators gate writes" (`doc/design/v1beta1/schema.md:296-297`).
3. `partial_chart`: `os.Stat` outside the lock finds the chart while its holder is
   unpacking it; `v1beta1.go:646` calls the cache "guarded by a filesystem lock".

What else came up while modelling. Each is modelled as the code does it, and a
property that would say otherwise names the exception:

* **Two spellings of one file** (`AliasedInputs.cfg`, `AliasedSinks.cfg`). `graph`
  compares declared paths as spelled. The outputs `c` and `./c` are both accepted and
  saved to one file of the shared directory under two keys of `saved`: a command with the
  input `c` may find there the content of `./c`, or find it truncated, although
  "concurrent tasks ... must not race by truncating and rewriting a file another task
  is reading" (`v1beta1.go:59-60`). Likewise the sinks `b` and `./b`, or `b` and
  the sink of a directory `a` with a key `a/../b`, write one final file, against
  "Final artifact paths are write-once" and "must be prefix-free"
  (`v1beta1.go:190-191`, `:217-218`). The artifacts `d` and `./d` of a BuildPlan
  overwrite each other in the same way. What holds without these is stated under
  `PathsClean`: every declared path is spelled as it is cleaned.
* **Which lists may be reordered** (`AcceptedDifferences.cfg`). "Field f is
  equivalent when before.f exactly equals after.f, except for" the order of
  `spec.artifacts` and of keys (`compare.go:38-40`). The code sorts *every* list
  before it compares (`compare.go:200-202`, `:223-235`): `[x, y]` is accepted against
  `[y, x]` in any field, where the order may matter (the arguments of a
  command, a list of transformers). `PermutationsAccepted` therefore asks only for what
  the comment promises, documents and `spec.artifacts` in any order, and
  `AcceptedMeansMatched` only for what the code provides: its notion of equivalence,
  `SameButOrder`, forgets the order of all lists, and is weaker than the comment's
  (`Equivalent`).
* `compareDocumentLists` accepts `[A, A]` against `[A, B]`: the second pass counts
  a document as matched when it equals any used one (`compare.go:313-320`).
  "Two or more identical objects ... must be treated as unique objects"
  (`:57-58`), so `AcceptedMeansMatched` speaks of files without equal documents.
  It also rejects files it should accept (`RejectedEquivalents.cfg`): the second pass
  takes the next unused document without a search, so that documents in another order,
  one of them with a null or empty field less, are different, although "each object in
  one is equivalent to exactly one unique object in two" (`compare.go:32`). Artifacts
  of one name keep their order, and so do other list elements of one name;
  `PermutationsAccepted` speaks of artifacts with different names (`NamesDiffer`).
* In v1alpha6 a tool may read a file another one truncates; the API tells
  tasks to stay in different sub-directories (`internal/holos/types.go:394-396`).
  `TornOnlyIfShared` says that only such plans are exposed.
* A command that makes a directory of its declared output does not clash with
  another unit of the same output, though "Output fields are write-once".
* Saving an artifact of which the store has nothing is no error.
* `Artifact.Skip` and `Kustomize.Files` of the v1alpha5 and v1alpha6 APIs are never
  read (v1beta1 reads its own `Kustomize.Files`).
* `validate` of v1alpha5 leaves its temporary directory behind (`v1alpha5.go:655`),
  and so does a render child that is killed.
* A waiter whose lock holder failed goes on as if the chart were there
  (`onceWithLock` returns nil), and since the chart is not looked for again with
  the lock held, a second task may try to pull a chart that is there already, which
  helm refuses: that render fails (the comment says "at most once";
  `PullsExclusive` says what does hold).
* A selector keeps the last term of a repeated key (`internal/holos/types.go:168`),
  and tags given with `--inject` do not reach the compile children, which build a
  `Config` of their own (`compile.go:121`). Nothing says what a repeated key means;
  `ShownInOrder` speaks of flags that give no key two values (`KeysDistinct`).

## 4. Proofs

Checked by `tlapm` for every value of the constants, from the assumptions the
modules name: `TaskAssumption` (a finite set of numbered tasks), `GraphAssumption`
(declarations are typed), `BuildAssumption` of `TaskSetBuild` (a component directory
and what an earlier render left are file trees: no file lies below another and no name
is made of dots; nor is the name of a file a command writes), `PlanAssumption` (finite artifacts and a non-empty finite
pool), `FilesAssumption` of `BuildPlanFiles` (plans are typed and have as many generators
and validators as the counts of `BuildPlan` say, and the same of names), `ProcAssumption`, `BuildAssumption` of
`PlatformBuild`, `PoolAssumption`, `ShowAssumption` (platforms and flags are sequences),
`ValueAssumption` (texts are numbered, keys are a sequence of strings) and
`FilesAssumption` of `Compare` (files are sequences of values).

Every module follows one pattern: an inductive invariant `IInv`, `Init => IInv`,
one lemma per action or group of actions, `THEOREM Inductive == Spec => []IInv`,
and then each property from `IInv`.

| Module | `IInv` | Why the properties are not inductive alone | Properties |
|---|---|---|---|
| `ExecutorProofs` | `TypeOK`, `ChannelInv`, `CountersAgree`, `DispatchedOnce`, `BoundedConcurrency`, `DispatcherInv`, `ErrorInv`; for `DispatchOrder` also `RecordInv` | a task is popped because a counter is zero: the order rests on the counters, these on which completions are in the channel, each at most once | `TopologicalOrder`, `DispatchIsReplay`, `CountersAgree`, `DispatchedOnce`, `BoundedConcurrency`, `NilMeansAllSucceeded`, `FailureReported`, `RootCauseReported`, and `ExecutorImplementsDagRun`: every step is a step of `DagRun` or a stutter |
| `CycleCheckProofs` | `TypeOK`, `KahnInv`, `WalkInv`, `PathInv` | acceptance needs that the counters count the unprocessed predecessors; the walk, that every task left over has one among them; the reported cycle, that neighbours on the walk are edges and no task is on it twice | `VerdictIsRight`, `CycleIsReal`, `WalkGoesOn` |
| `TaskSetBuildProofs`, first part | `GraphInv`: typed declarations, and `VerdictInv` | the verdict must be tied to what was checked; the rest is about the three rules and prefix-freeness | `EdgesFollowData`, `InputsSourced`, `LoadsAreDisjoint` |
| `TaskSetBuildProofs`, second part | `BuildInv`, for paths in any spelling: `IInv` of the scheduler, `DeclInv`, and a part for places and the store; `CleanInv`, under `PathsClean`: a part for each of reads, saves, shared directory and destinations | see below | `ImplementsExecutor`, `ReadsAreComplete`, `OutputsNeverClash`, `SinksAreFresh`, `FailuresGateWrites`, `NoTornReads`, `MaterializedOnce` |
| `BuildPlanProofs` | `TypeOK`, `WgInv`, `SentInv`, `ErrorInv`, `ProducerInv`, `StagesInOrder`; for `BuildPlanFiles` also `BegunInv` and a part for each of places, outputs, truncated files, shared directory, destinations and validators' inputs (`FilesInv`; the last three speak of plans with `PathsClean`) | that a stage is over rests on the wait group counting the running tasks of the artifact, one more after a send that was given up; which error came first rests on who can see a context done | `StagesInOrder`, `NoSendOnClosed`, `RootCauseReported`, `NilMeansAllWritten`, `OutputsAreWriteOnce`, `NilMeansValidated`, `TornOnlyIfShared`; `FilesImplementBuildPlan` carries them to the bodies of `BuildPlanFiles` |
| `ChartCacheProofs` | `TypeOK`, `LockInv` | exclusion needs that the lock directory names whoever is inside | `PullsExclusive`, `StaleLockMeansKilled` |
| `PlatformBuildProofs` | `TypeOK`, `SpawnInv`, `ErrorInv`; for `RenderPlatform` also `ChildInv`, which ties a child's place, its directory and its exit code to the goroutine that waits for it | the limit after the producer has left needs that nothing is spawned then; that a directory is gone needs that only a kill, or the deferred function, ends a child that has one | `AtMostLimit`, `NoOrphans`, `NilMeansAllRendered`, `RenderImplementsBuild`, `TempDirsRemoved` |
| `CompilePoolProofs` | `TypeOK`, `PipeInv`, `RequestInv`, `EndInv`, `ChildInv`, `ResponsesMatch`; for `Show` also `PrintInv` | a response is right because at most one message is in the two pipes of a child, and it is the compiler's own request | `ResponsesMatch`, `NilMeansAllCompiled`, `NoOrphans`, `ShownInOrder`, and `ShowImplementsPool`, which carries them to `ShowSpec` |
| `CompareProofs` | `CompareInv`: `TypeOK`, and an assignment of the used documents to those of the first file | see below | `PermutationsAccepted`, `AcceptedMeansMatched`, `FieldsOfBeforeKept` |

`Spec` of some modules contains its fairness; the theorems do not use it.

### The proof about `TaskSetBuild`

It joins the two halves of the TaskSet design, the graph and the scheduler, and
uses what was proved of each:

* `GraphInv` gives `EdgesFromInv` (a task waits for every producer whose output
  meets one of its inputs), `LoadsFromInv` and `SourcesFromInv`; `BuildImplementsExecutor`
  gives `IInv` and so `TopologicalOrder` (`OrderFromInv`). Together: when a body
  runs, every producer of its inputs has finished.
* `PlaceInv` ties a body's place to its kind and its worker. `StoreInv` says where
  each store path, or path about to be set, comes from: a loaded component path or
  the output of one task. Prefix-free outputs and `LoadsAreDisjoint` then exclude a
  second `Set` (`OutputsNeverClash`), and no file ever lies below another.
* What is under a task's inputs is thus fixed before its body begins. So far paths
  may be spelled in any way (`BuildInv`); what follows is `CleanInv`, about files,
  under `PathsClean`. There a key is the path of its own file (`KeysInv`), and
  every file of the shared directory lies where its content's name says. `SeenInv`
  counts what has been read of the inputs; in the end it is all
  (`ReadsAreComplete`). A command reads the shared directory instead, so `SaveInv`
  says that what lies under a path saved without an error is in that directory
  (but for the files the holder of `saveMu` is still writing), and that the paths
  a command has dealt with were saved, by itself if `saveMu` is held for one.
* `TmpInv` says where files of the shared directory and truncated ones come from;
  with it no save truncates what it wrote before (`MaterializedOnce`) and none
  truncates what a running command reads (`NoTornReads`).
* `DeployInv` follows one destination: untouched until its sink begins, empty
  before it is written, then the input of the sink. A sink whose `dependsOn`
  failed never begins (`FailuresGateWrites`).

Two hypotheses on the declarations remain, because the code does not check them
and the properties are false without them:

* `PathsClean` (`ReadsAreComplete`, `SinksAreFresh`, `FailuresGateWrites`,
  `NoTornReads`, `MaterializedOnce`): every declared input, output and final path is
  spelled as it is cleaned. Without it two declarations, or a key and the
  destination of a sink, may be one file: see `AliasedInputs.cfg` and
  `AliasedSinks.cfg`.
* `InputsApart` (`NoTornReads`, `MaterializedOnce`): no input of a command lies
  below an input of another. Without it, finding 1.

`ImplementsExecutor`, `OutputsNeverClash` and the properties of the graph have no
hypothesis: they are about paths as they are spelled, as the code compares them.

### The proof about `BuildPlanFiles`

It rests on what the pipelines promise whatever the bodies do (`StagesInOrder`,
the wait group, the root cause) and adds what the bodies do with files.

* `BegunInv`: a worker takes a task once, and when it does, every task of the
  earlier stages of that artifact has ended. So while a validator runs, nothing of
  its artifact is being made.
* `PlaceInv` ties what a body may write to the unit it stands at: saved inputs lie
  at or below one of its inputs, files it sets at or below its output.
* `OnceInv`: an output that a unit of one file has passed is in the store, and
  distinct from every other such output, because `Store.Set` refuses a path it
  has. When all tasks have succeeded every unit has passed (`OutputsAreWriteOnce`).
* `TornInv`: a truncated file is one that a running body is rewriting, or one a
  failed unit declares, each in some spelling. A body that runs its tool rewrites
  nothing, so the file it reads is another task's (`TornOnlyIfShared`).
* `PlainInv`: with paths spelled as they are cleaned (`PathsClean`) a key is the path of
  its own file, in every directory.
* `TmpInv`: with `PathsClean` and as long as nothing failed, each file of the shared directory is in the
  store or about to be set by a running body, so a validator finds no leftovers.
* When the artifacts of a plan are separate, nothing is set at or below a path of an
  artifact that is deployed or being validated. `DeployInv` and `SeenInv` can then
  speak of the store as it is at the end: what was deployed, and what a validator
  was given, is what it has of those paths (`NilMeansValidated`).

Two hypotheses are part of `NilMeansValidated`, because the code does not check them.
`Separate` (no artifact declares a path that is, contains or lies below one of
another) is what the API asks of plans: without it a second artifact can set a file
below an input that was validated already. Without `PathsClean` artifacts may be
separate as they are spelled, `d` and `./d`, and overwrite each other, or set keys
such as `a/../b`. The other two theorems hold of paths in any spelling.

### The proofs about the dispatch order and the output

`DispatchIsReplay` is about sequences that only grow, so the proof is about one more
element. One more completion changes neither which tasks were ready before it nor
the order among them (`ReadyAfterMore`, `OrderAfterMore`); and what is queued while
the dispatcher may pop became ready with one and the same completion (`RecordInv`),
so the least name among them is the next of the order. That holds because the
dispatcher empties the queue before it receives again, except when it is cancelled,
and then it pops no more.

`ShownInOrder` has two halves. That the parsed selectors are the terms of the flags
rests on each key having a last term (`GreatestExists`, from the least element of a
set of numbers). That the selected positions come in the order of the platform is
counting: `Select` gives a position by its rank among the chosen ones, and ranks run
from 1 to their number without a gap (`RanksAreOnto`). `PrintInv` adds that what is
printed is a beginning of them, and only after `Compile` returned nil.

### The proof about `Compare`

It has three layers.

* **Values.** The provers cannot use the induction theorems of the library, whose
  parameter is an operator, so the proof has its own in terms of sets: a set of values
  that contains every value whose children it contains has all of them
  (`ValuesByInduction`, from `LeastNumber`, which is the least-number principle, and
  the levels of nesting). That a recursive function has the value its definition
  says is not given either, since TLA+ *chooses* a function that satisfies the
  equation. For each function a lemma (`SortedDefined`, `NormalizeDefined`, ...) shows
  that there is one: one for level `n` extends to level `n + 1`, so one for
  `MaxDepth` exists.
* **One document.** `Before` is a strict total order (`BeforeIsTotal`,
  `BeforeIsStrict`, `BeforeIsTransitive`), so the number of elements not behind
  another one is a rank, and ranks run over the positions of the list without a gap
  (`RanksAreOnto`): the sort is a permutation (`SliceIsPermuted`). Equality after
  sorting therefore means the same up to order (`EqualIsSame`); the converse, for
  `spec.artifacts` (`SameRanks`, `OrderIsEqual`, `PlansAreEqual`), needs that an element keeps its rank when the list is
  permuted, which different names give. The comparison in the second pass
  leads to the same or to `Covers` after normalization, whatever the filter removed
  by position (`FilterStays`, `FilterIsCovered`).
* **The passes.** `Assigns` is the greedy matching as it grows: each used document of
  the second file has one of the first of its own, equal to it or, if that one has
  no equal, compared with it; and each treated document of the first has an equal
  used one or is assigned. It is needed because the second pass asks whether *any*
  used document equals the one at hand. At the end it covers the first file, and a
  first file without equal documents makes it one to one. If a permutation exists,
  every document has an equal one in the other file; the second pass then finds a
  used one for each, and compares none.

**Only model-checked:** all liveness (`EventuallyReturns`, `ShowReturns`,
`BuildReturns`, the liveness of `DagRun`), since fairness and `ENABLED` are out of the
prover's reach. Every safety property of a passing run is a theorem. The three
findings are TLC counterexamples.

## 5. What is not modelled, and why

* The contents of files, rendered YAML, log and error texts; CUE evaluation, Helm,
  Kustomize and the commands themselves are external: they end, well or badly.
* CUE: loading a platform or a build plan is a step that may fail; what it yields
  is a constant of the instance.
* Cancellation of the context a caller hands to a build. The contexts here are
  cancelled by the error of a task, a pipeline or a child; only tests cancel the
  outermost one, which the commands leave alone.
* `spec.disabled`, with which `Build` returns nil at once.
* The buffer of `orderedEncoder` (`internal/holos/types.go:270-318`): its only
  caller, `Compiler.Run`, encodes 0, 1, 2, ... and stops at the first error, so
  that nothing is ever buffered.
* The loop over several platform arguments (`platform.go:51-65`), in which an
  absolute argument replaces the working directory of those after it; each
  iteration is one `Platform.Build`.
* Copying a child's stderr under a mutex (`internal/util/run.go`).
* Generators of platforms and components, the command line, logging, errors and API
  types: no state, or pure I/O; `PROJECT.json` lists them with the reason.

## 6. Plan

The components with concurrency, failure handling or an algorithm of their own are
modelled, and their safety is proved. What may still be worth doing:

1. Lemmas of several proof modules about finite counters, ranks and paths (`Under`,
   prefix-free sets, `RanksAreOnto`) in one module they all extend.
