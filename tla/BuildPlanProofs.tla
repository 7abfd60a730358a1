--------------------------- MODULE BuildPlanProofs ---------------------------
(***************************************************************************)
(* Proofs about the build of a BuildPlan in v1alpha5 and v1alpha6, for any *)
(* number of artifacts, generators, validators and workers: the pipelines, *)
(* the workers and the errors of BuildPlan, and the bodies of the tasks,   *)
(* with the files they share, of BuildPlanFiles for any set of plans.      *)
(***************************************************************************)
EXTENDS BuildPlanFiles, FiniteSetTheorems, SequenceTheorems, WellFoundedInduction, TLAPS

\* The workers that run a task of artifact a.
RunningOf(a) == {w \in Worker : worker[w] = "running" /\ task[w][1] = a}

\* A wait group counts the running tasks of its artifact, and once more the task
\* that a pipeline announced and nobody took.
WgInv ==
    \A a \in Artifact :
        \/ wg[a] = Cardinality(RunningOf(a))
        \/ stage[a] = Returned /\ wg[a] = Cardinality(RunningOf(a)) + 1

\* What a pipeline has sent was run or is being run; what belongs to a stage it
\* has left, or to an artifact that was written, was run.
SentInv ==
    /\ \A w \in Worker : worker[w] \in {"running", "failing"} => task[w] \in Tasks
    /\ \A w \in Worker : worker[w] = "running" => task[w][2] <= stage[task[w][1]]
    /\ \A a \in Artifact : \A s \in 1 .. 3 : \A i \in 1 .. Size(a, s) :
          stage[a] # Returned /\ (s < stage[a] \/ (s = stage[a] /\ i <= sent[a])) =>
              <<a, s, i>> \in succeeded \cup failed \cup Running
    /\ \A a \in Artifact : \A s \in 1 .. 3 : \A i \in 1 .. Size(a, s) :
          (stage[a] # Returned /\ s < stage[a]) \/ a \in written =>
              <<a, s, i>> \in succeeded \cup failed

\* Who may have recorded which error.
ErrorInv ==
    /\ \A t \in failed : CtxDone \/ \E w \in Worker : worker[w] = "failing" /\ task[w] = t
    /\ \A w \in Worker : worker[w] = "failing" => task[w] \in failed
    /\ perr = Canceled => CtxDone
    /\ \A a \in Artifact : SaveError(a) \in {perr, err} => a \notin written /\ stage[a] = Returned
    /\ \A a \in Artifact : stage[a] = Returned => a \in written \/ perr # NoErr
    /\ \A a \in written : stage[a] = Returned
    /\ perr \in {NoErr, Canceled} \cup {SaveError(a) : a \in Artifact}
    /\ err \in {NoErr} \cup failed \cup {SaveError(a) : a \in Artifact}

\* The producer outlives the pipelines.
ProducerInv ==
    /\ producer # "wait" => \A a \in Artifact : stage[a] = Returned
    /\ closed => producer # "wait"
    /\ producer = "done" /\ perr # NoErr => CtxDone

\* The inductive invariant.
IInv == TypeOK /\ WgInv /\ SentInv /\ ErrorInv /\ ProducerInv /\ StagesInOrder

-----------------------------------------------------------------------------
(***************************************************************************)
(* Lemmas about tasks, errors and counts.                                  *)
(***************************************************************************)

LEMMA SizeType == ASSUME NEW a \in Artifact, NEW s PROVE Size(a, s) \in Nat
BY PlanAssumption DEF Size

\* A task is a triple, unlike every error that is not a task's own.
LEMMA TaskShape ==
    ASSUME NEW t \in Tasks
    PROVE  /\ t = <<t[1], t[2], t[3]>>
           /\ t[1] \in Artifact /\ t[2] \in 1 .. 3 /\ t[3] \in 1 .. Size(t[1], t[2])
           /\ t # NoErr /\ t # Canceled
           /\ \A a \in Artifact : t # SaveError(a)
<1>1. PICK a \in Artifact, s \in 1 .. 3 : t \in {a} \X {s} \X (1 .. Size(a, s))
  BY DEF Tasks, TasksOf
<1>2. PICK i \in 1 .. Size(a, s) : t = <<a, s, i>>
  BY <1>1
<1>3. t[1] = a /\ t[2] = s /\ t[3] = i /\ Len(t) = 3
  BY <1>2
<1>4. Len(NoErr) = 0 /\ Len(Canceled) = 1 /\ \A b \in Artifact : Len(SaveError(b)) = 2
  BY DEF NoErr, Canceled, SaveError
<1>5. t # NoErr /\ t # Canceled /\ \A b \in Artifact : t # SaveError(b)
  BY <1>3, <1>4
<1>6. t[1] \in Artifact /\ t[2] \in 1 .. 3 /\ t[3] \in 1 .. Size(t[1], t[2])
  BY <1>3
<1>7. t = <<t[1], t[2], t[3]>>
  BY <1>2, <1>3
<1> QED
  BY <1>5, <1>6, <1>7

\* What a worker that runs needs of it.
LEMMA TaskIndex == ASSUME NEW t \in Tasks PROVE t[1] \in Artifact /\ t[2] \in 1 .. 3
BY TaskShape

LEMMA StageCount == Write = 4 /\ Returned = 5
BY DEF Write, Returned, Stages

LEMMA TaskMade ==
    ASSUME NEW a \in Artifact, NEW s \in 1 .. 3, NEW i \in 1 .. Size(a, s)
    PROVE  <<a, s, i>> \in Tasks
BY DEF Tasks, TasksOf

\* The errors that are not tasks differ from each other.
LEMMA ErrorShape ==
    /\ NoErr # Canceled
    /\ \A a \in Artifact : SaveError(a) # NoErr /\ SaveError(a) # Canceled
    /\ \A a, b \in Artifact : SaveError(a) = SaveError(b) => a = b
<1>1. Len(NoErr) = 0 /\ Len(Canceled) = 1 /\ \A b \in Artifact : Len(SaveError(b)) = 2
  BY DEF NoErr, Canceled, SaveError
<1>2. \A a \in Artifact : SaveError(a)[1] = a
  BY DEF SaveError
<1> QED
  BY <1>1, <1>2

\* A pipeline that moves on leaves no running task ahead of it.
LEMMA StageGrows ==
    ASSUME TypeOK, SentInv, NEW a \in Artifact, NEW n \in Nat, stage[a] <= n,
           stage' = [stage EXCEPT ![a] = n], UNCHANGED <<worker, task>>
    PROVE  \A v \in Worker : worker'[v] = "running" => task'[v][2] <= stage'[task'[v][1]]
<1> SUFFICES ASSUME NEW v \in Worker, worker[v] = "running"
             PROVE  task[v][2] <= stage'[task[v][1]]
  OBVIOUS
<1> DEFINE b == task[v][1]
           s == task[v][2]
<1>1. b \in Artifact /\ s \in 1 .. 3
  BY TaskIndex DEF SentInv
<1>2. s <= stage[b]
  BY DEF SentInv
<1>3. \A c \in Artifact : stage[c] <= stage'[c] /\ stage[c] \in Nat /\ stage'[c] \in Nat
  <2>1. stage \in [Artifact -> 1 .. 5]
    BY StageCount DEF TypeOK
  <2> QED
    BY <2>1
<1>4. s \in Nat
  BY <1>1
<1> HIDE DEF b, s
<1>5. s <= stage'[b]
  BY <1>1, <1>2, <1>3, <1>4
<1> QED
  BY <1>5 DEF b, s

\* The running workers of an artifact can be counted.
LEMMA RunningFinite ==
    ASSUME NEW a
    PROVE  IsFiniteSet(RunningOf(a)) /\ Cardinality(RunningOf(a)) \in Nat
<1>1. RunningOf(a) \subseteq Worker
  BY DEF RunningOf
<1> QED
  BY <1>1, PlanAssumption, FS_Subset, FS_CardinalityType

\* When the wait group of a pipeline at work is zero, no task of it runs.
LEMMA ZeroMeansNobodyRuns ==
    ASSUME WgInv, NEW a \in Artifact, stage[a] # Returned, wg[a] = 0
    PROVE  \A t \in Running : t[1] # a
<1>1. Cardinality(RunningOf(a)) = 0
  BY DEF WgInv
<1>2. RunningOf(a) = {}
  BY <1>1, RunningFinite, FS_EmptySet
<1> QED
  BY <1>2 DEF Running, RunningOf

-----------------------------------------------------------------------------
(***************************************************************************)
(* The invariant holds initially and every action preserves it.            *)
(***************************************************************************)

LEMMA InitIInv == Init => IInv
<1> SUFFICES ASSUME Init PROVE IInv
  OBVIOUS
<1> USE DEF Init
<1>1. TypeOK
  <2>1. 1 \in 1 .. Returned
    BY DEF Returned, Write, Stages
  <2> QED
    BY <2>1 DEF TypeOK
<1>2. WgInv
  <2>1. \A a \in Artifact : RunningOf(a) = {}
    BY DEF RunningOf
  <2> QED
    BY <2>1, FS_EmptySet DEF WgInv
<1>3. SentInv
  BY DEF SentInv
<1>4. ErrorInv
  <2>1. Returned # 1
    BY DEF Returned, Write, Stages
  <2> QED
    BY <2>1, ErrorShape DEF ErrorInv
<1>5. ProducerInv /\ StagesInOrder
  BY DEF ProducerInv, StagesInOrder, Running
<1> QED
  BY <1>1, <1>2, <1>3, <1>4, <1>5 DEF IInv

\* A task goes from its pipeline to a worker.
LEMMA SendIInv == ASSUME IInv, NEW a \in Artifact, NEW w \in Worker, Send(a, w) PROVE IInv'
<1> DEFINE t == <<a, stage[a], sent[a] + 1>>
<1>0. /\ stage[a] \in 1 .. 3 /\ stage[a] # Returned /\ Returned = 5 /\ sent[a] \in Nat
      /\ sent[a] + 1 \in 1 .. Size(a, stage[a])
  <2>1. Returned = 5
    BY DEF Returned, Write, Stages
  <2>2. stage[a] \in 1 .. 5 /\ sent[a] \in Nat /\ stage[a] < 5 /\ sent[a] < Size(a, stage[a])
    BY <2>1 DEF IInv, TypeOK, Send, AtSend
  <2>3. stage[a] # 4
    BY <2>2 DEF Size
  <2> QED
    BY <2>1, <2>2, <2>3, SizeType
<1>1. t \in Tasks /\ t[1] = a /\ t[2] = stage[a]
  BY <1>0, TaskMade
<1>2. /\ worker[w] = "idle"
      /\ wg' = [wg EXCEPT ![a] = @ + 1] /\ sent' = [sent EXCEPT ![a] = @ + 1]
      /\ worker' = [worker EXCEPT ![w] = "running"] /\ task' = [task EXCEPT ![w] = t]
      /\ UNCHANGED <<stage, written, perr, succeeded, failed, closed, producer, err>>
  BY DEF Send
<1>3. TypeOK'
  BY <1>0, <1>1, <1>2 DEF IInv, TypeOK
<1>4. Running' = Running \cup {t}
  BY <1>2 DEF IInv, TypeOK, Running
<1>5. WgInv'
  <2>1. RunningOf(a)' = RunningOf(a) \cup {w} /\ w \notin RunningOf(a)
    BY <1>1, <1>2 DEF IInv, TypeOK, RunningOf
  <2>2. Cardinality(RunningOf(a)') = Cardinality(RunningOf(a)) + 1
    BY <2>1, RunningFinite, FS_AddElement
  <2>3. \A b \in Artifact \ {a} : RunningOf(b)' = RunningOf(b)
    BY <1>1, <1>2 DEF IInv, TypeOK, RunningOf
  <2>4. wg[a] = Cardinality(RunningOf(a))
    BY <1>0 DEF IInv, WgInv
  <2> QED
    BY <1>2, <2>2, <2>3, <2>4 DEF IInv, TypeOK, WgInv
<1>6. SentInv'
  <2>1. \A v \in Worker : worker'[v] \in {"running", "failing"} => task'[v] \in Tasks
    BY <1>1, <1>2 DEF IInv, TypeOK, SentInv
  <2>2. \A v \in Worker : worker'[v] = "running" => task'[v][2] <= stage'[task'[v][1]]
    BY <1>0, <1>1, <1>2 DEF IInv, TypeOK, SentInv
  <2>3. ASSUME NEW b \in Artifact, NEW s \in 1 .. 3, NEW i \in 1 .. Size(b, s),
               stage'[b] # Returned, s < stage'[b] \/ (s = stage'[b] /\ i <= sent'[b])
        PROVE  <<b, s, i>> \in (succeeded \cup failed \cup Running)'
    <3>1. CASE s < stage[b] \/ i <= sent[b]
      BY <1>2, <1>4, <2>3, <3>1 DEF IInv, SentInv
    <3>2. CASE ~(s < stage[b]) /\ ~(i <= sent[b])
      <4>1. b = a
        BY <1>2, <2>3, <3>2 DEF IInv, TypeOK
      <4>2. s = stage[a] /\ i = sent[a] + 1
        BY <1>0, <1>2, <2>3, <3>2, <4>1, SizeType DEF IInv, TypeOK
      <4> QED
        BY <1>4, <4>1, <4>2
    <3> QED
      BY <3>1, <3>2
  <2> QED
    BY <1>2, <2>1, <2>2, <2>3 DEF IInv, SentInv
<1>7. ErrorInv'
  BY <1>2 DEF IInv, TypeOK, ErrorInv, CtxDone
<1>8. ProducerInv'
  BY <1>2 DEF IInv, ProducerInv, CtxDone
<1>9. StagesInOrder'
  <2>1. ASSUME NEW u \in Tasks, u[1] = a, u[2] < stage[a] PROVE u \in succeeded \cup failed
    BY <1>0, <2>1, TaskShape DEF IInv, SentInv
  <2> QED
    BY <1>1, <1>2, <1>4, <2>1 DEF IInv, StagesInOrder
<1> QED
  BY <1>3, <1>5, <1>6, <1>7, <1>8, <1>9 DEF IInv

\* A pipeline gives up at its send: its errgroup, or g, has an error already.
LEMMA AbortIInv == ASSUME IInv, NEW a \in Artifact, Abort(a) PROVE IInv'
<1>0. /\ stage[a] # Returned /\ stage[a] \in 1 .. Returned
      /\ Returned = 5 /\ ProducerCtxDone
      /\ wg' = [wg EXCEPT ![a] = @ + 1] /\ stage' = [stage EXCEPT ![a] = Returned]
      /\ perr' = FirstOf(perr, Canceled)
      /\ UNCHANGED <<sent, written, worker, task, succeeded, failed, closed, producer, err>>
  BY StageCount DEF IInv, TypeOK, Abort, AtSend, pool
<1>1. TypeOK /\ SentInv /\ Returned \in Nat /\ stage[a] <= Returned
  BY <1>0 DEF IInv
<1>2. perr' # NoErr /\ perr' \in {perr, Canceled} /\ (perr' = Canceled => CtxDone')
  BY <1>0, ErrorShape DEF IInv, ErrorInv, ProducerCtxDone, CtxDone, FirstOf
<1>3. Running' = Running /\ \A b \in Artifact : RunningOf(b)' = RunningOf(b)
  BY <1>0 DEF Running, RunningOf
<1>4. TypeOK'
  BY <1>0, <1>2 DEF IInv, TypeOK
<1>5. WgInv'
  BY <1>0, <1>3, RunningFinite DEF IInv, TypeOK, WgInv
<1>6. SentInv'
  <2>1. \A v \in Worker : worker'[v] = "running" => task'[v][2] <= stage'[task'[v][1]]
    BY <1>0, <1>1, StageGrows
  <2> QED
    BY <1>0, <1>3, <2>1 DEF IInv, TypeOK, SentInv
<1>7. ErrorInv'
  BY <1>0, <1>2, ErrorShape DEF IInv, TypeOK, ErrorInv, CtxDone
<1>8. ProducerInv'
  <2>1. producer = "wait"
    BY <1>0 DEF IInv, TypeOK, ProducerInv
  <2> QED
    BY <1>0, <2>1 DEF IInv, ProducerInv
<1>9. StagesInOrder'
  BY <1>0, <1>3 DEF IInv, StagesInOrder
<1> QED
  BY <1>4, <1>5, <1>6, <1>7, <1>8, <1>9 DEF IInv

\* A pipeline goes on when all tasks of its stage have ended.
LEMMA WaitIInv == ASSUME IInv, NEW a \in Artifact, Wait(a) PROVE IInv'
<1>0. /\ stage[a] \in 1 .. 3 /\ Returned = 5 /\ sent[a] = Size(a, stage[a]) /\ wg[a] = 0
      /\ stage' = [stage EXCEPT ![a] = @ + 1] /\ sent' = [sent EXCEPT ![a] = 0]
      /\ UNCHANGED <<written, perr, wg, worker, task, succeeded, failed, closed, producer, err>>
  BY DEF IInv, TypeOK, Wait, pool, Returned, Write, Stages
<1>1. Running' = Running /\ \A b \in Artifact : RunningOf(b)' = RunningOf(b)
  BY <1>0 DEF Running, RunningOf
<1>2. \A t \in Running : t[1] # a
  BY <1>0, ZeroMeansNobodyRuns DEF IInv
<1>3. stage'[a] \in 2 .. 4 /\ stage'[a] = stage[a] + 1 /\ sent'[a] = 0
  BY <1>0 DEF IInv, TypeOK
<1>4. TypeOK'
  BY <1>0, <1>3 DEF IInv, TypeOK
<1>5. WgInv'
  BY <1>0, <1>1, <1>3 DEF IInv, TypeOK, WgInv
<1>6. SentInv'
  <2>1. ASSUME NEW s \in 1 .. 3, NEW i \in 1 .. Size(a, s), s < stage'[a]
        PROVE  <<a, s, i>> \in succeeded \cup failed
    <3>1. s < stage[a] \/ (s = stage[a] /\ i <= sent[a])
      BY <1>0, <1>3, <2>1, SizeType
    <3>2. <<a, s, i>> \in succeeded \cup failed \cup Running
      BY <1>0, <3>1 DEF IInv, SentInv
    <3> QED
      BY <1>2, <3>2
  <2>2. \A v \in Worker : worker'[v] = "running" => task'[v][2] <= stage'[task'[v][1]]
    <3>1. TypeOK /\ SentInv /\ stage[a] + 1 \in Nat /\ stage[a] <= stage[a] + 1
      BY <1>0 DEF IInv
    <3> QED
      BY <1>0, <3>1, StageGrows
  <2>3. ASSUME NEW b \in Artifact, NEW s \in 1 .. 3, NEW i \in 1 .. Size(b, s),
               stage'[b] # Returned, s < stage'[b] \/ (s = stage'[b] /\ i <= sent'[b])
        PROVE  <<b, s, i>> \in (succeeded \cup failed \cup Running)'
    <3>1. CASE b = a
      <4>1. s < stage'[a]
        BY <1>3, <2>3, <3>1, SizeType
      <4> QED
        BY <1>0, <2>1, <3>1, <4>1
    <3>2. CASE b # a
      BY <1>0, <1>1, <2>3, <3>2 DEF IInv, TypeOK, SentInv
    <3> QED
      BY <3>1, <3>2
  <2>4. ASSUME NEW b \in Artifact, NEW s \in 1 .. 3, NEW i \in 1 .. Size(b, s),
               (stage'[b] # Returned /\ s < stage'[b]) \/ b \in written'
        PROVE  <<b, s, i>> \in (succeeded \cup failed)'
    BY <1>0, <2>1, <2>4 DEF IInv, TypeOK, SentInv
  <2> QED
    BY <1>0, <2>2, <2>3, <2>4 DEF IInv, SentInv
<1>7. ErrorInv'
  BY <1>0, <1>3 DEF IInv, TypeOK, ErrorInv, CtxDone
<1>8. ProducerInv'
  BY <1>0 DEF IInv, TypeOK, ProducerInv, CtxDone
<1>9. StagesInOrder'
  BY <1>0, <1>1 DEF IInv, StagesInOrder
<1> QED
  BY <1>4, <1>5, <1>6, <1>7, <1>8, <1>9 DEF IInv

\* The artifact is written, or cannot be.
LEMMA SaveIInv == ASSUME IInv, NEW a \in Artifact, Save(a) \/ SaveFails(a) PROVE IInv'
<1>0. /\ stage[a] = 4 /\ Returned = 5 /\ a \notin written
      /\ stage' = [stage EXCEPT ![a] = Returned]
      /\ UNCHANGED <<sent, wg, worker, task, succeeded, failed, closed, producer, err>>
  BY DEF IInv, ErrorInv, Save, SaveFails, pool, Returned, Write, Stages
<1>1. \/ written' = written \cup {a} /\ perr' = perr
      \/ written' = written /\ perr' = FirstOf(perr, SaveError(a))
  BY DEF Save, SaveFails
<1>2. Running' = Running /\ \A b \in Artifact : RunningOf(b)' = RunningOf(b)
  BY <1>0 DEF Running, RunningOf
<1>3. TypeOK'
  BY <1>0, <1>1 DEF IInv, TypeOK, FirstOf
<1>4. WgInv'
  BY <1>0, <1>2 DEF IInv, TypeOK, WgInv
<1>5. SentInv'
  <2>1. \A s \in 1 .. 3 : \A i \in 1 .. Size(a, s) : <<a, s, i>> \in succeeded \cup failed
    BY <1>0 DEF IInv, SentInv
  <2>2. \A v \in Worker : worker'[v] = "running" => task'[v][2] <= stage'[task'[v][1]]
    <3>1. TypeOK /\ SentInv /\ Returned \in Nat /\ stage[a] <= Returned
      BY <1>0 DEF IInv
    <3> QED
      BY <1>0, <3>1, StageGrows
  <2>3. \A b \in Artifact \ {a} : stage'[b] = stage[b] /\ (b \in written' <=> b \in written)
    BY <1>0, <1>1 DEF IInv, TypeOK
  <2>4. stage'[a] = Returned
    BY <1>0 DEF IInv, TypeOK
  <2> QED
    BY <1>0, <1>2, <2>1, <2>2, <2>3, <2>4 DEF IInv, SentInv
<1>6. ErrorInv'
  <2>1. stage'[a] = Returned /\ \A b \in Artifact \ {a} : stage'[b] = stage[b]
    BY <1>0 DEF IInv, TypeOK
  <2>2. SaveError(a) \notin {perr, err} /\ SaveError(a) # NoErr
    BY <1>0, ErrorShape DEF IInv, ErrorInv
  <2>3. CASE written' = written \cup {a} /\ perr' = perr
    BY <1>0, <2>1, <2>2, <2>3 DEF IInv, ErrorInv, CtxDone
  <2>4. CASE written' = written /\ perr' = FirstOf(perr, SaveError(a))
    BY <1>0, <2>1, <2>2, <2>4, ErrorShape DEF IInv, ErrorInv, CtxDone, FirstOf
  <2> QED
    BY <1>1, <2>3, <2>4
<1>7. ProducerInv'
  <2>1. producer = "wait"
    BY <1>0 DEF IInv, TypeOK, ProducerInv
  <2> QED
    BY <1>0, <2>1 DEF IInv, ProducerInv
<1>8. StagesInOrder'
  BY <1>0, <1>2 DEF IInv, StagesInOrder
<1> QED
  BY <1>3, <1>4, <1>5, <1>6, <1>7, <1>8 DEF IInv

\* A task ends, well or badly; its wait group hears of it first.
LEMMA EndIInv == ASSUME IInv, NEW w \in Worker, Succeed(w) \/ Fail(w) PROVE IInv'
<1> DEFINE t == task[w]
           a == t[1]
<1>0. t \in Tasks /\ a \in Artifact /\ worker[w] = "running"
  BY TaskShape DEF IInv, SentInv, Succeed, Fail
<1>1. /\ wg' = [wg EXCEPT ![a] = @ - 1]
      /\ UNCHANGED <<stage, sent, written, perr, task, closed, producer, err>>
      /\ \/ /\ worker' = [worker EXCEPT ![w] = "idle"]
            /\ succeeded' = succeeded \cup {t} /\ failed' = failed
         \/ /\ worker' = [worker EXCEPT ![w] = "failing"]
            /\ failed' = failed \cup {t} /\ succeeded' = succeeded
  BY DEF Succeed, Fail, pipelines
<1>2. Running \subseteq Running' \cup {t} /\ Running' \subseteq Running
  BY <1>1 DEF IInv, TypeOK, Running
<1>3. WgInv' /\ wg'[a] \in Nat
  <2>1. RunningOf(a)' = RunningOf(a) \ {w} /\ w \in RunningOf(a)
    BY <1>0, <1>1 DEF IInv, TypeOK, RunningOf
  <2>2. Cardinality(RunningOf(a) \ {w}) = Cardinality(RunningOf(a)) - 1
    BY <2>1, RunningFinite, FS_RemoveElement
  <2>3. Cardinality(RunningOf(a) \ {w}) \in Nat
    BY RunningFinite, FS_RemoveElement, FS_CardinalityType
  <2>4. \A b \in Artifact \ {a} : RunningOf(b)' = RunningOf(b)
    BY <1>0, <1>1 DEF IInv, TypeOK, RunningOf
  <2>5. wg'[a] = wg[a] - 1 /\ \A b \in Artifact \ {a} : wg'[b] = wg[b]
    BY <1>0, <1>1 DEF IInv, TypeOK
  <2>6. \/ wg'[a] = Cardinality(RunningOf(a)')
        \/ stage'[a] = Returned /\ wg'[a] = Cardinality(RunningOf(a)') + 1
    BY <1>0, <1>1, <2>1, <2>2, <2>5, RunningFinite DEF IInv, WgInv
  <2>7. WgInv'
    BY <1>1, <2>4, <2>5, <2>6 DEF IInv, WgInv
  <2> QED
    BY <2>1, <2>3, <2>6, <2>7
<1>4. TypeOK'
  BY <1>0, <1>1, <1>3 DEF IInv, TypeOK
<1>5. SentInv'
  <2>1. \A v \in Worker : worker'[v] \in {"running", "failing"} => task'[v] \in Tasks
    BY <1>0, <1>1 DEF IInv, TypeOK, SentInv
  <2>2. \A v \in Worker : worker'[v] = "running" => task'[v][2] <= stage'[task'[v][1]]
    BY <1>1 DEF IInv, TypeOK, SentInv
  <2>3. /\ succeeded \cup failed \subseteq (succeeded \cup failed)'
        /\ t \in (succeeded \cup failed)'
    BY <1>1
  <2>4. succeeded \cup failed \cup Running \subseteq (succeeded \cup failed \cup Running)'
    BY <1>2, <2>3
  <2> QED
    BY <1>1, <2>1, <2>2, <2>3, <2>4 DEF IInv, SentInv
<1>6. ErrorInv'
  <2>1. worker[w] # "failing"
    BY <1>0
  <2>2. \A u \in failed' : CtxDone' \/ \E v \in Worker : worker'[v] = "failing" /\ task'[v] = u
    BY <1>1, <2>1 DEF IInv, TypeOK, ErrorInv, CtxDone
  <2>3. \A v \in Worker : worker'[v] = "failing" => task'[v] \in failed'
    BY <1>1 DEF IInv, TypeOK, ErrorInv
  <2>4. failed \subseteq failed'
    BY <1>1
  <2> QED
    BY <1>1, <2>2, <2>3, <2>4 DEF IInv, ErrorInv, CtxDone
<1>7. ProducerInv'
  BY <1>1 DEF IInv, ProducerInv, CtxDone
<1>8. StagesInOrder'
  BY <1>1, <1>2 DEF IInv, StagesInOrder
<1> QED
  BY <1>3, <1>4, <1>5, <1>6, <1>7, <1>8 DEF IInv

\* A worker leaves: its task failed, g's context is done, or the channel closed.
LEMMA LeaveIInv == ASSUME IInv, NEW w \in Worker, Record(w) \/ Quit(w) \/ Drained(w) PROVE IInv'
<1>0. /\ worker[w] \in {"failing", "idle"} /\ worker' = [worker EXCEPT ![w] = "exited"]
      /\ UNCHANGED <<stage, sent, written, perr, wg, task, succeeded, failed, closed, producer>>
  BY DEF Record, Quit, Drained, pipelines
<1>1. /\ err' \in {err} \cup failed
      /\ worker[w] = "failing" => err' # NoErr
      /\ err # NoErr => err' = err
      /\ \A a \in Artifact : SaveError(a) = err' => SaveError(a) = err
  <2>1. CASE Record(w)
    <3>1. task[w] \in failed /\ task[w] \in Tasks
      BY <2>1 DEF IInv, TypeOK, ErrorInv, Record
    <3> QED
      BY <2>1, <3>1, TaskShape DEF Record, FirstOf
  <2>2. CASE Quit(w) \/ Drained(w)
    BY <2>2 DEF Quit, Drained, FirstOf, CtxDone
  <2> QED
    BY <2>1, <2>2
<1>2. Running' = Running /\ \A a \in Artifact : RunningOf(a)' = RunningOf(a)
  BY <1>0 DEF IInv, TypeOK, Running, RunningOf
<1>3. TypeOK'
  BY <1>0, <1>1 DEF IInv, TypeOK
<1>4. WgInv'
  BY <1>0, <1>2 DEF IInv, WgInv
<1>5. SentInv'
  BY <1>0, <1>2 DEF IInv, TypeOK, SentInv
<1>6. ErrorInv'
  <2>1. CtxDone => CtxDone'
    BY <1>1 DEF CtxDone
  <2>2. \A u \in failed' : CtxDone' \/ \E v \in Worker : worker'[v] = "failing" /\ task'[v] = u
    BY <1>0, <1>1, <2>1 DEF IInv, TypeOK, ErrorInv, CtxDone
  <2>3. \A v \in Worker : worker'[v] = "failing" => task'[v] \in failed'
    BY <1>0 DEF IInv, TypeOK, ErrorInv
  <2> QED
    BY <1>0, <1>1, <2>1, <2>2, <2>3 DEF IInv, ErrorInv
<1>7. ProducerInv' /\ StagesInOrder'
  BY <1>0, <1>1, <1>2 DEF IInv, ProducerInv, StagesInOrder, CtxDone
<1> QED
  BY <1>3, <1>4, <1>5, <1>6, <1>7 DEF IInv

\* The producer closes the channel, and hands p's error to g.
LEMMA ProduceIInv == ASSUME IInv, Produce PROVE IInv'
<1>0. UNCHANGED <<stage, sent, written, perr, wg, worker, task, succeeded, failed>>
  BY DEF Produce, Close, RecordProducer, pipelines, pool
<1>1. /\ err # NoErr => err' = err
      /\ err' = err \/ (err' = perr /\ perr # Canceled)
      /\ producer' = "done" /\ perr # NoErr => err' # NoErr
  BY DEF IInv, ErrorInv, Produce, Close, RecordProducer, FirstOf, CtxDone
<1>2. Running' = Running /\ \A a \in Artifact : RunningOf(a)' = RunningOf(a)
  BY <1>0 DEF Running, RunningOf
<1>3. TypeOK'
  BY <1>0, <1>1 DEF IInv, TypeOK, Produce, Close, RecordProducer
<1>4. WgInv' /\ SentInv' /\ StagesInOrder'
  BY <1>0, <1>2 DEF IInv, WgInv, SentInv, StagesInOrder
<1>5. ErrorInv'
  BY <1>0, <1>1 DEF IInv, ErrorInv, CtxDone
<1>6. ProducerInv'
  BY <1>0, <1>1 DEF IInv, ProducerInv, Produce, Close, RecordProducer, CtxDone
<1> QED
  BY <1>3, <1>4, <1>5, <1>6 DEF IInv

LEMMA NextIInv == ASSUME IInv, [Next]_vars PROVE IInv'
<1>1. CASE UNCHANGED vars
  <2>1. UNCHANGED <<stage, sent, written, perr, wg, worker, task, succeeded, failed,
                    closed, producer, err>>
    BY <1>1 DEF vars, pipelines, pool
  <2>2. Running' = Running /\ \A a \in Artifact : RunningOf(a)' = RunningOf(a)
    BY <2>1 DEF Running, RunningOf
  <2>3. TypeOK' /\ ErrorInv' /\ ProducerInv'
    BY <2>1 DEF IInv, TypeOK, ErrorInv, ProducerInv, CtxDone
  <2>4. WgInv' /\ SentInv' /\ StagesInOrder'
    BY <2>1, <2>2 DEF IInv, WgInv, SentInv, StagesInOrder
  <2> QED
    BY <2>3, <2>4 DEF IInv
<1>2. ASSUME NEW a \in Artifact, NEW w \in Worker, Send(a, w) PROVE IInv'
  BY <1>2, SendIInv
<1>3. ASSUME NEW a \in Artifact, Pipeline(a) PROVE IInv'
  BY <1>3, AbortIInv, WaitIInv, SaveIInv DEF Pipeline
<1>4. ASSUME NEW w \in Worker, Work(w) PROVE IInv'
  BY <1>4, EndIInv, LeaveIInv DEF Work
<1>5. CASE Produce
  BY <1>5, ProduceIInv
<1> QED
  BY <1>1, <1>2, <1>3, <1>4, <1>5 DEF Next, Terminated

\* The bookkeeping of pipelines, wait groups, workers and errors is consistent in
\* every reachable state, for any number of artifacts, tasks and workers.
THEOREM Inductive == Spec => []IInv
  BY InitIInv, NextIInv, PTL DEF Spec

\* A task of a stage runs only when all tasks of the earlier stages have ended
\* (wg.Wait() in buildArtifact).
THEOREM StagesInOrderHolds == Spec => []StagesInOrder
<1>1. IInv => StagesInOrder
  BY DEF IInv
<1> QED
  BY <1>1, Inductive, PTL

\* close(tasks) comes after the last send.
THEOREM NoSendOnClosedHolds == Spec => []NoSendOnClosed
<1>1. IInv => NoSendOnClosed
  BY DEF IInv, TypeOK, ProducerInv, NoSendOnClosed, AtSend
<1> QED
  BY <1>1, Inductive, PTL

\* The error of Build is the one of a task or of a Save, never a cancellation.
THEOREM RootCauseReportedHolds == Spec => []RootCauseReported
<1>1. IInv => RootCauseReported
  BY DEF IInv, ErrorInv, RootCauseReported
<1> QED
  BY <1>1, Inductive, PTL

\* What a nil error says of the tasks, the artifacts and the pipelines' error.
LEMMA NilOfBuild ==
    ASSUME IInv, Built, err = NoErr
    PROVE  written = Artifact /\ succeeded = Tasks /\ failed = {} /\ perr = NoErr
<1>1. perr = NoErr /\ ~CtxDone /\ \A a \in Artifact : stage[a] = Returned
  BY DEF IInv, ProducerInv, Built, CtxDone
<1>2. written \subseteq Artifact /\ succeeded \subseteq Tasks
  BY DEF IInv, TypeOK
<1>3. written = Artifact
  BY <1>1, <1>2 DEF IInv, ErrorInv
<1>4. failed = {}
  BY <1>1 DEF IInv, ErrorInv, Built
<1>5. ASSUME NEW t \in Tasks PROVE t \in succeeded
  <2>1. /\ t = <<t[1], t[2], t[3]>>
        /\ t[1] \in Artifact /\ t[2] \in 1 .. 3 /\ t[3] \in 1 .. Size(t[1], t[2])
    BY TaskShape
  <2>2. <<t[1], t[2], t[3]>> \in succeeded \cup failed
    BY <1>3, <2>1 DEF IInv, SentInv
  <2> QED
    BY <1>4, <2>1, <2>2
<1> QED
  BY <1>1, <1>2, <1>3, <1>4, <1>5

\* Build returns nil only when every task succeeded and every artifact is written.
THEOREM NilMeansAllWrittenHolds == Spec => []NilMeansAllWritten
<1>1. IInv => NilMeansAllWritten
  BY NilOfBuild DEF NilMeansAllWritten
<1> QED
  BY <1>1, Inductive, PTL

-----------------------------------------------------------------------------
(***************************************************************************)
(* The bodies of the tasks leave the scheduling of BuildPlan as it is: a   *)
(* build with its files is a build of BuildPlan, so what is shown above of *)
(* the pipelines and the workers holds whatever the bodies do.             *)
(***************************************************************************)

\* A step of a body is a step of its worker, or none of BuildPlan's.
LEMMA BodyStep ==
    ASSUME NEW w \in Worker, Body(w)
    PROVE  Succeed(w) \/ UNCHANGED vars
<1>1. CASE \E next : Step(w, next)
  BY <1>1, Zenon DEF Step
<1>2. CASE Done(w)
  BY <1>2, Zenon DEF Done
<1>3. (\E next : Step(w, next)) \/ Done(w)
  <2>1. CASE Generate(w) \/ SaveInput(w) \/ Rewrite(w)
    BY <2>1, Zenon DEF Generate, SaveInput, Rewrite
  <2>2. CASE Kustomized(w) \/ Validated(w) \/ Joined(w) \/ StartTool(w)
    BY <2>2, Zenon DEF Kustomized, Validated, Joined, StartTool
  <2>3. CASE \E i \in DOMAIN body[w].inputs : SaveIsolated(w, body[w].inputs[i]) \/ GetInput(w, body[w].inputs[i])
    BY <2>3, Zenon DEF SaveIsolated, GetInput, Reads
  <2>4. CASE \E f \in body[w].files : Truncate(w, f) \/ SetFile(w, f)
    BY <2>4, Zenon DEF Truncate, SetFile
  <2>5. CASE Exit(w)
    BY <2>5, Zenon DEF Exit
  <2> QED
    BY <2>1, <2>2, <2>3, <2>4, <2>5, Zenon DEF Body
<1> QED
  BY <1>1, <1>2, <1>3

LEMMA FilesStep == [FilesNext]_filesVars => [Next]_vars
<1> SUFFICES ASSUME [FilesNext]_filesVars PROVE [Next]_vars
  OBVIOUS
<1>1. CASE Schedule
  BY <1>1, Zenon DEF Schedule, Next, Pipeline, Work
<1>2. CASE \E a \in Artifact, w \in Worker : Take(a, w)
  BY <1>2, Zenon DEF Take, Next
<1>3. ASSUME NEW w \in Worker, Body(w) \/ GeneratorFails(w) \/ Break(w) PROVE [Next]_vars
  <2>1. Succeed(w) \/ Fail(w) \/ UNCHANGED vars
    BY <1>3, BodyStep, Zenon DEF GeneratorFails, Break
  <2> QED
    BY <2>1, Zenon DEF Next, Work
<1>4. CASE \E a \in Artifact : Deploy(a) \/ DeployFails(a)
  BY <1>4, Zenon DEF Deploy, DeployFails, Next, Pipeline
<1>5. CASE Terminated /\ UNCHANGED fileVars
  BY <1>5, Zenon DEF Next
<1>6. CASE UNCHANGED filesVars
  BY <1>6, Zenon DEF filesVars
<1> QED
  BY <1>1, <1>2, <1>3, <1>4, <1>5, <1>6, Zenon DEF FilesNext

\* A build with its files is a build of BuildPlan.
THEOREM FilesImplementBuildPlan == FilesSpec => Spec
<1>1. FilesInit => Init
  BY DEF FilesInit
<1> QED
  BY <1>1, FilesStep, PTL DEF FilesSpec, Spec

\* Whatever the bodies do, the stages of an artifact stay in order.
THEOREM FilesStagesInOrder == FilesSpec => []StagesInOrder
  BY FilesImplementBuildPlan, StagesInOrderHolds, PTL

\* Whatever the bodies do, the error of Build is the one that stopped it.
THEOREM FilesRootCauseReported == FilesSpec => []RootCauseReported
  BY FilesImplementBuildPlan, RootCauseReportedHolds, PTL

-----------------------------------------------------------------------------
(***************************************************************************)
(* The tasks that were begun. A task is taken once and ends once, and it   *)
(* has the earlier stages of its artifact behind it.                       *)
(***************************************************************************)

\* The tasks that some worker took.
Begun == succeeded \cup failed \cup Running

\* A task is taken once and in the order of the stages, and it has ended when it
\* is in one of the two sets of results.
BegunInv ==
    /\ \A t \in Begun : t[2] < stage[t[1]] \/ (t[2] = stage[t[1]] /\ t[3] <= sent[t[1]])
    /\ \A t \in Begun, u \in Tasks : u[1] = t[1] /\ u[2] < t[2] => u \in succeeded \cup failed
    /\ succeeded \cap failed = {} /\ Running \cap (succeeded \cup failed) = {}
    /\ \A v, w \in Worker : worker[v] = "running" /\ worker[w] = "running" /\ v # w => task[v] # task[w]

LEMMA BegunTasks == ASSUME TypeOK, SentInv PROVE Begun \subseteq Tasks
BY DEF TypeOK, SentInv, Begun, Running

\* A task that is sent was not begun before.
LEMMA BegunSend == ASSUME IInv, BegunInv, NEW a \in Artifact, NEW w \in Worker, Send(a, w) PROVE BegunInv'
<1> DEFINE t == <<a, stage[a], sent[a] + 1>>
<1>1. /\ stage[a] \in 1 .. 3 /\ stage[a] # Returned /\ sent[a] \in Nat
      /\ sent[a] + 1 \in 1 .. Size(a, stage[a])
  <2>1. stage[a] \in 1 .. 5 /\ sent[a] \in Nat /\ stage[a] < 5 /\ sent[a] < Size(a, stage[a])
    BY StageCount DEF IInv, TypeOK, Send, AtSend
  <2>2. stage[a] # 4
    BY <2>1 DEF Size
  <2> QED
    BY <2>1, <2>2, SizeType, StageCount
<1>2. /\ worker[w] = "idle"
      /\ sent' = [sent EXCEPT ![a] = @ + 1]
      /\ worker' = [worker EXCEPT ![w] = "running"] /\ task' = [task EXCEPT ![w] = t]
      /\ UNCHANGED <<stage, succeeded, failed>>
  BY DEF Send
<1>3. Running' = Running \cup {t} /\ Begun' = Begun \cup {t}
  BY <1>2 DEF IInv, TypeOK, Running, Begun
<1>4. Begun \subseteq Tasks /\ t \in Tasks /\ t[1] = a /\ t[2] = stage[a] /\ t[3] = sent[a] + 1
  BY <1>1, TaskMade, BegunTasks DEF IInv
<1>5. t \notin Begun
  BY <1>1, <1>4 DEF BegunInv
<1>6. ASSUME NEW u \in Begun'
      PROVE  u[2] < stage'[u[1]] \/ (u[2] = stage'[u[1]] /\ u[3] <= sent'[u[1]])
  <2>1. CASE u = t
    BY <1>1, <1>2, <1>4, <2>1 DEF IInv, TypeOK
  <2>2. CASE u \in Begun
    <3>1. u[1] \in Artifact /\ u[3] \in Nat
      BY <1>4, <2>2, TaskShape, SizeType
    <3>2. sent[u[1]] \in Nat /\ sent'[u[1]] \in Nat /\ sent[u[1]] <= sent'[u[1]]
      BY <1>2, <3>1 DEF IInv, TypeOK
    <3> QED
      BY <1>2, <2>2, <3>1, <3>2 DEF BegunInv
  <2> QED
    BY <1>3, <2>1, <2>2
<1>7. ASSUME NEW v \in Begun', NEW u \in Tasks, u[1] = v[1], u[2] < v[2]
      PROVE  u \in succeeded' \cup failed'
  <2>1. CASE v = t
    <3>1. u \in succeeded \cup failed
      BY <1>1, <1>4, <1>7, <2>1, TaskShape DEF IInv, SentInv
    <3> QED
      BY <1>2, <3>1
  <2>2. CASE v \in Begun
    BY <1>2, <1>7, <2>2 DEF BegunInv
  <2> QED
    BY <1>3, <2>1, <2>2
<1>8. succeeded' \cap failed' = {} /\ Running' \cap (succeeded' \cup failed') = {}
  BY <1>2, <1>3, <1>5 DEF BegunInv, Begun
<1>9. \A v, u \in Worker : worker'[v] = "running" /\ worker'[u] = "running" /\ v # u => task'[v] # task'[u]
  <2>1. \A v \in Worker : worker[v] = "running" => task[v] # t
    BY <1>5 DEF Begun, Running
  <2> HIDE DEF t
  <2>2. \A v \in Worker : IF v = w THEN task'[v] = t ELSE task'[v] = task[v] /\ worker'[v] = worker[v]
    BY <1>2 DEF IInv, TypeOK
  <2> QED
    BY <1>2, <2>1, <2>2 DEF BegunInv
<1> QED
  BY <1>6, <1>7, <1>8, <1>9 DEF BegunInv

LEMMA BegunEnd == ASSUME IInv, BegunInv, NEW w \in Worker, Succeed(w) \/ Fail(w) PROVE BegunInv'
<1> DEFINE t == task[w]
<1>1. worker[w] = "running" /\ t \in Running
  BY DEF Succeed, Fail, Running
<1>2. /\ UNCHANGED <<stage, sent, task>>
      /\ \/ /\ worker' = [worker EXCEPT ![w] = "idle"]
            /\ succeeded' = succeeded \cup {t} /\ failed' = failed
         \/ /\ worker' = [worker EXCEPT ![w] = "failing"]
            /\ failed' = failed \cup {t} /\ succeeded' = succeeded
  BY DEF Succeed, Fail, pipelines
<1>3. \A v \in Worker : worker'[v] = "running" <=> v # w /\ worker[v] = "running"
  BY <1>2 DEF IInv, TypeOK
<1> HIDE DEF t
<1>4. Running' = Running \ {t}
  <2>1. \A v \in Worker : worker'[v] = "running" => task[v] # t
    BY <1>1, <1>3 DEF BegunInv, t
  <2>2. \A v \in Worker : worker[v] = "running" /\ task[v] # t => worker'[v] = "running"
    BY <1>3 DEF t
  <2> QED
    BY <1>2, <1>3, <2>1, <2>2 DEF Running
<1>5. Begun' = Begun /\ succeeded' \cup failed' = succeeded \cup failed \cup {t}
  BY <1>1, <1>2, <1>4 DEF Begun
<1>6. succeeded' \cap failed' = {} /\ Running' \cap (succeeded' \cup failed') = {}
  <2>1. t \notin succeeded \cup failed
    BY <1>1 DEF BegunInv
  <2> QED
    BY <1>2, <1>4, <1>5, <2>1 DEF BegunInv
<1> QED
  BY <1>2, <1>3, <1>5, <1>6 DEF BegunInv

\* Every step keeps the order of the tasks that were begun.
LEMMA BegunStep == ASSUME IInv, BegunInv, [Next]_vars PROVE BegunInv'
<1>1. ASSUME UNCHANGED <<stage, sent, task, succeeded, failed>>,
             \A w \in Worker : worker'[w] = "running" <=> worker[w] = "running"
      PROVE  BegunInv'
  <2>1. Running' = Running /\ Begun' = Begun
    BY <1>1 DEF Running, Begun
  <2> QED
    BY <1>1, <2>1 DEF BegunInv
<1>2. ASSUME NEW a \in Artifact, Abort(a) \/ Wait(a) \/ Save(a) \/ SaveFails(a) PROVE BegunInv'
  <2>1. /\ UNCHANGED <<worker, task, succeeded, failed>>
        /\ \A b \in Artifact \ {a} : stage'[b] = stage[b] /\ sent'[b] = sent[b]
        /\ stage[a] < stage'[a] \/ stage'[a] = 5
    <3>1. stage \in [Artifact -> 1 .. 5] /\ sent \in [Artifact -> Nat]
      BY StageCount DEF IInv, TypeOK
    <3>2. CASE Wait(a)
      BY <3>1, <3>2, StageCount DEF Wait, pool
    <3>3. CASE Abort(a) \/ Save(a) \/ SaveFails(a)
      BY <3>1, <3>3, StageCount DEF Abort, Save, SaveFails, pool
    <3> QED
      BY <1>2, <3>2, <3>3
  <2>2. Running' = Running /\ Begun' = Begun
    BY <2>1 DEF Running, Begun
  <2>3. stage[a] \in Nat /\ stage'[a] \in Nat
    <3>1. stage \in [Artifact -> 1 .. 5]
      BY StageCount DEF IInv, TypeOK
    <3> QED
      BY <1>2, <3>1, StageCount DEF Abort, Wait, Save, SaveFails
  <2>4. ASSUME NEW u \in Begun
        PROVE  u[2] < stage'[u[1]] \/ (u[2] = stage'[u[1]] /\ u[3] <= sent'[u[1]])
    <3>1. u[1] \in Artifact /\ u[2] \in 1 .. 3
      BY BegunTasks, TaskIndex DEF IInv
    <3>2. CASE u[1] = a
      BY <2>1, <2>3, <3>1, <3>2 DEF BegunInv
    <3>3. CASE u[1] # a
      BY <2>1, <3>1, <3>3 DEF BegunInv
    <3> QED
      BY <3>2, <3>3
  <2> QED
    BY <2>1, <2>2, <2>4 DEF BegunInv
<1>3. ASSUME NEW w \in Worker, Record(w) \/ Quit(w) \/ Drained(w) PROVE BegunInv'
  <2>1. /\ worker[w] \in {"failing", "idle"} /\ worker' = [worker EXCEPT ![w] = "exited"]
        /\ UNCHANGED <<stage, sent, task, succeeded, failed>>
    BY <1>3 DEF Record, Quit, Drained, pipelines
  <2> QED
    BY <1>1, <2>1 DEF IInv, TypeOK
<1>4. CASE Produce
  BY <1>1, <1>4 DEF Produce, Close, RecordProducer, pipelines, pool
<1>5. CASE UNCHANGED vars
  BY <1>1, <1>5 DEF vars, pipelines, pool
<1> QED
  BY <1>2, <1>3, <1>4, <1>5, BegunSend, BegunEnd DEF Next, Pipeline, Work, Terminated

LEMMA BegunInit == Init => BegunInv
BY DEF Init, BegunInv, Begun, Running

-----------------------------------------------------------------------------
(***************************************************************************)
(* The invariant of the bodies: what they wrote is where their places say, *)
(* and what they read is what the store has.  Who tears a file, and that a *)
(* path is set once, holds of paths in any spelling; what is in a          *)
(* directory is known of plans whose paths are spelled as they are         *)
(* cleaned, where a key of the store and its file are the same.            *)
(***************************************************************************)

\* The places of a body, and the types of the files.
Place == {"generate", "inputs", "saving", "exec", "writing", "set", "end"}
BodyState == [unit : Nat, at : Place, inputs : Seq(Path), files : SUBSET Path, open : Path]

FilesTypeOK ==
    /\ plan \in Plans
    /\ store \in SUBSET Path
    /\ body \in [Worker -> BodyState]
    /\ seen \in [UnitsOfPlan -> SUBSET File]
    /\ tmp \in SUBSET File
    /\ torn \in SUBSET Path

\* The unit a body b of task t stands at.
UnitOf(t, b) == Units(t)[b.unit]

\* The inputs it has yet to read.
Remaining(b) == {b.inputs[i] : i \in DOMAIN b.inputs}

\* A body b of task t stands where it may: what it writes is its own.
Placed(t, b) ==
    /\ IF b.at = "end" THEN Units(t) = <<>> ELSE b.unit \in DOMAIN Units(t)
    /\ b.at = "generate" => UnitOf(t, b).kind \in GeneratorKinds5
    /\ b.at \in {"saving", "exec", "writing", "set"} => UnitOf(t, b).kind \in Supported(t[2])
    /\ b.at \in {"saving", "exec"} => Shared(UnitOf(t, b))
    /\ b.at \in {"generate", "inputs", "exec"} => b.files = {}
    /\ b.at = "exec" => b.inputs = <<>>
    /\ b.at = "saving" =>
          /\ b.files \subseteq store
          /\ \E p \in InputsOf(UnitOf(t, b)) : \A f \in b.files : AtOrUnder(f, p)
    /\ b.at = "writing" =>
          /\ UnitOf(t, b).kind = "Join" \/ (UnitOf(t, b).kind = "Command" /\ UnitOf(t, b).stdout)
          /\ b.files = {UnitOf(t, b).output}
    /\ b.at = "set" =>
          /\ UnitOf(t, b).kind \in {"Kustomize", "Join", "Command"}
          /\ \A f \in b.files : AtOrUnder(f, UnitOf(t, b).output)
    /\ b.open # NoPath => b.at \in {"saving", "writing"} /\ b.open \in b.files
    /\ b.at # "end" => Remaining(b) \subseteq InputsOf(UnitOf(t, b))

PlaceInv == \A w \in Worker : worker[w] = "running" => Placed(task[w], body[w])

\* The body b of its task has set the output of unit k, which lies in that task.
PassedBy(t, b, k) ==
    /\ k[1] = t
    /\ \/ k[2] < b.unit
       \/ k[2] = b.unit /\ b.at = "set" /\ b.files # {} /\ UnitAt(k).output \notin b.files
Passed(k) ==
    \/ k[1] \in succeeded
    \/ \E w \in Worker : worker[w] = "running" /\ PassedBy(task[w], body[w], k)

\* The outputs that were set are there, and no two of them are the same.
OnceInv ==
    \A j \in UnitsOfPlan : Passed(j) /\ MakesFile(j) =>
        /\ UnitAt(j).output \in store
        /\ \A k \in UnitsOfPlan : k # j /\ Passed(k) /\ MakesFile(k) => UnitAt(j).output # UnitAt(k).output

\* A truncated file is one a body is writing, or was writing when it failed.
Rewriting(b, f) == b.at \in {"saving", "writing"} /\ \E k \in b.files : Clean(k) = f
TornInv ==
    \A f \in torn :
        \/ \E w \in Worker : worker[w] = "running" /\ Rewriting(body[w], f)
        \/ \E k \in UnitsOfPlan : k[1] \in failed /\ \E p \in DeclaredBy(k) : f \in FilesOf(p)

\* A file whose content is what the store has under its path.
Plain(tree) == \A f \in tree : f.content = f.path /\ ValidFSPath(f.path)

\* With clean paths every file is such a file, and every key has one.
PlainInv ==
    PathsClean =>
        /\ Plain(tmp) /\ \A k \in UnitsOfPlan : Plain(seen[k])
        /\ \A k \in store : ValidFSPath(k)
        /\ \A w \in Worker : worker[w] = "running" => \A k \in body[w].files : ValidFSPath(k)

\* Every file of the shared directory is in the store, or about to be set.
Setting(b, f) == b.at \in {"writing", "set"} /\ f \in b.files
TmpInv ==
    failed = {} /\ PathsClean =>
        \A f \in tmp : f.path \in store \/ \E w \in Worker : worker[w] = "running" /\ Setting(body[w], f.path)

\* What was deployed is what the store has, now as then.
DeployInv ==
    failed = {} /\ perr = NoErr /\ PathsClean /\ Separate =>
        deploy = UNION {SavedFiles(Matched(Declared(a).path)) : a \in written}

\* A validator is the only unit of its task.  The one with the body b has been
\* given what Save writes of each input that does not remain.
Only(t) == <<t, 1>>
GivenSoFar(t, b) ==
    /\ b.at = "exec" => SavedFiles(Given(Units(t)[1])) \subseteq seen[Only(t)]
    /\ b.at \in {"inputs", "saving"} =>
          \A p \in InputsOf(Units(t)[1]) \ Remaining(b) :
              SavedFiles(Matched(p)) \subseteq
                  IF Isolated(Units(t)[1]) THEN seen[Only(t)] ELSE tmp \cup SavedFiles(b.files)
SeenInv ==
    failed = {} /\ PathsClean /\ Separate => \A t \in Tasks : t[2] = 3 =>
        /\ t \notin Begun => seen[Only(t)] = {}
        /\ seen[Only(t)] \subseteq SavedFiles(GivenBelow(Units(t)[1]))
        /\ t \in succeeded => SavedFiles(Given(Units(t)[1])) \subseteq seen[Only(t)]
        /\ \A w \in Worker : worker[w] = "running" /\ task[w] = t => GivenSoFar(t, body[w])

FilesInv ==
    /\ IInv /\ BegunInv
    /\ FilesTypeOK /\ PlaceInv /\ OnceInv /\ TornInv
    /\ PlainInv /\ TmpInv /\ DeployInv /\ SeenInv

-----------------------------------------------------------------------------
(***************************************************************************)
(* Paths.                                                                  *)
(***************************************************************************)

\* Under, segment by segment.
LEMMA UnderExpanded ==
    ASSUME NEW p \in Path, NEW d \in Path
    PROVE  Under(p, d) <=> Len(d) < Len(p) /\ \A i \in 1 .. Len(d) : p[i] = d[i]
<1>1. Len(p) \in Nat /\ Len(d) \in Nat
  BY DEF Path
<1>2. Len(d) <= Len(p) =>
         (SubSeq(d, 1, Len(d)) = SubSeq(p, 1, Len(d)) <=> \A i \in 1 .. Len(d) : p[i] = d[i])
  <2> SUFFICES ASSUME Len(d) <= Len(p)
               PROVE  SubSeq(d, 1, Len(d)) = SubSeq(p, 1, Len(d)) <=> \A i \in 1 .. Len(d) : p[i] = d[i]
    OBVIOUS
  <2> QED
    BY <1>1 DEF Path
<1>3. (Len(d) = Len(p) /\ \A i \in 1 .. Len(d) : p[i] = d[i]) <=> p = d
  BY <1>1 DEF Path
<1> QED
  BY <1>1, <1>2, <1>3 DEF Under, IsStrictPrefix, IsPrefix

\* Two paths with a file in common overlap.
LEMMA CommonFile ==
    ASSUME NEW f \in Path, NEW p \in Path, NEW q \in Path, AtOrUnder(f, p), AtOrUnder(f, q)
    PROVE  Overlap(p, q)
<1>1. Len(f) \in Nat /\ Len(p) \in Nat /\ Len(q) \in Nat
  BY DEF Path
<1>2. /\ Len(p) <= Len(f) /\ \A i \in 1 .. Len(p) : f[i] = p[i]
      /\ Len(q) <= Len(f) /\ \A i \in 1 .. Len(q) : f[i] = q[i]
  BY <1>1, UnderExpanded DEF AtOrUnder
<1>3. CASE Len(p) < Len(q)
  <2>1. \A i \in 1 .. Len(p) : q[i] = p[i]
    BY <1>1, <1>2, <1>3
  <2> QED
    BY <1>3, <2>1, UnderExpanded DEF Overlap
<1>4. CASE Len(q) < Len(p)
  <2>1. \A i \in 1 .. Len(q) : p[i] = q[i]
    BY <1>1, <1>2, <1>4
  <2> QED
    BY <1>4, <2>1, UnderExpanded DEF Overlap
<1>5. CASE Len(p) = Len(q)
  <2>1. \A i \in 1 .. Len(p) : q[i] = p[i]
    BY <1>1, <1>2, <1>5
  <2>2. p = q
    BY <1>5, <2>1 DEF Path
  <2> QED
    BY <2>2 DEF Overlap
<1> QED
  BY <1>1, <1>3, <1>4, <1>5

LEMMA Singleton ==
    ASSUME NEW S, NEW e \in S
    PROVE  <<e>> \in Seq(S) /\ Len(<<e>>) = 1 /\ <<e>> # <<>> /\ <<e>>[1] = e
OBVIOUS

\* A file of a directory lies under it, and is clean when the directory is.
LEMMA FileBelow ==
    ASSUME NEW p \in Path, NEW n \in STRING \ DotSegment
    PROVE  /\ p \o <<n>> \in Path /\ AtOrUnder(p \o <<n>>, p)
           /\ ValidFSPath(p) => ValidFSPath(p \o <<n>>)
<1> DEFINE r == <<n>>
           x == p \o r
           m == Len(p)
<1>1. r \in Path /\ Len(r) = 1 /\ r[1] \notin DotSegment
  BY Singleton, Zenon DEF Path
<1> HIDE DEF r
<1>2. m \in Nat /\ DOMAIN p = 1 .. m
  BY DEF Path
<1>3. /\ x \in Path
      /\ Len(x) = m + Len(r)
      /\ \A i \in 1 .. m + Len(r) : x[i] = IF i <= m THEN p[i] ELSE r[i - m]
  BY <1>1, ConcatProperties, Zenon DEF Path
<1> HIDE DEF x
<1>4. Under(x, p)
  BY <1>1, <1>2, <1>3, UnderExpanded
<1>5. ASSUME ValidFSPath(p) PROVE ValidFSPath(x)
  <2>1. DOMAIN x = 1 .. (m + 1)
    BY <1>1, <1>3 DEF Path
  <2>2. \A i \in 1 .. m : p[i] \notin DotSegment
    BY <1>2, <1>5 DEF ValidFSPath
  <2> HIDE DEF m
  <2>3. ASSUME NEW i \in 1 .. (m + 1) PROVE x[i] \notin DotSegment
    <3>1. CASE i <= m
      BY <1>1, <1>2, <1>3, <2>2, <3>1
    <3>2. CASE ~(i <= m)
      <4>1. i - m = 1
        BY <1>2, <3>2
      <4> QED
        BY <1>1, <1>2, <1>3, <3>2, <4>1
    <3> QED
      BY <3>1, <3>2
  <2> QED
    BY <2>1, <2>3 DEF ValidFSPath
<1> QED
  BY <1>3, <1>4, <1>5 DEF AtOrUnder, x, r

-----------------------------------------------------------------------------
(***************************************************************************)
(* Cleaned paths and the files on a disk.                                  *)
(***************************************************************************)

LEMMA LeastNumber ==
    ASSUME NEW S \in SUBSET Nat, S # {}
    PROVE  \E m \in S : \A k \in S : m <= k
<1>1. PICK m \in S : \A k \in S : <<k, m>> \notin OpToRel(<, Nat)
  BY NatLessThanWellFounded, WFMin
<1>2. \A k \in S : ~(k < m)
  BY <1>1 DEF OpToRel
<1> QED
  BY <1>2

\* Induction, with the predicate as a set.
LEMMA NumbersByInduction ==
    ASSUME NEW S, 0 \in S, \A n \in Nat : n \in S => n + 1 \in S
    PROVE  Nat \subseteq S
<1> SUFFICES ASSUME ~(Nat \subseteq S) PROVE FALSE
  OBVIOUS
<1>1. PICK m \in Nat \ S : \A k \in Nat \ S : m <= k
  BY LeastNumber
<1>2. m # 0 /\ m - 1 \in Nat /\ m - 1 \in S
  BY <1>1
<1> QED
  BY <1>1, <1>2

\* One segment more leaves a path, and the same path with it when it is clean.
LEMMA StepTyped ==
    ASSUME NEW c \in Path, NEW seg \in STRING
    PROVE  /\ CleanStep(c, seg) \in Path
           /\ seg \notin DotSegment => CleanStep(c, seg) = Append(c, seg)
<1>1. c # <<>> => Front(c) \in Path
  <2>1. c # <<>> => Front(c) = SubSeq(c, 1, Len(c) - 1) /\ Len(c) \in Nat /\ Len(c) > 0
    BY DEF Front, Path
  <2>2. \A i \in 1 .. Len(c) : c[i] \in STRING
    BY DEF Path
  <2> QED
    BY <2>1, <2>2, SubSeqProperties DEF Path
<1>2. Append(c, seg) \in Path
  BY AppendProperties DEF Path
<1> QED
  BY <1>1, <1>2 DEF CleanStep, DotSegment

\* What is made of the first n segments of a path.
Cleaned(p) == CHOOSE g : g = [n \in 0 .. Len(p) |-> IF n = 0 THEN <<>> ELSE CleanStep(g[n - 1], p[n])]

LEMMA CleanedDefined ==
    ASSUME NEW p \in Path
    PROVE  Cleaned(p) = [n \in 0 .. Len(p) |-> IF n = 0 THEN <<>> ELSE CleanStep(Cleaned(p)[n - 1], p[n])]
<1> DEFINE Good == {m \in Nat : \E g : g = [n \in 0 .. m |-> IF n = 0 THEN <<>> ELSE CleanStep(g[n - 1], p[n])]}
<1>1. 0 \in Good
  <2> DEFINE g == [n \in 0 .. 0 |-> <<>>]
  <2>1. g = [n \in 0 .. 0 |-> IF n = 0 THEN <<>> ELSE CleanStep(g[n - 1], p[n])]
    OBVIOUS
  <2> QED
    BY <2>1
<1>2. ASSUME NEW m \in Nat, m \in Good PROVE m + 1 \in Good
  <2>1. PICK g : g = [n \in 0 .. m |-> IF n = 0 THEN <<>> ELSE CleanStep(g[n - 1], p[n])]
    BY <1>2
  <2> DEFINE h == [n \in 0 .. (m + 1) |-> IF n = 0 THEN <<>> ELSE CleanStep(g[n - 1], p[n])]
  <2>2. \A n \in 0 .. m : h[n] = g[n]
    BY <2>1
  <2>3. \A n \in 0 .. (m + 1) : n # 0 => h[n - 1] = g[n - 1]
    <3> HIDE DEF h
    <3>1. \A n \in 0 .. (m + 1) : n # 0 => n - 1 \in 0 .. m
      OBVIOUS
    <3> QED
      BY <2>2, <3>1
  <2>4. h = [n \in 0 .. (m + 1) |-> IF n = 0 THEN <<>> ELSE CleanStep(h[n - 1], p[n])]
    BY <2>3
  <2> HIDE DEF h
  <2>5. \E x : x = [n \in 0 .. (m + 1) |-> IF n = 0 THEN <<>> ELSE CleanStep(x[n - 1], p[n])]
    BY <2>4
  <2> QED
    BY <2>5
<1>3. Len(p) \in Nat
  BY DEF Path
<1>4. Len(p) \in Good
  <2> HIDE DEF Good
  <2> QED
    BY <1>1, <1>2, <1>3, NumbersByInduction
<1>5. \E g : g = [n \in 0 .. Len(p) |-> IF n = 0 THEN <<>> ELSE CleanStep(g[n - 1], p[n])]
  BY <1>4
<1> QED
  BY <1>5 DEF Cleaned

\* Cleaning makes a path of a path, and nothing else of one without dots.
LEMMA CleanPath ==
    ASSUME NEW p \in Path
    PROVE  Clean(p) \in Path /\ (ValidFSPath(p) => Clean(p) = p)
<1> DEFINE c == Cleaned(p)
           Part(n) == [i \in 1 .. n |-> p[i]]
           Good == {n \in Nat : n \in 0 .. Len(p) => c[n] \in Path /\ (ValidFSPath(p) => c[n] = Part(n))}
<1>1. Len(p) \in Nat /\ \A i \in 1 .. Len(p) : p[i] \in STRING /\ i \in DOMAIN p
  BY DEF Path
<1>2. \A n \in 0 .. Len(p) : c[n] = IF n = 0 THEN <<>> ELSE CleanStep(c[n - 1], p[n])
  BY CleanedDefined
<1>3. Clean(p) = c[Len(p)]
  BY DEF Clean, Cleaned
<1> HIDE DEF c
<1>4. 0 \in Good
  <2>1. c[0] = <<>> /\ <<>> \in Path
    BY <1>1, <1>2 DEF Path
  <2>2. Part(0) = <<>>
    OBVIOUS
  <2> QED
    BY <2>1, <2>2
<1>5. ASSUME NEW n \in Nat, n \in Good PROVE n + 1 \in Good
  <2> SUFFICES ASSUME n + 1 \in 0 .. Len(p)
               PROVE  c[n + 1] \in Path /\ (ValidFSPath(p) => c[n + 1] = Part(n + 1))
    OBVIOUS
  <2>1. n \in 0 .. Len(p) /\ n + 1 \in 1 .. Len(p) /\ n + 1 # 0 /\ (n + 1) - 1 = n
    BY <1>1
  <2>2. c[n + 1] = CleanStep(c[n], p[n + 1]) /\ c[n] \in Path /\ p[n + 1] \in STRING
    BY <1>1, <1>2, <1>5, <2>1
  <2>3. c[n + 1] \in Path
    BY <2>2, StepTyped
  <2>4. ASSUME ValidFSPath(p) PROVE c[n + 1] = Part(n + 1)
    <3>1. p[n + 1] \notin DotSegment
      BY <1>1, <2>1, <2>4 DEF ValidFSPath
    <3>2. c[n + 1] = Append(Part(n), p[n + 1])
      BY <1>5, <2>1, <2>2, <2>4, <3>1, StepTyped
    <3>3. Part(n) \in Seq(STRING) /\ Len(Part(n)) = n
      BY <1>1, <2>1
    <3>4. Append(Part(n), p[n + 1]) = Part(n + 1)
      <4> DEFINE a == Part(n)
                 s == p[n + 1]
      <4>1. a \in Seq(STRING) /\ Len(a) = n /\ s \in STRING
        BY <2>2, <3>3
      <4>2. \A i \in 1 .. n : a[i] = p[i]
        OBVIOUS
      <4> HIDE DEF a
      <4>3. Append(a, s) = [i \in 1 .. (n + 1) |-> IF i <= n THEN a[i] ELSE s]
        BY <4>1
      <4>4. \A i \in 1 .. (n + 1) : (IF i <= n THEN a[i] ELSE s) = p[i]
        BY <4>2
      <4>5. Append(a, s) = [i \in 1 .. (n + 1) |-> p[i]]
        BY <4>3, <4>4
      <4> QED
        BY <4>5 DEF a
    <3> QED
      BY <3>2, <3>4
  <2> QED
    BY <2>3, <2>4
<1>6. Len(p) \in Good
  <2> HIDE DEF Good
  <2> QED
    BY <1>1, <1>4, <1>5, NumbersByInduction
<1>7. Part(Len(p)) = p
  BY <1>1 DEF Path
<1> QED
  BY <1>1, <1>3, <1>6, <1>7

\* The file of a key, and that of a clean one.
LEMMA SavedTyped ==
    ASSUME NEW k \in Path
    PROVE  /\ SavedFile(k) \in File /\ SavedFile(k).path = Clean(k) /\ Clean(k) \in Path
           /\ ValidFSPath(k) => SavedFile(k) = [path |-> k, content |-> k] /\ Clean(k) = k
<1>1. Clean(k) \in Path /\ (ValidFSPath(k) => Clean(k) = k)
  BY CleanPath
<1> QED
  BY <1>1 DEF SavedFile, File

LEMMA SavedFilesTyped ==
    ASSUME NEW S \in SUBSET Path
    PROVE  SavedFiles(S) \in SUBSET File
BY SavedTyped DEF SavedFiles

\* The files of clean keys.
LEMMA SavedPlain ==
    ASSUME NEW S \in SUBSET Path, \A k \in S : ValidFSPath(k)
    PROVE  SavedFiles(S) \in SUBSET File /\ Plain(SavedFiles(S))
<1>1. \A k \in S : SavedFile(k) \in File /\ SavedFile(k).path = k /\ SavedFile(k).content = k
  BY SavedTyped
<1>2. \A f \in SavedFiles(S) : \E k \in S : f = SavedFile(k)
  BY DEF SavedFiles
<1> QED
  BY <1>1, <1>2 DEF Plain

\* A plain file is that of its path.
LEMMA PlainFile ==
    ASSUME NEW tree \in SUBSET File, Plain(tree), NEW f \in tree
    PROVE  f = SavedFile(f.path) /\ f.path \in Path /\ ValidFSPath(f.path)
<1>1. f \in File /\ f.content = f.path /\ ValidFSPath(f.path) /\ f.path \in Path
  BY DEF Plain, File
<1>2. SavedFile(f.path) = [path |-> f.path, content |-> f.path]
  BY <1>1, SavedTyped
<1> QED
  BY <1>1, <1>2 DEF File

\* Plain files are the same when they have the same path, so nothing is written
\* over and there is one outcome.
LEMMA PlainTrees ==
    ASSUME NEW tree \in SUBSET File, NEW new \in SUBSET File, Plain(new)
    PROVE  /\ Outcomes(new) = {new}
           /\ Plain(tree) => Overwrite(tree, new) = tree \cup new /\ Plain(tree \cup new)
<1>1. \A f, g \in new : f.path = g.path => f = g
  BY PlainFile
<1>2. new \in Outcomes(new)
  BY <1>1 DEF Outcomes, OnePerPath
<1>3. ASSUME NEW S \in Outcomes(new) PROVE S = new
  BY <1>1, <1>3 DEF Outcomes
<1>4. ASSUME Plain(tree) PROVE Overwrite(tree, new) = tree \cup new /\ Plain(tree \cup new)
  <2>1. \A f \in tree, g \in new : f.path = g.path => f = g
    BY <1>4, PlainFile
  <2> QED
    BY <1>4, <2>1 DEF Overwrite, Plain
<1> QED
  BY <1>2, <1>3, <1>4

LEMMA TreesTyped ==
    ASSUME NEW tree \in SUBSET File, NEW new \in SUBSET File
    PROVE  /\ Overwrite(tree, new) \in SUBSET File
           /\ \A S \in Outcomes(new) : S \in SUBSET File /\ Overwrite(tree, S) \in SUBSET File
           /\ \A f \in Overwrite(tree, new) : f \in tree \cup new
BY DEF Overwrite, Outcomes

LEMMA SavedTogether == ASSUME NEW A, NEW B PROVE SavedFiles(A \cup B) = SavedFiles(A) \cup SavedFiles(B)
BY DEF SavedFiles

LEMMA SavedMore == ASSUME NEW A, NEW B, A \subseteq B PROVE SavedFiles(A) \subseteq SavedFiles(B)
BY DEF SavedFiles

LEMMA SavedUnion ==
    ASSUME NEW S, NEW F(_)
    PROVE  SavedFiles(UNION {F(x) : x \in S}) = UNION {SavedFiles(F(x)) : x \in S}
BY DEF SavedFiles

-----------------------------------------------------------------------------
(***************************************************************************)
(* Units and plans.                                                        *)
(***************************************************************************)

\* The units of a task.
LEMMA UnitsType ==
    ASSUME plan \in Plans, NEW t \in Tasks
    PROVE  /\ Units(t) \in Seq(Unit)
           /\ t[2] = 3 => Len(Units(t)) = 1
<1>1. /\ t[1] \in Artifact /\ t[2] \in 1 .. 3 /\ t[3] \in 1 .. Size(t[1], t[2])
  BY TaskShape
<1>2. /\ Declared(t[1]) \in ArtifactDecl
      /\ Len(Declared(t[1]).generators) = Generators[t[1]]
      /\ Len(Declared(t[1]).validators) = Validators[t[1]]
  BY <1>1, FilesAssumption DEF Declared
<1>3. /\ Declared(t[1]).generators \in Seq(Unit) /\ Declared(t[1]).transformers \in Seq(Unit)
      /\ Declared(t[1]).validators \in Seq(Unit)
  BY <1>2 DEF ArtifactDecl
<1>4. CASE t[2] = 1
  <2> DEFINE u == Declared(t[1]).generators[t[3]]
  <2>1. u \in Unit
    BY <1>1, <1>2, <1>3, <1>4, ElementOfSeq DEF Size
  <2>2. Units(t) = <<u>>
    BY <1>4 DEF Units
  <2> HIDE DEF u
  <2> QED
    BY <1>4, <2>1, <2>2, Singleton
<1>5. CASE t[2] = 2
  BY <1>3, <1>5 DEF Units
<1>6. CASE t[2] = 3
  <2> DEFINE u == Declared(t[1]).validators[t[3]]
  <2>1. u \in Unit
    BY <1>1, <1>2, <1>3, <1>6, ElementOfSeq DEF Size
  <2>2. Units(t) = <<u>>
    BY <1>6 DEF Units
  <2> HIDE DEF u
  <2> QED
    BY <2>1, <2>2, Singleton
<1> QED
  BY <1>1, <1>4, <1>5, <1>6

LEMMA SeqOfMore == ASSUME NEW S, NEW T, S \subseteq T, NEW s \in Seq(S) PROVE s \in Seq(T)
OBVIOUS

LEMMA UnitType == ASSUME NEW u \in Unit PROVE u.inputs \in Seq(Path) /\ u.output \in Path
<1>1. u.inputs \in Seq(Path \ {NoPath}) /\ u.output \in Path
  BY DEF Unit
<1>2. Path \ {NoPath} \subseteq Path
  OBVIOUS
<1> QED
  BY <1>1, <1>2, SeqOfMore

LEMMA UnitMade ==
    ASSUME NEW t \in Tasks, NEW i \in DOMAIN Units(t)
    PROVE  /\ <<t, i>> \in UnitsOfPlan /\ UnitAt(<<t, i>>) = Units(t)[i]
           /\ <<t, i>>[1] = t /\ <<t, i>>[2] = i
BY DEF UnitsOfPlan, UnitAt

\* What a unit of the plan is made of.
LEMMA UnitShape ==
    ASSUME plan \in Plans, NEW k \in UnitsOfPlan
    PROVE  /\ k = <<k[1], k[2]>> /\ k[1] \in Tasks /\ k[2] \in DOMAIN Units(k[1]) /\ k[2] \in Nat
           /\ UnitAt(k) \in Unit
           /\ InputsOf(UnitAt(k)) \subseteq Path /\ UnitAt(k).output \in Path
<1>1. PICK t \in Tasks : k \in {t} \X DOMAIN Units(t)
  BY DEF UnitsOfPlan
<1>2. k = <<k[1], k[2]>> /\ k[1] = t /\ k[2] \in DOMAIN Units(t)
  BY <1>1
<1>3. Units(t) \in Seq(Unit)
  BY UnitsType
<1>4. k[2] \in Nat /\ Units(t)[k[2]] \in Unit
  BY <1>2, <1>3, ElementOfSeq
<1>5. UnitAt(k) \in Unit
  BY <1>2, <1>4 DEF UnitAt
<1>6. UnitAt(k).inputs \in Seq(Path) /\ UnitAt(k).output \in Path
  BY <1>5, UnitType
<1>7. InputsOf(UnitAt(k)) \subseteq Path
  BY <1>6, ElementOfSeq DEF InputsOf
<1> QED
  BY <1>1, <1>2, <1>4, <1>5, <1>6, <1>7

\* The paths of different artifacts have no file in common when the plan keeps
\* them separate.
LEMMA SeparateFiles ==
    ASSUME plan \in Plans, Separate, NEW a \in Artifact, NEW b \in Artifact, a # b,
           NEW p \in PathsOf(a), NEW q \in PathsOf(b), NEW f \in Path, AtOrUnder(f, p)
    PROVE  ~AtOrUnder(f, q)
<1>1. ASSUME NEW c \in Artifact PROVE PathsOf(c) \subseteq Path
  <2>1. Declared(c).path \in Path
    <3>1. Declared(c) \in ArtifactDecl
      BY FilesAssumption DEF Declared
    <3> QED
      BY <3>1 DEF ArtifactDecl
  <2>2. \A k \in UnitsOfPlan : DeclaredBy(k) \subseteq Path
    BY UnitShape DEF DeclaredBy
  <2> QED
    BY <2>1, <2>2 DEF PathsOf
<1>2. p \in Path /\ q \in Path
  BY <1>1
<1> QED
  BY <1>2, CommonFile DEF Separate

\* What a unit declares has no dot segments when no path of the plan has.
LEMMA CleanDeclared ==
    ASSUME plan \in Plans, PathsClean, NEW k \in UnitsOfPlan, NEW p \in DeclaredBy(k)
    PROVE  ValidFSPath(p)
<1>1. k[1] \in Tasks
  BY UnitShape
<1>2. k[1][1] \in Artifact
  BY <1>1, TaskIndex
<1>3. p \in PathsOf(k[1][1])
  BY DEF PathsOf
<1> QED
  BY <1>2, <1>3 DEF PathsClean, AllPaths

\* What is fixed by the plan stays as it is.
LEMMA PlanSame ==
    ASSUME plan' = plan
    PROVE  /\ UnitsOfPlan' = UnitsOfPlan /\ Separate' = Separate /\ PathsClean' = PathsClean
           /\ \A t : Units(t)' = Units(t)
           /\ \A k : UnitAt(k)' = UnitAt(k) /\ DeclaredBy(k)' = DeclaredBy(k) /\ (MakesFile(k)' <=> MakesFile(k))
           /\ \A a : Declared(a)' = Declared(a) /\ PathsOf(a)' = PathsOf(a)
           /\ \A s : Supported(s)' = Supported(s)
           /\ \A u : (Isolated(u)' <=> Isolated(u)) /\ (Shared(u)' <=> Shared(u))
<1>1. \A t : Units(t)' = Units(t)
  BY DEF Units, Declared
<1>2. \A k : UnitAt(k)' = UnitAt(k)
  BY <1>1 DEF UnitAt
<1>3. UnitsOfPlan' = UnitsOfPlan
  BY <1>1 DEF UnitsOfPlan
<1>4. \A k : DeclaredBy(k)' = DeclaredBy(k) /\ (MakesFile(k)' <=> MakesFile(k))
  BY <1>2 DEF DeclaredBy, MakesFile
<1>5. \A a : Declared(a)' = Declared(a)
  BY DEF Declared
<1>6. \A a : PathsOf(a)' = PathsOf(a)
  BY <1>3, <1>4, <1>5 DEF PathsOf
<1>7. Separate' = Separate /\ PathsClean' = PathsClean
  BY <1>6 DEF Separate, PathsClean, AllPaths
<1>8. \A s : Supported(s)' = Supported(s)
  BY DEF Supported
<1>9. \A u : (Isolated(u)' <=> Isolated(u)) /\ (Shared(u)' <=> Shared(u))
  BY DEF Isolated, Shared
<1> QED
  BY <1>1, <1>2, <1>3, <1>4, <1>5, <1>6, <1>7, <1>8, <1>9

\* The unit a running body stands at, as a unit of the plan.
Doing(w) == <<task[w], body[w].unit>>

\* Where a running body stands.
LEMMA DoingUnit ==
    ASSUME FilesInv, NEW w \in Worker, worker[w] = "running", body[w].at # "end"
    PROVE  /\ task[w] \in Tasks /\ task[w] \in Running /\ body[w].unit \in DOMAIN Units(task[w])
           /\ Doing(w) \in UnitsOfPlan /\ UnitAt(Doing(w)) = Current(w)
           /\ Doing(w)[1] = task[w] /\ Doing(w)[2] = body[w].unit
           /\ UnitOf(task[w], body[w]) = Current(w)
           /\ Placed(task[w], body[w]) /\ body[w] \in BodyState /\ plan \in Plans
           /\ Current(w) \in Unit
<1>1. /\ task[w] \in Tasks /\ task[w] \in Running
      /\ Placed(task[w], body[w]) /\ body[w] \in BodyState /\ plan \in Plans
  BY DEF FilesInv, IInv, SentInv, PlaceInv, FilesTypeOK, Running
<1>2. body[w].unit \in DOMAIN Units(task[w])
  BY <1>1 DEF Placed
<1>3. Doing(w) \in UnitsOfPlan /\ UnitAt(Doing(w)) = Current(w)
      /\ Doing(w)[1] = task[w] /\ Doing(w)[2] = body[w].unit
  BY <1>1, <1>2, UnitMade DEF Doing, Current
<1> QED
  BY <1>1, <1>2, <1>3, UnitShape DEF UnitOf, Current

\* What a step of a body does to the workers and to the tasks.
LEMMA StepShape ==
    ASSUME TypeOK, body \in [Worker -> BodyState], NEW w \in Worker, worker[w] = "running", NEW next, Step(w, next)
    PROVE  /\ body' = [body EXCEPT ![w] = next] /\ body'[w] = next
           /\ \A v \in Worker \ {w} : body'[v] = body[v] /\ worker'[v] = worker[v]
           /\ UNCHANGED <<plan, deploy, stage, sent, written, perr, task, failed>>
           /\ next.at = "end" => worker'[w] = "idle" /\ succeeded' = succeeded \cup {task[w]}
           /\ next.at # "end" => worker'[w] = "running" /\ succeeded' = succeeded
<1>1. CASE next.at = "end"
  <2>1. Succeed(w)
    BY <1>1 DEF Step
  <2> QED
    BY <1>1, <2>1 DEF TypeOK, Step, Succeed, pipelines
<1>2. CASE next.at # "end"
  <2>1. UNCHANGED vars
    BY <1>2 DEF Step
  <2> QED
    BY <1>2, <2>1 DEF Step, vars, pipelines, pool
<1> QED
  BY <1>1, <1>2

\* The tasks that were begun are the same after a step of a body.
LEMMA StepBegun ==
    ASSUME FilesInv, NEW w \in Worker, worker[w] = "running", NEW next, Step(w, next)
    PROVE  /\ Begun' = Begun
           /\ \A v \in Worker : worker'[v] = "running" <=> worker[v] = "running" /\ (v = w => next.at # "end")
<1>1. TypeOK /\ body \in [Worker -> BodyState]
  BY DEF FilesInv, IInv, FilesTypeOK
<1>2. \A v \in Worker : worker'[v] = "running" <=> worker[v] = "running" /\ (v = w => next.at # "end")
  BY <1>1, StepShape
<1>3. \A v \in Worker : worker[v] = "running" /\ v # w => task[v] # task[w]
  BY DEF FilesInv, BegunInv
<1>4. CASE next.at # "end"
  <2>1. Running' = Running
    BY <1>1, <1>2, <1>4, StepShape DEF Running
  <2> QED
    BY <1>1, <1>4, <2>1, StepShape DEF Begun
<1>5. CASE next.at = "end"
  <2>1. Running' = Running \ {task[w]} /\ task[w] \in Running
    BY <1>1, <1>2, <1>3, <1>5, StepShape DEF Running
  <2> QED
    BY <1>1, <1>5, <2>1, StepShape DEF Begun
<1> QED
  BY <1>2, <1>4, <1>5

\* A place stays one a body may stand at while files are only added.
LEMMA PlacedKept ==
    ASSUME plan' = plan, store \subseteq store', NEW t, NEW b, Placed(t, b)
    PROVE  Placed(t, b)'
<1>1. UnitOf(t, b)' = UnitOf(t, b)
  BY PlanSame DEF UnitOf
<1> QED
  BY <1>1, PlanSame DEF Placed

\* What Save writes of a path stays the same while no file is set at or below it.
LEMMA MatchedKept ==
    ASSUME NEW p, store \subseteq store', \A f \in store' \ store : ~AtOrUnder(f, p)
    PROVE  Matched(p)' = Matched(p)
BY DEF Matched, AtOrUnder

\* The paths a validator reads are paths of its artifact.
LEMMA ValidatorInputs ==
    ASSUME plan \in Plans, NEW t \in Tasks, t[2] = 3
    PROVE  /\ InputsOf(Units(t)[1]) \subseteq PathsOf(t[1]) /\ InputsOf(Units(t)[1]) \subseteq Path
           /\ Only(t) \in UnitsOfPlan /\ UnitAt(Only(t)) = Units(t)[1]
           /\ Only(t)[1] = t /\ InputsOf(Units(t)[1]) \subseteq DeclaredBy(Only(t))
<1>1. 1 \in DOMAIN Units(t)
  BY UnitsType
<1>2. <<t, 1>> \in UnitsOfPlan /\ UnitAt(<<t, 1>>) = Units(t)[1] /\ <<t, 1>>[1] = t
  BY <1>1, UnitMade
<1>3. InputsOf(Units(t)[1]) \subseteq DeclaredBy(<<t, 1>>)
  BY <1>2 DEF DeclaredBy
<1>4. DeclaredBy(<<t, 1>>) \subseteq PathsOf(t[1])
  BY <1>2 DEF PathsOf
<1> QED
  BY <1>2, <1>3, <1>4, UnitShape DEF Only

\* What a unit produces does not belong to an artifact that was written, or that
\* is being validated.
LEMMA Frozen ==
    ASSUME FilesInv, Separate, NEW w \in Worker, worker[w] = "running", body[w].at # "end",
           Producing(Doing(w)), NEW f \in Path, AtOrUnder(f, Current(w).output),
           NEW a \in Artifact, NEW p \in PathsOf(a),
           a \in written \/ \E t \in Begun : t[1] = a /\ t[2] = 3
    PROVE  ~AtOrUnder(f, p)
<1> DEFINE u == task[w]
<1>1. u \in Tasks /\ u \in Running /\ u[1] \in Artifact /\ u[2] \in 1 .. 3 /\ u = <<u[1], u[2], u[3]>>
      /\ u[3] \in 1 .. Size(u[1], u[2])
  BY DoingUnit, TaskShape
<1>2. u[2] # 3
  BY DoingUnit DEF Producing
<1>3. u \notin succeeded \cup failed
  BY <1>1 DEF FilesInv, BegunInv
<1>4. u[1] # a
  <2>1. CASE a \in written /\ u[1] = a
    <3>1. <<u[1], u[2], u[3]>> \in succeeded \cup failed
      BY <1>1, <2>1 DEF FilesInv, IInv, SentInv
    <3> QED
      BY <1>1, <1>3, <3>1
  <2>2. ASSUME NEW t \in Begun, t[1] = a, t[2] = 3, u[1] = a PROVE FALSE
    BY <1>1, <1>2, <1>3, <2>2 DEF FilesInv, BegunInv
  <2> QED
    BY <2>1, <2>2
<1>5. Current(w).output \in PathsOf(u[1])
  <2>1. Doing(w) \in UnitsOfPlan /\ Doing(w)[1] = u /\ UnitAt(Doing(w)) = Current(w)
    BY DoingUnit
  <2>2. Current(w).output \in DeclaredBy(Doing(w))
    BY <2>1 DEF DeclaredBy
  <2> QED
    BY <2>1, <2>2 DEF PathsOf
<1>6. plan \in Plans
  BY DEF FilesInv, FilesTypeOK
<1> HIDE DEF u
<1> QED
  BY <1>1, <1>4, <1>5, <1>6, SeparateFiles

\* Where the k-th unit of a task starts.
LEMMA StartShape ==
    ASSUME plan \in Plans, NEW t \in Tasks, NEW k \in Nat \ {0}
    PROVE  LET b == Start(t, k)
           IN  /\ b \in BodyState /\ b.unit = k /\ b.files = {} /\ b.open = NoPath
               /\ b.at \in {"generate", "inputs", "end"}
               /\ b.at = "end" <=> k > Len(Units(t))
               /\ b.at = "inputs" => b.inputs = Units(t)[k].inputs
               /\ b.at = "generate" => b.inputs = <<>> /\ Units(t)[k].kind \in GeneratorKinds5
<1>1. Units(t) \in Seq(Unit) /\ Len(Units(t)) \in Nat
  BY UnitsType
<1>2. NoPath \in Path /\ <<>> \in Seq(Path)
  BY DEF NoPath, Path
<1>3. CASE k > Len(Units(t))
  <2>1. Start(t, k) = [unit |-> k, at |-> "end", inputs |-> <<>>, files |-> {}, open |-> NoPath]
    BY <1>3 DEF Start
  <2> QED
    BY <1>2, <1>3, <2>1 DEF BodyState, Place
<1>4. CASE ~(k > Len(Units(t))) /\ Units(t)[k].kind \in GeneratorKinds5
  <2>1. Start(t, k) = [unit |-> k, at |-> "generate", inputs |-> <<>>, files |-> {}, open |-> NoPath]
    BY <1>4 DEF Start
  <2> QED
    BY <1>2, <1>4, <2>1 DEF BodyState, Place
<1>5. CASE ~(k > Len(Units(t))) /\ Units(t)[k].kind \notin GeneratorKinds5
  <2>1. Start(t, k) = [unit |-> k, at |-> "inputs", inputs |-> Units(t)[k].inputs, files |-> {}, open |-> NoPath]
    BY <1>5 DEF Start
  <2>2. k \in 1 .. Len(Units(t))
    BY <1>1, <1>5
  <2>3. Units(t)[k] \in Unit
    BY <1>1, <2>2, ElementOfSeq
  <2>4. Units(t)[k].inputs \in Seq(Path)
    BY <2>3, UnitType
  <2> QED
    BY <1>2, <1>5, <2>1, <2>4 DEF BodyState, Place
<1> QED
  BY <1>3, <1>4, <1>5

\* The start of a unit is a place a body may stand at.
LEMMA StartPlaced ==
    ASSUME plan \in Plans, NEW t \in Tasks, NEW k \in Nat \ {0}, k = 1 \/ Start(t, k).at # "end"
    PROVE  Placed(t, Start(t, k))
<1> DEFINE b == Start(t, k)
<1>1. /\ b \in BodyState /\ b.unit = k /\ b.files = {} /\ b.open = NoPath
      /\ b.at \in {"generate", "inputs", "end"}
      /\ b.at = "end" <=> k > Len(Units(t))
      /\ b.at = "inputs" => b.inputs = Units(t)[k].inputs
      /\ b.at = "generate" => b.inputs = <<>> /\ Units(t)[k].kind \in GeneratorKinds5
  BY StartShape
<1>2. k = 1 \/ b.at # "end"
  OBVIOUS
<1> HIDE DEF b
<1>3. Units(t) \in Seq(Unit) /\ Len(Units(t)) \in Nat /\ DOMAIN Units(t) = 1 .. Len(Units(t))
  BY UnitsType
<1>4. IF b.at = "end" THEN Units(t) = <<>> ELSE b.unit \in DOMAIN Units(t)
  BY <1>1, <1>2, <1>3
<1>5. b.at # "end" => Remaining(b) \subseteq InputsOf(UnitOf(t, b))
  BY <1>1 DEF Remaining, InputsOf, UnitOf
<1>6. b.at = "generate" => UnitOf(t, b).kind \in GeneratorKinds5
  BY <1>1 DEF UnitOf
<1> QED
  BY <1>1, <1>4, <1>5, <1>6 DEF Placed, b

\* A body that goes on with its next unit has passed the unit it leaves.
LEMMA NextUnitPasses ==
    ASSUME FilesInv, NEW w \in Worker, worker[w] = "running", body[w].at # "end",
           NEW k \in UnitsOfPlan, k[1] = task[w],
           NextUnit(w).at = "end" \/ PassedBy(task[w], NextUnit(w), k)
    PROVE  k[2] < body[w].unit \/ k = Doing(w)
<1> DEFINE t == task[w]
           n == body[w].unit
<1>1. t \in Tasks /\ plan \in Plans /\ n \in DOMAIN Units(t)
  BY DoingUnit
<1>2. Units(t) \in Seq(Unit)
  BY <1>1, UnitsType
<1>3. n \in Nat \ {0} /\ n + 1 \in Nat \ {0} /\ Len(Units(t)) \in Nat
  BY <1>1, <1>2
<1>4. k = <<k[1], k[2]>> /\ k[2] \in DOMAIN Units(t) /\ k[2] \in Nat
  BY <1>1, UnitShape
<1>5. NextUnit(w) = Start(t, n + 1)
  BY DEF NextUnit
<1>6. /\ NextUnit(w).unit = n + 1 /\ NextUnit(w).at # "set"
      /\ NextUnit(w).at = "end" => n + 1 > Len(Units(t))
  BY <1>1, <1>3, <1>5, StartShape
<1>7. k[2] <= Len(Units(t))
  BY <1>2, <1>4
<1>8. k[2] < n + 1
  BY <1>3, <1>4, <1>6, <1>7 DEF PassedBy
<1> QED
  BY <1>3, <1>4, <1>8 DEF Doing

\* The next unit of a body is a body state, and it stands where it may.
LEMMA NextUnitPlaced ==
    ASSUME FilesInv, NEW w \in Worker, worker[w] = "running", body[w].at # "end"
    PROVE  /\ NextUnit(w) \in BodyState /\ NextUnit(w).at \in {"generate", "inputs", "end"}
           /\ NextUnit(w).at = "end" \/ Placed(task[w], NextUnit(w))
           /\ task[w][2] = 3 => NextUnit(w).at = "end"
           /\ NextUnit(w).files = {}
<1> DEFINE t == task[w]
           n == body[w].unit
<1>1. t \in Tasks /\ plan \in Plans /\ n \in DOMAIN Units(t)
  BY DoingUnit
<1>2. Units(t) \in Seq(Unit) /\ (t[2] = 3 => Len(Units(t)) = 1)
  BY <1>1, UnitsType
<1>3. n \in Nat \ {0} /\ n + 1 \in Nat \ {0} /\ Len(Units(t)) \in Nat
  BY <1>1, <1>2
<1>4. NextUnit(w) = Start(t, n + 1)
  BY DEF NextUnit
<1>5. ASSUME t[2] = 3 PROVE n + 1 > Len(Units(t))
  <2>1. Len(Units(t)) = 1
    BY <1>2, <1>5
  <2> QED
    BY <1>3, <2>1
<1> QED
  BY <1>1, <1>3, <1>4, <1>5, StartShape, StartPlaced

-----------------------------------------------------------------------------
(***************************************************************************)
(* The obligation of a step of a body, and the steps one by one.           *)
(***************************************************************************)

\* What a step of a body owes the invariant.  Each conjunct names the part of
\* FilesInv it keeps; the rest of the state is as it was.
StepKeeps(w, next) ==
    /\ next \in BodyState
    /\ store' \in SUBSET Path /\ tmp' \in SUBSET File /\ torn' \in SUBSET Path
    /\ seen' \in [UnitsOfPlan -> SUBSET File]
    /\ store \subseteq store'
    /\ \A f \in store' \ store :
          body[w].at # "end" /\ Producing(Doing(w)) /\ AtOrUnder(f, Current(w).output)
    /\ next.at = "end" \/ Placed(task[w], next)'
    /\ \A k \in UnitsOfPlan :
          k[1] = task[w] /\ MakesFile(k) /\ (next.at = "end" \/ PassedBy(task[w], next, k)) =>
              \/ PassedBy(task[w], body[w], k)
              \/ k = Doing(w) /\ UnitAt(k).output \notin store /\ UnitAt(k).output \in store'
    /\ \A f \in torn' : (f \in torn /\ ~Rewriting(body[w], f)) \/ Rewriting(next, f)
    /\ \A k \in UnitsOfPlan : k[1] # task[w] => seen'[k] = seen[k]
    /\ PathsClean =>
          /\ tmp \subseteq tmp' /\ Plain(tmp') /\ \A k \in UnitsOfPlan : k[1] = task[w] => Plain(seen'[k])
          /\ \A k \in store' \cup next.files : ValidFSPath(k)
          /\ failed = {} => \A f \in tmp' :
                (f \in tmp /\ ~Setting(body[w], f.path)) \/ f.path \in store' \/ Setting(next, f.path)
    /\ failed = {} /\ PathsClean /\ Separate /\ task[w][2] = 3 =>
          /\ seen'[Only(task[w])] \subseteq SavedFiles(GivenBelow(Units(task[w])[1])')
          /\ IF next.at = "end" THEN SavedFiles(Given(Units(task[w])[1])') \subseteq seen'[Only(task[w])]
             ELSE GivenSoFar(task[w], next)'

\* A step that keeps its part keeps the invariant: the other bodies stand where
\* they did, and the paths it adds to the store lie under no path they rely on.
LEMMA StepFilesInv ==
    ASSUME FilesInv, NEW w \in Worker, worker[w] = "running", NEW next, Step(w, next), StepKeeps(w, next)
    PROVE  FilesInv'
<1> DEFINE t == task[w]
<1>1. TypeOK /\ body \in [Worker -> BodyState] /\ IInv /\ BegunInv /\ plan \in Plans
  BY DEF FilesInv, IInv, FilesTypeOK
<1>2. /\ body' = [body EXCEPT ![w] = next] /\ body'[w] = next
      /\ \A v \in Worker \ {w} : body'[v] = body[v] /\ worker'[v] = worker[v]
      /\ UNCHANGED <<plan, deploy, stage, sent, written, perr, task, failed>>
      /\ next.at = "end" => succeeded' = succeeded \cup {t}
      /\ next.at # "end" => succeeded' = succeeded
  BY <1>1, StepShape
<1>3. /\ Begun' = Begun
      /\ \A v \in Worker : worker'[v] = "running" <=> worker[v] = "running" /\ (v = w => next.at # "end")
  BY StepBegun
<1>4. t \in Running /\ t \in Begun /\ t \in Tasks /\ t \notin succeeded
  <2>1. t \in Running
    BY DEF Running
  <2> QED
    BY <1>1, <2>1, BegunTasks DEF Begun, BegunInv, IInv
<1>5. \A v \in Worker : worker[v] = "running" /\ v # w => task[v] # t
  BY <1>1 DEF BegunInv
<1>6. /\ UnitsOfPlan' = UnitsOfPlan /\ Separate' = Separate /\ PathsClean' = PathsClean
      /\ \A u : Units(u)' = Units(u)
      /\ \A k : UnitAt(k)' = UnitAt(k) /\ DeclaredBy(k)' = DeclaredBy(k) /\ (MakesFile(k)' <=> MakesFile(k))
      /\ \A a : Declared(a)' = Declared(a) /\ PathsOf(a)' = PathsOf(a)
      /\ \A u : Isolated(u)' <=> Isolated(u)
  BY <1>2, PlanSame
<1>7. store \subseteq store' /\ (PathsClean => tmp \subseteq tmp') /\ store' \in SUBSET Path
  BY DEF StepKeeps
<1> HIDE DEF t
<1>8. [Next]_vars
  <2>1. Succeed(w) \/ UNCHANGED vars
    BY DEF Step
  <2> QED
    BY <2>1 DEF Next, Work
<1>9. IInv' /\ BegunInv'
  BY <1>1, <1>8, NextIInv, BegunStep
<1>10. FilesTypeOK'
  BY <1>1, <1>2, <1>6 DEF FilesTypeOK, StepKeeps
<1>11. PlaceInv'
  <2> SUFFICES ASSUME NEW v \in Worker, worker'[v] = "running" PROVE Placed(task[v], body[v])'
    BY DEF PlaceInv
  <2>1. CASE v = w
    BY <1>2, <1>3, <2>1 DEF StepKeeps
  <2>2. CASE v # w
    <3>1. PICK u, b : u = task[v] /\ b = body[v]
      OBVIOUS
    <3>2. Placed(u, b)
      BY <1>3, <2>2, <3>1 DEF FilesInv, PlaceInv
    <3>3. Placed(u, b)'
      BY <1>2, <1>7, <3>2, PlacedKept
    <3> QED
      BY <1>2, <2>2, <3>1, <3>3
  <2> QED
    BY <2>1, <2>2
<1>12. OnceInv'
  <2>1. ASSUME NEW k \in UnitsOfPlan, Passed(k)', MakesFile(k)
        PROVE  \/ Passed(k)
               \/ k = Doing(w) /\ UnitAt(k).output \notin store /\ UnitAt(k).output \in store'
    <3>1. CASE k[1] \in succeeded
      BY <3>1 DEF Passed
    <3>2. CASE k[1] = t /\ next.at = "end"
      <4>1. \/ PassedBy(t, body[w], k)
            \/ k = Doing(w) /\ UnitAt(k).output \notin store /\ UnitAt(k).output \in store'
        BY <2>1, <3>2 DEF StepKeeps, t
      <4> QED
        BY <4>1 DEF Passed, t
    <3>3. ASSUME NEW v \in Worker, worker'[v] = "running", PassedBy(task[v], body'[v], k)
          PROVE  \/ Passed(k)
                 \/ k = Doing(w) /\ UnitAt(k).output \notin store /\ UnitAt(k).output \in store'
      <4>1. CASE v # w
        BY <1>2, <1>3, <3>3, <4>1 DEF Passed
      <4>2. CASE v = w
        <5>1. PassedBy(t, next, k) /\ k[1] = t
          BY <1>2, <3>3, <4>2 DEF PassedBy, t
        <5>2. \/ PassedBy(t, body[w], k)
              \/ k = Doing(w) /\ UnitAt(k).output \notin store /\ UnitAt(k).output \in store'
          BY <2>1, <5>1 DEF StepKeeps, t
        <5> QED
          BY <5>2 DEF Passed, t
      <4> QED
        BY <4>1, <4>2
    <3>4. \/ k[1] \in succeeded'
          \/ \E v \in Worker : worker'[v] = "running" /\ PassedBy(task[v], body'[v], k)
      BY <1>2, <1>6, <2>1 DEF Passed, PassedBy
    <3> QED
      BY <1>2, <3>1, <3>2, <3>3, <3>4
  <2>2. \A j \in UnitsOfPlan : Passed(j) /\ MakesFile(j) =>
            /\ UnitAt(j).output \in store
            /\ \A k \in UnitsOfPlan : k # j /\ Passed(k) /\ MakesFile(k) => UnitAt(j).output # UnitAt(k).output
    BY DEF FilesInv, OnceInv
  <2>3. ASSUME NEW j \in UnitsOfPlan, Passed(j)', MakesFile(j) PROVE UnitAt(j).output \in store'
    BY <1>7, <2>1, <2>2, <2>3
  <2>4. ASSUME NEW j \in UnitsOfPlan, NEW k \in UnitsOfPlan, Passed(j)', Passed(k)',
               MakesFile(j), MakesFile(k), j # k
        PROVE  UnitAt(j).output # UnitAt(k).output
    BY <2>1, <2>2, <2>4
  <2> QED
    BY <1>6, <2>3, <2>4 DEF OnceInv
<1>13. TornInv'
  <2>0. \A p : FilesOf(p) \subseteq FilesOf(p)'
    BY <1>7 DEF FilesOf
  <2> SUFFICES ASSUME NEW f \in torn'
               PROVE  \/ \E v \in Worker : worker'[v] = "running" /\ Rewriting(body'[v], f)
                      \/ \E k \in UnitsOfPlan : k[1] \in failed /\ \E p \in DeclaredBy(k) : f \in FilesOf(p)'
    BY <1>2, <1>6 DEF TornInv
  <2>1. CASE Rewriting(next, f)
    BY <1>2, <1>3, <2>1 DEF Rewriting
  <2>2. CASE f \in torn /\ ~Rewriting(body[w], f)
    <3>1. \/ \E v \in Worker : worker[v] = "running" /\ Rewriting(body[v], f)
          \/ \E k \in UnitsOfPlan : k[1] \in failed /\ \E p \in DeclaredBy(k) : f \in FilesOf(p)
      BY <2>2 DEF FilesInv, TornInv
    <3>2. ASSUME NEW v \in Worker, worker[v] = "running", Rewriting(body[v], f)
          PROVE  worker'[v] = "running" /\ Rewriting(body'[v], f)
      BY <1>2, <1>3, <2>2, <3>2
    <3> QED
      BY <2>0, <3>1, <3>2
  <2> QED
    BY <2>1, <2>2 DEF StepKeeps
<1>14. TmpInv'
  <2> SUFFICES ASSUME failed = {}, PathsClean, NEW f \in tmp', f.path \notin store'
               PROVE  \E v \in Worker : worker'[v] = "running" /\ Setting(body'[v], f.path)
    BY <1>2, <1>6 DEF TmpInv
  <2>1. CASE Setting(next, f.path)
    BY <1>2, <1>3, <2>1 DEF Setting
  <2>2. CASE f \in tmp /\ ~Setting(body[w], f.path)
    <3>1. PICK v \in Worker : worker[v] = "running" /\ Setting(body[v], f.path)
      BY <1>7, <2>2 DEF FilesInv, TmpInv
    <3> QED
      BY <1>2, <1>3, <2>2, <3>1
  <2> QED
    BY <2>1, <2>2 DEF StepKeeps
<1>15. PlainInv'
  <2> SUFFICES ASSUME PathsClean
               PROVE  /\ Plain(tmp') /\ \A k \in UnitsOfPlan : Plain(seen'[k])
                      /\ \A k \in store' : ValidFSPath(k)
                      /\ \A v \in Worker : worker'[v] = "running" => \A k \in body'[v].files : ValidFSPath(k)
    BY <1>6 DEF PlainInv, Plain
  <2>1. /\ \A k \in UnitsOfPlan : Plain(seen[k])
        /\ \A v \in Worker : worker[v] = "running" => \A k \in body[v].files : ValidFSPath(k)
    BY DEF FilesInv, PlainInv
  <2>2. /\ Plain(tmp') /\ \A k \in store' \cup next.files : ValidFSPath(k)
        /\ \A k \in UnitsOfPlan : Plain(seen'[k])
    BY <2>1 DEF StepKeeps
  <2>3. \A v \in Worker : worker'[v] = "running" => \A k \in body'[v].files : ValidFSPath(k)
    BY <1>2, <1>3, <2>1, <2>2
  <2> QED
    BY <2>2, <2>3
<1>16. ASSUME Separate, NEW a \in Artifact, NEW p \in PathsOf(a), a \in written \/ \E u \in Begun : u[1] = a /\ u[2] = 3
       PROVE  Matched(p)' = Matched(p)
  <2>1. ASSUME NEW f \in store' \ store PROVE ~AtOrUnder(f, p)
    <3>1. body[w].at # "end" /\ Producing(Doing(w)) /\ AtOrUnder(f, Current(w).output) /\ f \in Path
      BY <1>7 DEF StepKeeps
    <3> QED
      BY <1>16, <3>1, Frozen
  <2> QED
    BY <1>7, <2>1, MatchedKept
<1>17. DeployInv'
  <2> SUFFICES ASSUME failed = {}, perr = NoErr, PathsClean, Separate
               PROVE  deploy = UNION {SavedFiles(Matched(Declared(a).path)') : a \in written}
    BY <1>2, <1>6 DEF DeployInv
  <2>1. deploy = UNION {SavedFiles(Matched(Declared(a).path)) : a \in written}
    BY DEF FilesInv, DeployInv
  <2>2. \A a \in written : a \in Artifact /\ Declared(a).path \in PathsOf(a)
    BY <1>1 DEF TypeOK, PathsOf
  <2>3. \A a \in written : Matched(Declared(a).path)' = Matched(Declared(a).path)
    BY <1>6, <1>16, <2>2
  <2> QED
    BY <2>1, <2>3
<1>18. SeenInv'
  <2> SUFFICES ASSUME failed = {}, PathsClean, Separate, NEW u \in Tasks, u[2] = 3
               PROVE  /\ u \notin Begun => seen'[Only(u)] = {}
                      /\ seen'[Only(u)] \subseteq SavedFiles(GivenBelow(Units(u)[1])')
                      /\ u \in succeeded' => SavedFiles(Given(Units(u)[1])') \subseteq seen'[Only(u)]
                      /\ \A v \in Worker : worker'[v] = "running" /\ task[v] = u => GivenSoFar(u, body[v])'
    BY <1>2, <1>3, <1>6 DEF SeenInv
  <2>1. CASE u = t
    <3>1. /\ seen'[Only(u)] \subseteq SavedFiles(GivenBelow(Units(u)[1])')
          /\ IF next.at = "end" THEN SavedFiles(Given(Units(u)[1])') \subseteq seen'[Only(u)] ELSE GivenSoFar(u, next)'
      BY <1>2, <2>1 DEF StepKeeps, t
    <3>2. u \in succeeded' => next.at = "end"
      BY <1>2, <1>4, <2>1
    <3>3. \A v \in Worker : worker'[v] = "running" /\ task[v] = u => v = w /\ next.at # "end"
      BY <1>3, <1>5, <2>1
    <3>4. next.at # "end" => GivenSoFar(u, body[w])'
      BY <1>2, <3>1
    <3>5. \A v \in Worker : worker'[v] = "running" /\ task[v] = u => GivenSoFar(u, body[v])'
      BY <3>3, <3>4
    <3> QED
      BY <1>4, <2>1, <3>1, <3>2, <3>5
  <2>2. CASE u # t
    <3>1. /\ u \notin Begun => seen[Only(u)] = {}
          /\ seen[Only(u)] \subseteq SavedFiles(GivenBelow(Units(u)[1]))
          /\ u \in succeeded => SavedFiles(Given(Units(u)[1])) \subseteq seen[Only(u)]
          /\ \A v \in Worker : worker[v] = "running" /\ task[v] = u => GivenSoFar(u, body[v])
      BY DEF FilesInv, SeenInv
    <3>2. seen'[Only(u)] = seen[Only(u)]
      <4>1. Only(u) \in UnitsOfPlan /\ Only(u)[1] = u
        BY <1>1, ValidatorInputs
      <4> QED
        BY <2>2, <4>1 DEF StepKeeps, t
    <3>3. SavedFiles(GivenBelow(Units(u)[1])) \subseteq SavedFiles(GivenBelow(Units(u)[1])')
      <4>1. GivenBelow(Units(u)[1]) \subseteq GivenBelow(Units(u)[1])'
        BY <1>6, <1>7 DEF GivenBelow
      <4> QED
        BY <4>1, SavedMore
    <3>4. InputsOf(Units(u)[1]) \subseteq PathsOf(u[1]) /\ u[1] \in Artifact
      BY <1>1, ValidatorInputs, TaskShape
    <3>5. ASSUME u \in Begun, NEW p \in InputsOf(Units(u)[1]) PROVE Matched(p)' = Matched(p)
      BY <1>16, <3>4, <3>5
    <3>6. u \in Begun => Given(Units(u)[1])' = Given(Units(u)[1])
      BY <1>6, <3>5 DEF Given
    <3>7. ASSUME NEW v \in Worker, worker'[v] = "running", task[v] = u PROVE GivenSoFar(u, body[v])'
      <4>1. v # w /\ worker[v] = "running" /\ body'[v] = body[v]
        BY <1>2, <1>3, <2>2, <3>7 DEF t
      <4>2. u \in Begun
        BY <3>7, <4>1 DEF Begun, Running
      <4>3. GivenSoFar(u, body[v])
        BY <3>1, <3>7, <4>1
      <4>4. body[v].at = "exec" => SavedFiles(Given(Units(u)[1])') \subseteq seen'[Only(u)]
        BY <3>2, <3>6, <4>2, <4>3 DEF GivenSoFar
      <4>5. ASSUME body[v].at \in {"inputs", "saving"}, NEW p \in InputsOf(Units(u)[1]) \ Remaining(body[v])
            PROVE  SavedFiles(Matched(p)') \subseteq
                       IF Isolated(Units(u)[1]) THEN seen'[Only(u)] ELSE tmp' \cup SavedFiles(body[v].files)
        <5>1. SavedFiles(Matched(p)) \subseteq
                  IF Isolated(Units(u)[1]) THEN seen[Only(u)] ELSE tmp \cup SavedFiles(body[v].files)
          BY <4>3, <4>5 DEF GivenSoFar
        <5>2. Matched(p)' = Matched(p)
          BY <3>5, <4>2
        <5> QED
          BY <1>7, <3>2, <5>1, <5>2
      <4> QED
        BY <1>6, <4>1, <4>4, <4>5 DEF GivenSoFar
    <3>8. u \in succeeded' => u \in succeeded /\ u \in Begun
      BY <1>2, <2>2 DEF Begun
    <3> QED
      BY <3>1, <3>2, <3>3, <3>6, <3>7, <3>8
  <2> QED
    BY <2>1, <2>2
<1> QED
  BY <1>9, <1>10, <1>11, <1>12, <1>13, <1>14, <1>15, <1>17, <1>18 DEF FilesInv

\* A body at a place of a unit runs a kind its stage has.
LEMMA AtPlace ==
    ASSUME FilesInv, NEW w \in Worker, NEW place \in Place \ {"end"}, In(w, place)
    PROVE  /\ worker[w] = "running" /\ body[w].at = place /\ body[w].at # "end"
           /\ Current(w).kind \in GeneratorKinds5 => task[w][2] = 1
           /\ Current(w).kind \in TransformerKinds5 => task[w][2] = 2
           /\ Current(w).kind = "Command" => task[w][2] # 3
           /\ Current(w).kind = "Validator" <=> task[w][2] = 3
           /\ Current(w).kind \in Supported(task[w][2])
           /\ Producing(Doing(w)) <=> task[w][2] # 3
           /\ Current(w).output \in Path /\ Current(w).inputs \in Seq(Path)
           /\ InputsOf(Current(w)) \subseteq Path
           /\ task[w][2] = 3 => Current(w) = Units(task[w])[1] /\ task[w] \in Tasks /\ task[w] \in Begun
<1>1. worker[w] = "running" /\ body[w].at = place /\ body[w].at # "end" /\ Current(w).kind \in Supported(task[w][2])
  BY DEF In
<1>2. /\ task[w] \in Tasks /\ task[w] \in Running /\ body[w].unit \in DOMAIN Units(task[w])
      /\ Doing(w)[1] = task[w] /\ plan \in Plans /\ Current(w) \in Unit
      /\ Doing(w) \in UnitsOfPlan /\ UnitAt(Doing(w)) = Current(w)
  BY <1>1, DoingUnit
<1>3. task[w][2] \in 1 .. 3
  BY <1>2, TaskIndex
<1>4. /\ Current(w).kind \in GeneratorKinds5 => task[w][2] = 1
      /\ Current(w).kind \in TransformerKinds5 => task[w][2] = 2
      /\ Current(w).kind = "Command" => task[w][2] # 3
      /\ Current(w).kind = "Validator" <=> task[w][2] = 3
  <2>1. CASE task[w][2] = 1
    BY <1>1, <2>1 DEF Supported, GeneratorKinds5, GeneratorKinds6, TransformerKinds5
  <2>2. CASE task[w][2] = 2
    BY <1>1, <2>2 DEF Supported, GeneratorKinds5, TransformerKinds5, TransformerKinds6
  <2>3. CASE task[w][2] = 3
    BY <1>1, <2>3 DEF Supported, GeneratorKinds5, TransformerKinds5
  <2> QED
    BY <1>3, <2>1, <2>2, <2>3
<1>5. Producing(Doing(w)) <=> task[w][2] # 3
  BY <1>2 DEF Producing
<1>6. Current(w).output \in Path /\ Current(w).inputs \in Seq(Path)
  BY <1>2, UnitType
<1>7. InputsOf(Current(w)) \subseteq Path
  BY <1>2, UnitShape
<1>8. ASSUME task[w][2] = 3 PROVE Current(w) = Units(task[w])[1]
  <2>1. Units(task[w]) \in Seq(Unit) /\ Len(Units(task[w])) = 1
    BY <1>2, <1>8, UnitsType
  <2>2. body[w].unit = 1
    BY <1>2, <2>1
  <2> QED
    BY <2>2 DEF Current
<1> QED
  BY <1>1, <1>2, <1>4, <1>5, <1>6, <1>7, <1>8 DEF Begun

\* A body that stays with its unit.
LEMMA SameUnit ==
    ASSUME FilesInv, NEW w \in Worker, worker[w] = "running", body[w].at # "end",
           NEW next, next.unit = body[w].unit
    PROVE  /\ UnitOf(task[w], next) = Current(w) /\ next.unit \in DOMAIN Units(task[w])
           /\ \A k \in UnitsOfPlan : PassedBy(task[w], next, k) =>
                 \/ PassedBy(task[w], body[w], k)
                 \/ k = Doing(w) /\ next.at = "set" /\ next.files # {} /\ Current(w).output \notin next.files
<1>1. /\ task[w] \in Tasks /\ plan \in Plans /\ body[w].unit \in DOMAIN Units(task[w])
      /\ Doing(w) \in UnitsOfPlan /\ UnitAt(Doing(w)) = Current(w)
  BY DoingUnit
<1>2. ASSUME NEW k \in UnitsOfPlan, k[1] = task[w], k[2] = body[w].unit PROVE k = Doing(w)
  BY <1>1, <1>2, UnitShape DEF Doing
<1> QED
  BY <1>1, <1>2 DEF UnitOf, Current, PassedBy

\* The place a body goes to stays one it may stand at.
LEMMA PlacedNext ==
    ASSUME FilesInv, NEW w \in Worker, worker[w] = "running", NEW next, Step(w, next), Placed(task[w], next),
           store \subseteq store'
    PROVE  Placed(task[w], next)'
<1>1. PICK t : t = task[w]
  OBVIOUS
<1>2. UNCHANGED <<plan, task>>
  BY StepShape DEF FilesInv, IInv, FilesTypeOK
<1>3. Placed(t, next)'
  BY <1>1, <1>2, PlacedKept
<1> QED
  BY <1>1, <1>2, <1>3

LEMMA GenerateInv == ASSUME FilesInv, NEW w \in Worker, Generate(w) PROVE FilesInv'
<1> DEFINE out == Current(w).output
<1>1. PICK next : next = NextUnit(w) /\ Step(w, next)
  BY DEF Generate
<1>2. In(w, "generate") /\ out \notin store /\ store' = store \cup {out} /\ UNCHANGED <<seen, tmp, torn>>
  BY DEF Generate, Settable
<1>3. /\ worker[w] = "running" /\ body[w].at = "generate" /\ out \in Path
      /\ Producing(Doing(w)) /\ task[w][2] # 3
      /\ UnitAt(Doing(w)) = Current(w)
  <2>1. worker[w] = "running" /\ body[w].at = "generate"
    BY <1>2 DEF In
  <2>2. Current(w).kind \in GeneratorKinds5
    BY <2>1, DoingUnit DEF Placed
  <2> QED
    BY <1>2, <2>1, <2>2, AtPlace, DoingUnit DEF Place
<1>4. /\ next \in BodyState /\ next.at \in {"generate", "inputs", "end"}
      /\ next.at = "end" \/ Placed(task[w], next)
      /\ next.files = {}
  BY <1>1, <1>3, NextUnitPlaced
<1>5. ASSUME NEW k \in UnitsOfPlan, k[1] = task[w], next.at = "end" \/ PassedBy(task[w], next, k)
      PROVE  PassedBy(task[w], body[w], k) \/ (k = Doing(w) /\ UnitAt(k).output \notin store /\ UnitAt(k).output \in store')
  <2>1. k[2] < body[w].unit \/ k = Doing(w)
    BY <1>1, <1>3, <1>5, NextUnitPasses
  <2> QED
    BY <1>2, <1>3, <1>5, <2>1 DEF PassedBy
<1>6. next.at = "end" \/ Placed(task[w], next)'
  BY <1>1, <1>2, <1>3, <1>4, PlacedNext
<1>7. PathsClean => ValidFSPath(out)
  <2>1. Doing(w) \in UnitsOfPlan /\ plan \in Plans
    BY <1>3, DoingUnit
  <2>2. out \in DeclaredBy(Doing(w))
    BY <1>3 DEF DeclaredBy
  <2> QED
    BY <2>1, <2>2, CleanDeclared
<1>8. PathsClean =>
         /\ Plain(tmp') /\ \A k \in UnitsOfPlan : Plain(seen'[k])
         /\ \A k \in store' \cup next.files : ValidFSPath(k)
  BY <1>2, <1>4, <1>7 DEF FilesInv, PlainInv
<1>9. /\ store' \in SUBSET Path /\ tmp' \in SUBSET File /\ torn' \in SUBSET Path
      /\ seen' \in [UnitsOfPlan -> SUBSET File]
  BY <1>2, <1>3 DEF FilesInv, FilesTypeOK
<1>10. \A f : ~Rewriting(body[w], f) /\ ~Setting(body[w], f)
  BY <1>3 DEF Rewriting, Setting
<1>11. \A f \in store' \ store :
          body[w].at # "end" /\ Producing(Doing(w)) /\ AtOrUnder(f, Current(w).output)
  BY <1>2, <1>3 DEF AtOrUnder
<1> HIDE DEF out
<1>12. StepKeeps(w, next)
  BY <1>2, <1>3, <1>4, <1>5, <1>6, <1>8, <1>9, <1>10, <1>11 DEF StepKeeps
<1> QED
  BY <1>1, <1>3, <1>12, StepFilesInv

\* The next input, and what remains after it.
LEMMA NextInput ==
    ASSUME FilesInv, NEW w \in Worker, In(w, "inputs"), body[w].inputs # <<>>
    PROVE  /\ Head(body[w].inputs) \in InputsOf(Current(w)) /\ Tail(body[w].inputs) \in Seq(Path)
           /\ \A next : next.inputs = Tail(body[w].inputs) =>
                 Remaining(body[w]) = Remaining(next) \cup {Head(body[w].inputs)}
<1> DEFINE s == body[w].inputs
<1>1. worker[w] = "running" /\ body[w].at = "inputs"
  BY DEF In
<1>2. body[w] \in BodyState /\ Placed(task[w], body[w]) /\ UnitOf(task[w], body[w]) = Current(w)
  BY <1>1, DoingUnit
<1>3. s \in Seq(Path) /\ s # <<>> /\ Remaining(body[w]) \subseteq InputsOf(Current(w))
  BY <1>1, <1>2 DEF BodyState, Placed
<1>4. ASSUME NEW S, NEW q \in Seq(S), q # <<>>
      PROVE  {q[i] : i \in DOMAIN q} = {Tail(q)[i] : i \in DOMAIN Tail(q)} \cup {Head(q)}
  <2>1. Tail(q) \in Seq(S) /\ Len(Tail(q)) = Len(q) - 1 /\ Len(q) \in Nat \ {0} /\ Head(q) = q[1]
        /\ \A i \in 1 .. Len(Tail(q)) : Tail(q)[i] = q[i + 1]
    BY <1>4
  <2>2. DOMAIN q = 1 .. Len(q) /\ DOMAIN Tail(q) = 1 .. Len(q) - 1
    BY <1>4, <2>1
  <2>3. \A i \in DOMAIN q : i = 1 \/ (i - 1 \in DOMAIN Tail(q) /\ Tail(q)[i - 1] = q[i])
    BY <2>1, <2>2
  <2>4. \A i \in DOMAIN Tail(q) : i + 1 \in DOMAIN q /\ Tail(q)[i] = q[i + 1]
    BY <2>1, <2>2
  <2>5. 1 \in DOMAIN q
    BY <2>1, <2>2
  <2> DEFINE r == Tail(q)
  <2>6. ASSUME NEW i \in DOMAIN q PROVE q[i] = Head(q) \/ \E j \in DOMAIN r : q[i] = r[j]
    BY <2>1, <2>3
  <2>7. ASSUME NEW j \in DOMAIN r PROVE \E i \in DOMAIN q : r[j] = q[i]
    BY <2>4
  <2>8. \E i \in DOMAIN q : Head(q) = q[i]
    BY <2>1, <2>5
  <2> HIDE DEF r
  <2>9. {q[i] : i \in DOMAIN q} = {r[i] : i \in DOMAIN r} \cup {Head(q)}
    <3>1. \A x \in {q[i] : i \in DOMAIN q} : x \in {r[i] : i \in DOMAIN r} \cup {Head(q)}
      BY <2>6
    <3>2. \A x \in {r[i] : i \in DOMAIN r} \cup {Head(q)} : x \in {q[i] : i \in DOMAIN q}
      BY <2>7, <2>8
    <3> QED
      BY <3>1, <3>2
  <2> QED
    BY <2>9 DEF r
<1>5. Tail(s) \in Seq(Path)
  BY <1>3
<1>6. {s[i] : i \in DOMAIN s} = {Tail(s)[i] : i \in DOMAIN Tail(s)} \cup {Head(s)}
  BY <1>3, <1>4
<1>7. Remaining(body[w]) = {s[i] : i \in DOMAIN s}
  BY DEF Remaining
<1>8. Head(s) \in Remaining(body[w])
  BY <1>6, <1>7
<1>9. \A next : next.inputs = Tail(s) => Remaining(next) = {Tail(s)[i] : i \in DOMAIN Tail(s)}
  BY DEF Remaining
<1> HIDE DEF s
<1>10. Head(s) \in InputsOf(Current(w)) /\ \A next : next.inputs = Tail(s) => Remaining(body[w]) = Remaining(next) \cup {Head(s)}
  BY <1>3, <1>6, <1>7, <1>8, <1>9
<1> QED
  BY <1>5, <1>10 DEF s

\* Files of the store that match an input were given to its unit.
LEMMA MatchedGiven ==
    ASSUME NEW u, NEW p \in InputsOf(u)
    PROVE  Matched(p) \subseteq GivenBelow(u) /\ \A f \in Matched(p) : AtOrUnder(f, p) /\ f \in store
BY DEF Matched, GivenBelow, AtOrUnder

\* What Save writes of clean keys.
LEMMA MatchedPlain ==
    ASSUME FilesInv, NEW p
    PROVE  /\ SavedFiles(Matched(p)) \in SUBSET File
           /\ PathsClean => Plain(SavedFiles(Matched(p)))
<1>1. Matched(p) \in SUBSET Path /\ Matched(p) \subseteq store
  BY DEF FilesInv, FilesTypeOK, Matched
<1>2. PathsClean => \A k \in Matched(p) : ValidFSPath(k)
  BY <1>1 DEF FilesInv, PlainInv
<1> QED
  BY <1>1, <1>2, SavedPlain, SavedFilesTyped

\* What a unit has after an input: what it had, and files of the store.
LEMMA InputHad ==
    ASSUME FilesInv, NEW w \in Worker, NEW p, SaveIsolated(w, p) \/ GetInput(w, p)
    PROVE  \E files \in SUBSET File :
               /\ Reads(w, p, files)
               /\ PathsClean => Plain(files)
               /\ \/ Current(w).kind = "Join"
                  \/ /\ Isolated(Current(w))
                     /\ PathsClean => files = seen[CurrentUnit(w)] \cup SavedFiles(Matched(p))
<1> DEFINE own == seen[CurrentUnit(w)]
           new == SavedFiles(Matched(p))
<1>1. In(w, "inputs") /\ p = Head(body[w].inputs) /\ body[w].inputs # <<>>
  BY DEF SaveIsolated, GetInput, Reads
<1>2. CurrentUnit(w) \in UnitsOfPlan
  <2>1. worker[w] = "running" /\ body[w].at # "end"
    BY <1>1 DEF In
  <2> QED
    BY <2>1, DoingUnit DEF Doing, CurrentUnit
<1>3. own \in SUBSET File /\ (PathsClean => Plain(own))
  BY <1>2 DEF FilesInv, FilesTypeOK, PlainInv
<1>4. new \in SUBSET File /\ (PathsClean => Plain(new))
  BY MatchedPlain
<1>5. CASE SaveIsolated(w, p)
  <2>1. PICK saves \in Outcomes(new) : Reads(w, p, Overwrite(own, saves))
    BY <1>5 DEF SaveIsolated
  <2>2. Isolated(Current(w))
    BY <1>5 DEF SaveIsolated
  <2>3. PICK files : files = Overwrite(own, saves)
    OBVIOUS
  <2> HIDE DEF own, new
  <2>4. saves \in SUBSET File /\ files \in SUBSET File
    BY <1>3, <1>4, <2>1, <2>3, TreesTyped
  <2>5. ASSUME PathsClean PROVE Plain(files) /\ files = own \cup new
    <3>1. saves = new
      BY <1>4, <2>1, <2>5, PlainTrees
    <3> QED
      BY <1>3, <1>4, <2>3, <2>5, <3>1, PlainTrees
  <2>6. Reads(w, p, files)
    BY <2>1, <2>3
  <2> QED
    BY <2>2, <2>4, <2>5, <2>6 DEF own, new
<1>6. CASE GetInput(w, p)
  <2>1. Current(w).kind = "Join" /\ p \in store /\ Reads(w, p, own \cup {SavedFile(p)})
    BY <1>6 DEF GetInput
  <2>2. {SavedFile(p)} = new
    BY <2>1 DEF Matched, SavedFiles
  <2>3. PICK files : files = own \cup new
    OBVIOUS
  <2>4. Reads(w, p, files)
    BY <2>1, <2>2, <2>3
  <2> HIDE DEF own, new
  <2>5. files \in SUBSET File /\ (PathsClean => Plain(files))
    BY <1>3, <1>4, <2>3 DEF Plain
  <2> QED
    BY <2>1, <2>4, <2>5
<1> QED
  BY <1>5, <1>6

\* An isolated unit or join reads an input of the store.
LEMMA ReadsInv ==
    ASSUME FilesInv, NEW w \in Worker, NEW p, SaveIsolated(w, p) \/ GetInput(w, p)
    PROVE  FilesInv'
<1> DEFINE t == task[w]
<1>0. PICK files \in SUBSET File :
         /\ Reads(w, p, files)
         /\ PathsClean => Plain(files)
         /\ \/ Current(w).kind = "Join"
            \/ /\ Isolated(Current(w))
               /\ PathsClean => files = seen[CurrentUnit(w)] \cup SavedFiles(Matched(p))
  BY InputHad
<1>1. PICK next : next = [body[w] EXCEPT !.inputs = Tail(@)] /\ Step(w, next)
  BY <1>0 DEF Reads
<1>2. /\ In(w, "inputs") /\ body[w].inputs # <<>> /\ p = Head(body[w].inputs)
      /\ seen' = [seen EXCEPT ![CurrentUnit(w)] = files] /\ UNCHANGED <<store, tmp, torn>>
  BY <1>0 DEF Reads
<1>3. /\ worker[w] = "running" /\ body[w].at = "inputs"
      /\ Current(w).kind = "Validator" <=> t[2] = 3
      /\ t[2] = 3 => Current(w) = Units(t)[1] /\ t \in Begun
  BY <1>2, AtPlace DEF Place
<1>4. /\ t \in Tasks /\ body[w] \in BodyState /\ Placed(t, body[w]) /\ plan \in Plans
      /\ UnitOf(t, body[w]) = Current(w) /\ body[w].unit \in DOMAIN Units(t)
      /\ CurrentUnit(w) \in UnitsOfPlan /\ CurrentUnit(w)[1] = t
  BY <1>3, DoingUnit DEF Doing, CurrentUnit
<1>5. /\ p \in InputsOf(Current(w)) /\ Tail(body[w].inputs) \in Seq(Path)
      /\ Remaining(body[w]) = Remaining(next) \cup {p}
  BY <1>1, <1>2, <1>4, NextInput DEF BodyState
<1>6. /\ next \in BodyState /\ next.unit = body[w].unit /\ next.at = "inputs" /\ next.files = body[w].files
      /\ next.open = body[w].open
  BY <1>1, <1>3, <1>4, <1>5 DEF BodyState
<1>7. /\ store \in SUBSET Path /\ tmp \in SUBSET File /\ torn \in SUBSET Path
      /\ seen \in [UnitsOfPlan -> SUBSET File]
  BY DEF FilesInv, FilesTypeOK
<1>8. CurrentUnit(w) = Doing(w)
  BY DEF CurrentUnit, Doing
<1>9. t[2] = 3 => CurrentUnit(w) = Only(t)
  <2> SUFFICES ASSUME t[2] = 3 PROVE CurrentUnit(w) = Only(t)
    OBVIOUS
  <2>1. body[w].unit = 1
    BY <1>4, UnitsType
  <2> QED
    BY <2>1 DEF CurrentUnit, Only
<1> HIDE DEF t
<1>10. UnitOf(t, next) = Current(w) /\ next.unit \in DOMAIN Units(t)
       /\ \A k \in UnitsOfPlan : PassedBy(t, next, k) => PassedBy(t, body[w], k)
  BY <1>3, <1>6, SameUnit DEF t
<1>11. Placed(t, next)
  <2>1. Remaining(next) \subseteq InputsOf(Current(w))
    BY <1>3, <1>4, <1>5 DEF Placed
  <2> QED
    BY <1>3, <1>4, <1>6, <1>10, <2>1 DEF Placed
<1>12. Placed(task[w], next)'
  BY <1>1, <1>2, <1>3, <1>11, PlacedNext DEF t
<1>13. /\ UNCHANGED <<plan, task>>
       /\ \A u : Units(u)' = Units(u)
       /\ \A u : Isolated(u)' <=> Isolated(u)
  BY <1>1, <1>3, StepShape, PlanSame DEF FilesInv, IInv, FilesTypeOK
<1>14. /\ seen' \in [UnitsOfPlan -> SUBSET File] /\ seen'[CurrentUnit(w)] = files
       /\ \A k \in UnitsOfPlan \ {CurrentUnit(w)} : seen'[k] = seen[k]
  BY <1>2, <1>4, <1>7
<1>15. ASSUME failed = {}, PathsClean, Separate, t[2] = 3
       PROVE  /\ seen'[Only(t)] \subseteq SavedFiles(GivenBelow(Units(t)[1])')
              /\ GivenSoFar(task[w], next)'
  <2>1. /\ seen[Only(t)] \subseteq SavedFiles(GivenBelow(Units(t)[1]))
        /\ \A q \in InputsOf(Units(t)[1]) \ Remaining(body[w]) :
              SavedFiles(Matched(q)) \subseteq
                  IF Isolated(Units(t)[1]) THEN seen[Only(t)] ELSE tmp \cup SavedFiles(body[w].files)
    BY <1>3, <1>4, <1>15 DEF FilesInv, SeenInv, GivenSoFar, t
  <2>2. Isolated(Units(t)[1]) /\ Current(w) = Units(t)[1]
    BY <1>0, <1>3, <1>15
  <2>3. seen'[Only(t)] = seen[Only(t)] \cup SavedFiles(Matched(p))
    BY <1>0, <1>3, <1>9, <1>14, <1>15
  <2>4. SavedFiles(Matched(p)) \subseteq SavedFiles(GivenBelow(Units(t)[1]))
    BY <1>5, <2>2, MatchedGiven, SavedMore
  <2>5. \A q \in InputsOf(Units(t)[1]) \ Remaining(next) : SavedFiles(Matched(q)) \subseteq seen'[Only(t)]
    BY <1>5, <2>1, <2>2, <2>3
  <2>6. PICK u : u = t
    OBVIOUS
  <2>7. Units(u)' = Units(u) /\ (Isolated(Units(u)[1])' <=> Isolated(Units(u)[1]))
    BY <1>13
  <2>8. GivenSoFar(u, next)'
    BY <1>2, <1>6, <2>2, <2>5, <2>6, <2>7 DEF GivenSoFar, Matched
  <2>9. GivenBelow(Units(t)[1])' = GivenBelow(Units(t)[1])
    BY <1>2, <1>13 DEF GivenBelow, t
  <2> QED
    BY <1>13, <2>1, <2>3, <2>4, <2>6, <2>8, <2>9 DEF t
<1>16. PathsClean =>
         /\ Plain(tmp') /\ \A k \in UnitsOfPlan : Plain(seen'[k])
         /\ \A k \in store' \cup next.files : ValidFSPath(k)
  BY <1>0, <1>2, <1>3, <1>6, <1>14 DEF FilesInv, PlainInv
<1>17. \A f : ~Rewriting(body[w], f) /\ ~Setting(body[w], f)
  BY <1>3 DEF Rewriting, Setting
<1>18. \A k \in UnitsOfPlan : k[1] # task[w] => seen'[k] = seen[k]
  BY <1>4, <1>14 DEF t
<1>19. StepKeeps(w, next)
  BY <1>2, <1>6, <1>7, <1>10, <1>12, <1>14, <1>15, <1>16, <1>17, <1>18 DEF StepKeeps, t
<1> QED
  BY <1>1, <1>3, <1>19, StepFilesInv

\* What a step of a body leaves as it is.
LEMMA StepRest ==
    ASSUME FilesInv, NEW w \in Worker, worker[w] = "running", NEW next, Step(w, next)
    PROVE  /\ UNCHANGED <<plan, task>>
           /\ \A u : Units(u)' = Units(u)
           /\ \A u : Isolated(u)' <=> Isolated(u)
           /\ store' = store => \A u : Given(u)' = Given(u) /\ GivenBelow(u)' = GivenBelow(u)
           /\ store' = store => \A p : Matched(p)' = Matched(p)
<1>1. UNCHANGED <<plan, task>>
  BY StepShape DEF FilesInv, IInv, FilesTypeOK
<1>2. /\ \A u : Units(u)' = Units(u)
      /\ \A u : Isolated(u)' <=> Isolated(u)
  BY <1>1, PlanSame
<1>3. ASSUME store' = store PROVE \A p : Matched(p)' = Matched(p)
  BY <1>3 DEF Matched
<1>4. ASSUME store' = store PROVE \A u : Given(u)' = Given(u) /\ GivenBelow(u)' = GivenBelow(u)
  BY <1>3, <1>4 DEF Given, GivenBelow
<1> QED
  BY <1>1, <1>2, <1>3, <1>4

\* A step that touches no file keeps what is known of them.
LEMMA NothingWritten ==
    ASSUME FilesInv, UNCHANGED <<store, seen, tmp, torn>>
    PROVE  /\ store' \in SUBSET Path /\ tmp' \in SUBSET File /\ torn' \in SUBSET Path
           /\ seen' \in [UnitsOfPlan -> SUBSET File]
           /\ PathsClean =>
                 /\ Plain(tmp') /\ \A k \in UnitsOfPlan : Plain(seen'[k])
                 /\ \A k \in store' : ValidFSPath(k)
BY DEF FilesInv, FilesTypeOK, PlainInv

\* A tool leaves one file, which the unit writes or sets next.
LEMMA GoOutInv ==
    ASSUME FilesInv, NEW w \in Worker, NEW from \in {"inputs", "exec"}, In(w, from),
           NEW to \in {"set", "writing"}, NEW next, next = Goto(w, to, {Current(w).output}), Step(w, next),
           Current(w).kind \in {"Kustomize", "Join"} \/ (Current(w).kind = "Command" /\ Current(w).stdout),
           Current(w).kind = "Kustomize" => to = "set",
           UNCHANGED <<store, seen, tmp, torn>>
    PROVE  FilesInv'
<1> DEFINE t == task[w]
           out == Current(w).output
<1>1. /\ worker[w] = "running" /\ body[w].at = from /\ body[w].at # "end" /\ t[2] # 3
      /\ out \in Path /\ Current(w).kind \in Supported(t[2])
  BY AtPlace DEF Place
<1>2. /\ t \in Tasks /\ body[w] \in BodyState /\ Placed(t, body[w]) /\ plan \in Plans
      /\ UnitOf(t, body[w]) = Current(w)
  BY <1>1, DoingUnit
<1>3. next = [body[w] EXCEPT !.at = to, !.files = {out}]
  BY DEF Goto
<1> HIDE DEF t, out
<1>4. /\ next \in BodyState /\ next.unit = body[w].unit /\ next.at = to /\ next.files = {out}
      /\ next.open = body[w].open /\ next.inputs = body[w].inputs
  <2>1. PICK b \in BodyState : b = body[w]
    BY <1>2
  <2>2. {out} \in SUBSET Path /\ to \in Place
    BY <1>1 DEF Place
  <2> QED
    BY <1>3, <2>1, <2>2 DEF BodyState
<1>5. /\ UnitOf(t, next) = Current(w) /\ next.unit \in DOMAIN Units(t)
      /\ \A k \in UnitsOfPlan : PassedBy(t, next, k) => PassedBy(t, body[w], k)
  BY <1>1, <1>4, SameUnit DEF t, out
<1>6. Placed(t, next)
  <2>1. Remaining(next) \subseteq InputsOf(Current(w))
    BY <1>1, <1>2, <1>4 DEF Placed, Remaining
  <2>2. next.open = NoPath
    BY <1>1, <1>2, <1>4 DEF Placed
  <2>3. AtOrUnder(out, out)
    BY DEF AtOrUnder
  <2> QED
    BY <1>1, <1>4, <1>5, <2>1, <2>2, <2>3 DEF Placed, out
<1>7. Placed(task[w], next)'
  BY <1>1, <1>6, PlacedNext DEF t
<1>8. PathsClean => ValidFSPath(out)
  <2>1. Doing(w) \in UnitsOfPlan /\ UnitAt(Doing(w)) = Current(w) /\ Producing(Doing(w))
    BY <1>1, AtPlace, DoingUnit DEF Place, t
  <2>2. out \in DeclaredBy(Doing(w))
    BY <2>1 DEF DeclaredBy, out
  <2> QED
    BY <1>2, <2>1, <2>2, CleanDeclared
<1>9. \A f : ~Rewriting(body[w], f) /\ ~Setting(body[w], f)
  BY <1>1 DEF Rewriting, Setting
<1>10. StepKeeps(w, next)
  BY <1>1, <1>4, <1>5, <1>7, <1>8, <1>9, NothingWritten DEF StepKeeps, t
<1> QED
  BY <1>1, <1>10, StepFilesInv

\* A validator ends.
LEMMA ValidatorEnds ==
    ASSUME FilesInv, NEW w \in Worker, NEW from \in {"inputs", "exec"}, In(w, from),
           Current(w).kind = "Validator", NEW next, next = NextUnit(w), Step(w, next),
           UNCHANGED <<store, seen, tmp, torn>>,
           failed = {} /\ PathsClean /\ Separate =>
               SavedFiles(Given(Units(task[w])[1])) \subseteq seen[Only(task[w])]
    PROVE  FilesInv'
<1> DEFINE t == task[w]
<1>1. /\ worker[w] = "running" /\ body[w].at = from /\ body[w].at # "end" /\ t[2] = 3
      /\ ~Producing(Doing(w)) /\ t \in Tasks
  BY AtPlace DEF Place
<1>2. next \in BodyState /\ next.at = "end" /\ next.files = {}
  BY <1>1, NextUnitPlaced
<1> HIDE DEF t
<1>3. ASSUME NEW k \in UnitsOfPlan, k[1] = t, MakesFile(k) PROVE PassedBy(t, body[w], k)
  <2>1. k[2] < body[w].unit \/ k = Doing(w)
    BY <1>1, <1>2, <1>3, NextUnitPasses DEF t
  <2> QED
    BY <1>1, <1>3, <2>1 DEF PassedBy, MakesFile
<1>4. ASSUME failed = {}, PathsClean, Separate
      PROVE  /\ seen'[Only(task[w])] \subseteq SavedFiles(GivenBelow(Units(task[w])[1])')
             /\ SavedFiles(Given(Units(task[w])[1])') \subseteq seen'[Only(task[w])]
  <2>1. PICK u : u = Units(t)[1]
    OBVIOUS
  <2>2. u = Units(task[w])[1]' /\ Given(u)' = Given(u) /\ GivenBelow(u)' = GivenBelow(u)
    BY <1>1, <2>1, StepRest DEF t
  <2>3. seen[Only(t)] \subseteq SavedFiles(GivenBelow(u)) /\ SavedFiles(Given(u)) \subseteq seen[Only(t)]
    BY <1>1, <1>4, <2>1 DEF FilesInv, SeenInv, t
  <2>4. seen'[Only(task[w])] = seen[Only(t)]
    BY DEF t
  <2> QED
    BY <2>2, <2>3, <2>4
<1>5. \A f : ~Rewriting(body[w], f) /\ ~Setting(body[w], f)
  BY <1>1 DEF Rewriting, Setting
<1>6. StepKeeps(w, next)
  BY <1>1, <1>2, <1>3, <1>4, <1>5, NothingWritten DEF StepKeeps, t
<1> QED
  BY <1>1, <1>6, StepFilesInv

LEMMA KustomizedInv == ASSUME FilesInv, NEW w \in Worker, Kustomized(w) PROVE FilesInv'
<1>1. PICK next : next = Goto(w, "set", {Current(w).output}) /\ Step(w, next)
  BY DEF Kustomized
<1> QED
  BY <1>1, GoOutInv DEF Kustomized, InputsRead

LEMMA JoinedInv == ASSUME FilesInv, NEW w \in Worker, Joined(w) PROVE FilesInv'
<1>1. PICK to \in {"set", "writing"} : Step(w, Goto(w, to, {Current(w).output}))
  BY DEF Joined
<1>2. PICK next : next = Goto(w, to, {Current(w).output}) /\ Step(w, next)
  BY <1>1
<1> QED
  BY <1>2, GoOutInv DEF Joined, InputsRead

LEMMA ValidatedInv == ASSUME FilesInv, NEW w \in Worker, Validated(w) PROVE FilesInv'
<1> DEFINE t == task[w]
<1>1. PICK next : next = NextUnit(w) /\ Step(w, next)
  BY DEF Validated
<1>2. /\ In(w, "inputs") /\ body[w].inputs = <<>> /\ Current(w).kind = "Validator" /\ Isolated(Current(w))
      /\ UNCHANGED <<store, seen, tmp, torn>>
  BY DEF Validated, InputsRead
<1>3. worker[w] = "running" /\ body[w].at = "inputs" /\ t[2] = 3 /\ t \in Tasks /\ Current(w) = Units(t)[1]
  BY <1>2, AtPlace DEF Place
<1>4. Remaining(body[w]) = {}
  BY <1>2 DEF Remaining
<1>5. ASSUME failed = {}, PathsClean, Separate
      PROVE  SavedFiles(Given(Units(t)[1])) \subseteq seen[Only(t)]
  <2>1. GivenSoFar(t, body[w])
    BY <1>3, <1>5 DEF FilesInv, SeenInv
  <2>2. \A p \in InputsOf(Units(t)[1]) : SavedFiles(Matched(p)) \subseteq seen[Only(t)]
    BY <1>2, <1>3, <1>4, <2>1 DEF GivenSoFar
  <2> QED
    BY <2>2 DEF Given, SavedFiles
<1> QED
  BY <1>1, <1>2, <1>5, ValidatorEnds

LEMMA SaveInputInv == ASSUME FilesInv, NEW w \in Worker, SaveInput(w) PROVE FilesInv'
<1> DEFINE t == task[w]
           p == Head(body[w].inputs)
<1>1. PICK next : /\ Step(w, next)
                  /\ next = [body[w] EXCEPT !.at = IF Matched(p) = {} THEN "inputs" ELSE "saving",
                                            !.inputs = Tail(@), !.files = Matched(p)]
  BY DEF SaveInput
<1>2. /\ In(w, "inputs") /\ body[w].inputs # <<>> /\ Shared(Current(w))
      /\ UNCHANGED <<store, seen, tmp, torn>>
  BY DEF SaveInput
<1>3. /\ worker[w] = "running" /\ body[w].at = "inputs" /\ Current(w).kind \in Supported(t[2])
      /\ t[2] = 3 => Current(w) = Units(t)[1] /\ t \in Begun /\ t \in Tasks
  BY <1>2, AtPlace DEF Place
<1>4. /\ t \in Tasks /\ body[w] \in BodyState /\ Placed(t, body[w]) /\ plan \in Plans
      /\ UnitOf(t, body[w]) = Current(w)
  BY <1>3, DoingUnit
<1>5. store \in SUBSET Path /\ Matched(p) \in SUBSET Path /\ Matched(p) \subseteq store
  BY DEF FilesInv, FilesTypeOK, Matched
<1>6. p \in InputsOf(Current(w)) /\ Tail(body[w].inputs) \in Seq(Path)
      /\ (next.inputs = Tail(body[w].inputs) => Remaining(body[w]) = Remaining(next) \cup {p})
  BY <1>2, NextInput
<1> HIDE DEF t, p
<1>7. /\ next \in BodyState /\ next.unit = body[w].unit /\ next.files = Matched(p)
      /\ next.at = (IF Matched(p) = {} THEN "inputs" ELSE "saving")
      /\ next.open = body[w].open /\ next.inputs = Tail(body[w].inputs)
  <2>1. PICK b \in BodyState : b = body[w]
    BY <1>4
  <2>2. (IF Matched(p) = {} THEN "inputs" ELSE "saving") \in Place
    BY DEF Place
  <2> QED
    BY <1>1, <1>5, <1>6, <2>1, <2>2 DEF BodyState
<1>8. Remaining(body[w]) = Remaining(next) \cup {p} /\ body[w].open = NoPath /\ body[w].files = {}
      /\ Remaining(body[w]) \subseteq InputsOf(Current(w))
  BY <1>3, <1>4, <1>6, <1>7 DEF Placed
<1>9. UnitOf(t, next) = Current(w) /\ next.unit \in DOMAIN Units(t)
      /\ \A k \in UnitsOfPlan : PassedBy(t, next, k) => PassedBy(t, body[w], k)
  BY <1>3, <1>7, SameUnit DEF t
<1>10. Placed(t, next)
  <2>1. \A f \in Matched(p) : AtOrUnder(f, p) /\ f \in store
    BY <1>6, MatchedGiven
  <2> QED
    BY <1>2, <1>3, <1>6, <1>7, <1>8, <1>9, <2>1 DEF Placed
<1>11. Placed(task[w], next)'
  BY <1>1, <1>2, <1>3, <1>10, PlacedNext DEF t
<1>12. ASSUME failed = {}, PathsClean, Separate, task[w][2] = 3
       PROVE  /\ seen'[Only(task[w])] \subseteq SavedFiles(GivenBelow(Units(task[w])[1])')
              /\ GivenSoFar(task[w], next)'
  <2>1. PICK u, d : u = t /\ d = Units(t)[1]
    OBVIOUS
  <2>2. u = task'[w] /\ d = Units(task[w])[1]' /\ d = Units(u)[1] /\ Units(u)' = Units(u)
        /\ (Isolated(d)' <=> Isolated(d))
        /\ GivenBelow(d)' = GivenBelow(d) /\ \A q : Matched(q)' = Matched(q)
    BY <1>1, <1>2, <1>3, <2>1, StepRest DEF t
  <2>3. /\ seen[Only(u)] \subseteq SavedFiles(GivenBelow(d))
        /\ \A q \in InputsOf(d) \ Remaining(body[w]) :
              SavedFiles(Matched(q)) \subseteq
                  IF Isolated(d) THEN seen[Only(u)] ELSE tmp \cup SavedFiles(body[w].files)
    BY <1>3, <1>4, <1>12, <2>1 DEF FilesInv, SeenInv, GivenSoFar, t
  <2>4. ~Isolated(d)
    BY <1>2, <1>3, <1>12, <2>1 DEF Shared, t
  <2>5. \A q \in InputsOf(d) \ Remaining(next) : SavedFiles(Matched(q)) \subseteq tmp \cup SavedFiles(next.files)
    <3>1. SavedFiles(body[w].files) \subseteq SavedFiles(next.files)
      BY <1>8, SavedMore
    <3> QED
      BY <1>7, <1>8, <2>3, <2>4, <3>1
  <2>6. GivenSoFar(u, next)'
    BY <1>2, <1>7, <2>2, <2>4, <2>5 DEF GivenSoFar
  <2>7. seen'[Only(task[w])] = seen[Only(u)]
    BY <1>2, <2>1 DEF t
  <2> QED
    BY <2>2, <2>3, <2>6, <2>7
<1>13. PathsClean => \A k \in next.files : ValidFSPath(k)
  BY <1>5, <1>7 DEF FilesInv, PlainInv
<1>14. \A f : ~Rewriting(body[w], f) /\ ~Setting(body[w], f)
  BY <1>3 DEF Rewriting, Setting
<1>15. StepKeeps(w, next)
  BY <1>2, <1>3, <1>7, <1>9, <1>11, <1>12, <1>13, <1>14, NothingWritten DEF StepKeeps, t
<1> QED
  BY <1>1, <1>3, <1>15, StepFilesInv

\* The places where a body has files of the shared directory to write.
LEMMA AtWriting ==
    ASSUME FilesInv, NEW w \in Worker, Writing(w)
    PROVE  /\ worker[w] = "running" /\ body[w].at \in {"saving", "writing"} /\ body[w].at # "end"
           /\ In(w, "saving") <=> body[w].at = "saving"
           /\ Current(w).kind \in Supported(task[w][2])
           /\ task[w][2] = 3 => /\ body[w].at = "saving" /\ Current(w) = Units(task[w])[1]
                                /\ ~Isolated(Current(w)) /\ task[w] \in Tasks
           /\ body[w].files \subseteq Path
           /\ Current(w).output \in Path
<1>1. PICK place \in {"saving", "writing"} : In(w, place)
  BY DEF Writing
<1>2. /\ worker[w] = "running" /\ body[w].at = place /\ Current(w).kind \in Supported(task[w][2])
      /\ Current(w).kind = "Validator" <=> task[w][2] = 3
      /\ task[w][2] = 3 => Current(w) = Units(task[w])[1] /\ task[w] \in Tasks
      /\ Current(w).output \in Path
  BY <1>1, AtPlace DEF Place
<1>3. Placed(task[w], body[w]) /\ UnitOf(task[w], body[w]) = Current(w) /\ body[w] \in BodyState
  BY <1>2, DoingUnit
<1>4. place = "writing" => Current(w).kind # "Validator"
  BY <1>2, <1>3 DEF Placed
<1>5. place = "saving" => ~Isolated(Current(w))
  BY <1>2, <1>3 DEF Placed, Shared
<1>6. In(w, "saving") <=> body[w].at = "saving"
  BY <1>1, <1>2 DEF In
<1> QED
  BY <1>2, <1>3, <1>4, <1>5, <1>6 DEF BodyState

\* One file more in the shared directory.
LEMMA OneMore ==
    ASSUME FilesInv, NEW k \in Path, PathsClean => ValidFSPath(k)
    PROVE  /\ Overwrite(tmp, {SavedFile(k)}) \in SUBSET File
           /\ SavedFile(k) \in Overwrite(tmp, {SavedFile(k)}) /\ SavedFile(k).path = Clean(k)
           /\ Clean(k) \in Path
           /\ \A f \in Overwrite(tmp, {SavedFile(k)}) : f \in tmp \/ f = SavedFile(k)
           /\ ValidFSPath(k) => SavedFile(k).path = k
           /\ PathsClean => /\ tmp \subseteq Overwrite(tmp, {SavedFile(k)})
                            /\ Plain(Overwrite(tmp, {SavedFile(k)}))
<1> DEFINE new == {SavedFile(k)}
<1>1. SavedFile(k) \in File /\ SavedFile(k).path = Clean(k) /\ Clean(k) \in Path /\ (ValidFSPath(k) => Clean(k) = k)
  BY SavedTyped
<1>2. new = SavedFiles({k})
  BY DEF SavedFiles
<1>3. new \in SUBSET File /\ SavedFile(k) \in new /\ \A f \in new : f = SavedFile(k)
  BY <1>1
<1>4. PathsClean => Plain(new)
  BY <1>2, SavedPlain
<1>5. tmp \in SUBSET File /\ (PathsClean => Plain(tmp))
  BY DEF FilesInv, FilesTypeOK, PlainInv
<1> HIDE DEF new
<1>6. /\ Overwrite(tmp, new) \in SUBSET File
      /\ \A f \in Overwrite(tmp, new) : f \in tmp \cup new
  BY <1>3, <1>5, TreesTyped
<1>7. SavedFile(k) \in Overwrite(tmp, new)
  BY <1>3 DEF Overwrite
<1>8. PathsClean => Overwrite(tmp, new) = tmp \cup new /\ Plain(tmp \cup new)
  BY <1>3, <1>4, <1>5, PlainTrees
<1> QED
  BY <1>1, <1>3, <1>6, <1>7, <1>8 DEF new

LEMMA TruncateInv == ASSUME FilesInv, NEW w \in Worker, NEW f \in body[w].files, Truncate(w, f) PROVE FilesInv'
<1> DEFINE t == task[w]
<1>1. PICK next : next = [body[w] EXCEPT !.open = f] /\ Step(w, next)
  BY DEF Truncate
<1>2. /\ Writing(w) /\ tmp' = Overwrite(tmp, {SavedFile(f)}) /\ torn' = torn \cup {Clean(f)}
      /\ UNCHANGED <<store, seen>>
  BY DEF Truncate
<1>3. /\ worker[w] = "running" /\ body[w].at \in {"saving", "writing"} /\ body[w].at # "end"
      /\ t[2] = 3 => body[w].at = "saving" /\ Current(w) = Units(t)[1] /\ ~Isolated(Current(w))
      /\ f \in Path /\ Current(w).kind \in Supported(t[2])
  BY <1>2, AtWriting
<1>4. /\ t \in Tasks /\ body[w] \in BodyState /\ Placed(t, body[w]) /\ plan \in Plans
      /\ UnitOf(t, body[w]) = Current(w)
  BY <1>3, DoingUnit
<1> HIDE DEF t
<1>5. /\ next \in BodyState /\ next.unit = body[w].unit /\ next.at = body[w].at /\ next.files = body[w].files
      /\ next.open = f /\ next.inputs = body[w].inputs
  <2>1. PICK b \in BodyState : b = body[w]
    BY <1>4
  <2> QED
    BY <1>1, <1>3, <2>1 DEF BodyState
<1>6. UnitOf(t, next) = Current(w) /\ next.unit \in DOMAIN Units(t)
      /\ \A k \in UnitsOfPlan : PassedBy(t, next, k) => PassedBy(t, body[w], k)
  BY <1>3, <1>5, SameUnit DEF t
<1>7. /\ UNCHANGED <<plan, task>> /\ \A u : Units(u)' = Units(u) /\ GivenBelow(u)' = GivenBelow(u)
      /\ \A u : Isolated(u)' <=> Isolated(u)
      /\ \A q : Matched(q)' = Matched(q)
  BY <1>1, <1>2, <1>3, StepRest
<1>8. Placed(task[w], next)'
  <2>1. Placed(t, next)
    BY <1>3, <1>4, <1>5, <1>6 DEF Placed, Remaining
  <2> QED
    BY <1>1, <1>2, <1>3, <2>1, PlacedNext DEF t
<1>9. \A k \in body[w].files : PathsClean => ValidFSPath(k)
  BY <1>3 DEF FilesInv, PlainInv
<1>10. /\ tmp' \in SUBSET File /\ Clean(f) \in Path
       /\ \A g \in tmp' : g \in tmp \/ g = SavedFile(f)
       /\ PathsClean => tmp \subseteq tmp' /\ Plain(tmp') /\ SavedFile(f).path = f
  BY <1>2, <1>3, <1>9, OneMore
<1>11. ASSUME failed = {}, PathsClean, Separate, task[w][2] = 3
       PROVE  /\ seen'[Only(task[w])] \subseteq SavedFiles(GivenBelow(Units(task[w])[1])')
              /\ GivenSoFar(task[w], next)'
  <2>1. PICK u, d : u = t /\ d = Units(t)[1]
    OBVIOUS
  <2>2. u = task'[w] /\ d = Units(task[w])[1]' /\ d = Units(u)[1]
    BY <1>7, <2>1 DEF t
  <2>3. /\ seen[Only(u)] \subseteq SavedFiles(GivenBelow(d))
        /\ \A q \in InputsOf(d) \ Remaining(body[w]) :
              SavedFiles(Matched(q)) \subseteq
                  IF Isolated(d) THEN seen[Only(u)] ELSE tmp \cup SavedFiles(body[w].files)
    BY <1>3, <1>4, <1>11, <2>1 DEF FilesInv, SeenInv, GivenSoFar, t
  <2>4. ~Isolated(d)
    BY <1>3, <1>11, <2>1 DEF t
  <2>5. \A q \in InputsOf(d) \ Remaining(next) : SavedFiles(Matched(q)) \subseteq tmp' \cup SavedFiles(next.files)
    BY <1>5, <1>10, <1>11, <2>3, <2>4 DEF Remaining
  <2>6. GivenSoFar(u, next)'
    BY <1>3, <1>5, <1>7, <1>11, <2>2, <2>4, <2>5 DEF GivenSoFar, t
  <2>7. seen'[Only(task[w])] = seen[Only(u)]
    BY <1>2, <1>7, <2>1 DEF t
  <2> QED
    BY <1>7, <2>2, <2>3, <2>6, <2>7
<1>12. ASSUME PathsClean, NEW g \in tmp'
       PROVE  (g \in tmp /\ ~Setting(body[w], g.path)) \/ g.path \in store' \/ Setting(next, g.path)
  <2>1. CASE g \in tmp
    BY <1>5, <2>1 DEF Setting
  <2>2. CASE g = SavedFile(f) /\ body[w].at = "writing"
    BY <1>5, <1>10, <1>12, <2>2 DEF Setting
  <2>3. CASE g = SavedFile(f) /\ body[w].at = "saving"
    BY <1>2, <1>4, <1>10, <1>12, <2>3 DEF Placed
  <2> QED
    BY <1>3, <1>10, <2>1, <2>2, <2>3
<1>13. ASSUME NEW g \in torn' PROVE (g \in torn /\ ~Rewriting(body[w], g)) \/ Rewriting(next, g)
  BY <1>2, <1>3, <1>5 DEF Rewriting
<1>14. /\ torn' \in SUBSET Path /\ store' \in SUBSET Path /\ seen' \in [UnitsOfPlan -> SUBSET File]
       /\ PathsClean => /\ \A k \in UnitsOfPlan : Plain(seen'[k])
                        /\ \A k \in store' \cup next.files : ValidFSPath(k)
  BY <1>2, <1>5, <1>9, <1>10 DEF FilesInv, FilesTypeOK, PlainInv
<1>15. StepKeeps(w, next)
  BY <1>2, <1>3, <1>5, <1>6, <1>8, <1>10, <1>11, <1>12, <1>13, <1>14 DEF StepKeeps, t
<1> QED
  BY <1>1, <1>3, <1>15, StepFilesInv

\* What is loaded of a directory.
LEMMA FoundShape ==
    ASSUME NEW w \in Worker, NEW tree \in SUBSET File
    PROVE  /\ Found(w, tree) \in SUBSET Path
           /\ \A f \in Found(w, tree) : AtOrUnder(f, Current(w).output) /\ (Plain(tree) => ValidFSPath(f))
           /\ Found(w, tree) # {} => ValidFSPath(Current(w).output)
           /\ ValidFSPath(Current(w).output) =>
                 \A g \in tree : AtOrUnder(g.path, Current(w).output) => g.path \in Found(w, tree)
<1>1. \A g \in tree : g.path \in Path /\ (Plain(tree) => ValidFSPath(g.path))
  BY DEF File, Plain
<1>2. \A f \in Found(w, tree) :
         ValidFSPath(Current(w).output) /\ \E g \in tree : f = g.path /\ AtOrUnder(g.path, Current(w).output)
  BY DEF Found
<1>3. ValidFSPath(Current(w).output) =>
         \A g \in tree : AtOrUnder(g.path, Current(w).output) => g.path \in Found(w, tree)
  BY DEF Found
<1> QED
  BY <1>1, <1>2, <1>3

LEMMA RewriteInv == ASSUME FilesInv, NEW w \in Worker, Rewrite(w) PROVE FilesInv'
<1> DEFINE t == task[w]
<1>0. PICK o, left, out : o = body[w].open /\ left = body[w].files \ {o} /\ out = Current(w).output
  OBVIOUS
<1>1. PICK next : /\ Step(w, next)
                  /\ next = LET rest == [body[w] EXCEPT !.open = NoPath, !.files = @ \ {body[w].open}]
                            IN  IF rest.files # {} THEN rest
                                ELSE IF In(w, "saving") THEN [rest EXCEPT !.at = "inputs"]
                                ELSE [rest EXCEPT !.at = "set", !.files = Found(w, tmp')]
  BY DEF Rewrite
<1>2. /\ Writing(w) /\ o # NoPath /\ torn' = torn \ {Clean(o)} /\ UNCHANGED <<store, seen>>
      /\ tmp' = Overwrite(tmp, {SavedFile(o)})
  BY <1>0 DEF Rewrite
<1>3. /\ worker[w] = "running" /\ body[w].at \in {"saving", "writing"} /\ body[w].at # "end"
      /\ In(w, "saving") <=> body[w].at = "saving"
      /\ t[2] = 3 => body[w].at = "saving" /\ Current(w) = Units(t)[1] /\ ~Isolated(Current(w))
      /\ Current(w).kind \in Supported(t[2])
  BY <1>2, AtWriting
<1>4. /\ t \in Tasks /\ body[w] \in BodyState /\ Placed(t, body[w]) /\ plan \in Plans
      /\ UnitOf(t, body[w]) = Current(w) /\ UnitAt(Doing(w)) = Current(w)
  BY <1>3, DoingUnit
<1>5. /\ o \in body[w].files /\ o \in Path
      /\ body[w].at = "writing" => body[w].files = {out}
      /\ \A k \in body[w].files : PathsClean => ValidFSPath(k)
  BY <1>0, <1>2, <1>3, <1>4 DEF Placed, BodyState, FilesInv, PlainInv
<1>6. /\ tmp' \in SUBSET File /\ SavedFile(o) \in tmp' /\ (ValidFSPath(o) => SavedFile(o).path = o)
      /\ \A g \in tmp' : g \in tmp \/ g = SavedFile(o)
      /\ PathsClean => tmp \subseteq tmp' /\ Plain(tmp')
  BY <1>2, <1>5, OneMore
<1>7. /\ Found(w, tmp') \in SUBSET Path
      /\ \A f \in Found(w, tmp') : AtOrUnder(f, out) /\ (PathsClean => ValidFSPath(f))
      /\ body[w].at = "writing" /\ Found(w, tmp') # {} => out \in Found(w, tmp')
      /\ body[w].at = "writing" /\ PathsClean => out \in Found(w, tmp')
  <2>1. ASSUME body[w].at = "writing", ValidFSPath(out) PROVE out \in Found(w, tmp')
    <3>1. SavedFile(o).path = out /\ SavedFile(o) \in tmp' /\ AtOrUnder(out, out)
      BY <1>5, <1>6, <2>1 DEF AtOrUnder
    <3> QED
      BY <1>0, <1>6, <2>1, <3>1, FoundShape
  <2> QED
    BY <1>0, <1>5, <1>6, <2>1, FoundShape
<1> HIDE DEF t
<1>8. /\ next \in BodyState /\ next.unit = body[w].unit /\ next.open = NoPath /\ next.inputs = body[w].inputs
      /\ \/ next.at = body[w].at /\ next.files = left
         \/ body[w].at = "saving" /\ next.at = "inputs" /\ next.files = {} /\ left = {}
         \/ body[w].at = "writing" /\ next.at = "set" /\ next.files = Found(w, tmp')
      /\ body[w].at = "writing" => next.at = "set"
  <2>1. PICK b \in BodyState : b = body[w]
    BY <1>4
  <2>2. PICK fs \in SUBSET Path : fs = Found(w, tmp')
    BY <1>7
  <2>3. NoPath \in Path
    BY DEF NoPath, Path
  <2> DEFINE rest == [b EXCEPT !.open = NoPath, !.files = @ \ {o}]
  <2>4. rest \in BodyState /\ rest.unit = b.unit /\ rest.open = NoPath /\ rest.inputs = b.inputs /\ rest.at = b.at
        /\ rest.files = b.files \ {o}
    BY <2>1, <2>3 DEF BodyState
  <2>5. next = IF rest.files # {} THEN rest
               ELSE IF body[w].at = "saving" THEN [rest EXCEPT !.at = "inputs"]
               ELSE [rest EXCEPT !.at = "set", !.files = fs]
    BY <1>0, <1>1, <1>3, <2>1, <2>2
  <2> HIDE DEF rest
  <2>6. left = rest.files
    BY <1>0, <2>1, <2>4
  <2>7. CASE rest.files # {}
    <3>1. body[w].at # "writing"
      BY <1>5, <2>1, <2>4, <2>7
    <3> QED
      BY <1>3, <2>1, <2>4, <2>5, <2>6, <2>7, <3>1
  <2>8. CASE rest.files = {} /\ body[w].at = "saving"
    <3>1. next = [rest EXCEPT !.at = "inputs"]
      BY <2>5, <2>8
    <3> QED
      BY <2>1, <2>4, <2>6, <2>8, <3>1 DEF BodyState, Place
  <2>9. CASE rest.files = {} /\ body[w].at = "writing"
    <3>1. next = [rest EXCEPT !.at = "set", !.files = fs]
      BY <2>5, <2>9
    <3> QED
      BY <2>1, <2>2, <2>4, <2>9, <3>1 DEF BodyState, Place
  <2> QED
    BY <1>3, <2>7, <2>8, <2>9
<1>9. UnitOf(t, next) = Current(w) /\ next.unit \in DOMAIN Units(t)
      /\ \A k \in UnitsOfPlan : PassedBy(t, next, k) => PassedBy(t, body[w], k)
  BY <1>0, <1>3, <1>7, <1>8, SameUnit DEF t
<1>10. Placed(t, next)
  <2>1. Remaining(next) \subseteq InputsOf(Current(w))
    BY <1>3, <1>4, <1>8 DEF Placed, Remaining
  <2>2. CASE next.at = body[w].at /\ next.files = left /\ body[w].at = "saving"
    BY <1>0, <1>4, <1>8, <1>9, <2>1, <2>2 DEF Placed
  <2>3. CASE next.at = "inputs" /\ next.files = {}
    BY <1>8, <1>9, <2>1, <2>3 DEF Placed
  <2>4. CASE body[w].at = "writing" /\ next.at = "set" /\ next.files = Found(w, tmp')
    <3>1. Current(w).kind \in {"Kustomize", "Join", "Command"}
      BY <1>4, <2>4 DEF Placed
    <3> QED
      BY <1>0, <1>3, <1>7, <1>8, <1>9, <2>1, <2>4, <3>1 DEF Placed
  <2> QED
    BY <1>3, <1>8, <2>2, <2>3, <2>4
<1>11. Placed(task[w], next)'
  BY <1>1, <1>2, <1>3, <1>10, PlacedNext DEF t
<1>12. ASSUME failed = {}, PathsClean, Separate, task[w][2] = 3
       PROVE  /\ seen'[Only(task[w])] \subseteq SavedFiles(GivenBelow(Units(task[w])[1])')
              /\ GivenSoFar(task[w], next)'
  <2>1. PICK u, d : u = t /\ d = Units(t)[1]
    OBVIOUS
  <2>2. u = task'[w] /\ d = Units(task[w])[1]' /\ d = Units(u)[1] /\ Units(u)' = Units(u)
        /\ (Isolated(d)' <=> Isolated(d))
        /\ GivenBelow(d)' = GivenBelow(d) /\ \A q : Matched(q)' = Matched(q)
    BY <1>1, <1>2, <1>3, <2>1, StepRest DEF t
  <2>3. /\ seen[Only(u)] \subseteq SavedFiles(GivenBelow(d))
        /\ \A q \in InputsOf(d) \ Remaining(body[w]) :
              SavedFiles(Matched(q)) \subseteq
                  IF Isolated(d) THEN seen[Only(u)] ELSE tmp \cup SavedFiles(body[w].files)
    BY <1>3, <1>4, <1>12, <2>1 DEF FilesInv, SeenInv, GivenSoFar, t
  <2>4. ~Isolated(d) /\ body[w].at = "saving"
    BY <1>3, <1>12, <2>1 DEF t
  <2>5. SavedFiles(body[w].files) \subseteq tmp' \cup SavedFiles(next.files)
    <3>1. \A k \in body[w].files : k = o \/ k \in next.files
      BY <1>0, <1>8, <2>4
    <3> QED
      BY <1>6, <3>1 DEF SavedFiles
  <2>6. \A q \in InputsOf(d) \ Remaining(next) : SavedFiles(Matched(q)) \subseteq tmp' \cup SavedFiles(next.files)
    <3>1. Remaining(next) = Remaining(body[w])
      BY <1>8 DEF Remaining
    <3> QED
      BY <1>6, <1>12, <2>3, <2>4, <2>5, <3>1
  <2>7. next.at # "exec"
    BY <1>8, <2>4
  <2>8. GivenSoFar(u, next)'
    BY <1>2, <2>2, <2>4, <2>6, <2>7 DEF GivenSoFar
  <2>9. seen'[Only(task[w])] = seen[Only(u)]
    BY <1>2, <2>1 DEF t
  <2> QED
    BY <2>2, <2>3, <2>8, <2>9
<1>13. ASSUME NEW f \in torn' PROVE (f \in torn /\ ~Rewriting(body[w], f)) \/ Rewriting(next, f)
  <2>1. f \in torn /\ f # Clean(o)
    BY <1>2
  <2>2. ASSUME NEW k \in body[w].files, Clean(k) = f PROVE Rewriting(next, f)
    <3>1. k \in left /\ body[w].at = "saving"
      BY <1>0, <1>3, <1>5, <2>1, <2>2
    <3>2. next.at = "saving" /\ next.files = left
      BY <1>8, <3>1
    <3> QED
      BY <2>2, <3>1, <3>2 DEF Rewriting
  <2> QED
    BY <2>1, <2>2 DEF Rewriting
<1>14. ASSUME PathsClean, NEW g \in tmp'
       PROVE  (g \in tmp /\ ~Setting(body[w], g.path)) \/ g.path \in store' \/ Setting(next, g.path)
  <2>1. CASE body[w].at = "writing"
    <3>1. /\ next.at = "set" /\ next.files = Found(w, tmp') /\ out \in Found(w, tmp') /\ o = out
          /\ SavedFile(o).path = out
      BY <1>5, <1>6, <1>7, <1>8, <1>14, <2>1
    <3> QED
      BY <1>5, <1>6, <2>1, <3>1 DEF Setting
  <2>2. CASE body[w].at = "saving"
    <3>1. SavedFile(o).path \in store' /\ \A f : ~Setting(body[w], f)
      BY <1>2, <1>4, <1>5, <1>6, <1>14, <2>2 DEF Placed, Setting
    <3> QED
      BY <1>6, <3>1
  <2> QED
    BY <1>3, <2>1, <2>2
<1>15. next.at # "end" /\ torn' \in SUBSET Path /\ store' \in SUBSET Path /\ seen' \in [UnitsOfPlan -> SUBSET File]
  BY <1>2, <1>3, <1>8 DEF FilesInv, FilesTypeOK
<1>16. PathsClean => \A k \in next.files : ValidFSPath(k)
  BY <1>0, <1>5, <1>7, <1>8
<1>17. PathsClean => (\A k \in UnitsOfPlan : Plain(seen'[k])) /\ \A k \in store' \cup next.files : ValidFSPath(k)
  BY <1>2, <1>16 DEF FilesInv, PlainInv
<1>18. StepKeeps(w, next)
  BY <1>2, <1>6, <1>8, <1>9, <1>11, <1>12, <1>13, <1>14, <1>15, <1>17 DEF StepKeeps, t
<1> QED
  BY <1>1, <1>3, <1>18, StepFilesInv

\* What a tool finds of the inputs of a validator is in the store: no body is
\* about to set a file there while its artifact is validated.
LEMMA NoLeftovers ==
    ASSUME FilesInv, failed = {}, PathsClean, Separate, NEW t \in Begun, t[2] = 3,
           NEW p \in InputsOf(Units(t)[1]), NEW g \in tmp, AtOrUnder(g.path, p)
    PROVE  g.path \in store
<1> SUFFICES ASSUME g.path \notin store PROVE FALSE
  OBVIOUS
<1>0. PICK f \in Path : f = g.path
  BY DEF FilesInv, FilesTypeOK, File
<1>1. PICK v \in Worker : worker[v] = "running" /\ Setting(body[v], f)
  BY <1>0 DEF FilesInv, TmpInv
<1>2. t \in Tasks /\ plan \in Plans
  BY BegunTasks DEF FilesInv, FilesTypeOK, IInv
<1>3. /\ body[v].at \in {"writing", "set"} /\ body[v].at # "end" /\ f \in body[v].files
      /\ task[v] \in Tasks /\ Placed(task[v], body[v]) /\ UnitOf(task[v], body[v]) = Current(v)
      /\ Doing(v)[1] = task[v]
  BY <1>1, DoingUnit DEF Setting
<1>4. Current(v).kind \in {"Kustomize", "Join", "Command"} /\ Current(v).kind \in Supported(task[v][2])
      /\ AtOrUnder(f, Current(v).output)
  BY <1>3 DEF Placed, AtOrUnder
<1>5. Producing(Doing(v))
  <2>1. task[v][2] # 3
    BY <1>4 DEF Supported
  <2> QED
    BY <1>3, <2>1 DEF Producing
<1>6. p \in PathsOf(t[1]) /\ t[1] \in Artifact
  BY <1>2, ValidatorInputs, TaskShape
<1>7. AtOrUnder(f, p)
  BY <1>0
<1> QED
  BY <1>1, <1>2, <1>3, <1>4, <1>5, <1>6, <1>7, Frozen

LEMMA StartToolInv == ASSUME FilesInv, NEW w \in Worker, StartTool(w) PROVE FilesInv'
<1> DEFINE t == task[w]
           read == ReadBy(Current(w), tmp)
<1>1. PICK next : next = Goto(w, "exec", {}) /\ Step(w, next)
  BY DEF StartTool
<1>2. /\ In(w, "inputs") /\ body[w].inputs = <<>> /\ Shared(Current(w))
      /\ seen' = [seen EXCEPT ![CurrentUnit(w)] = read] /\ UNCHANGED <<store, tmp, torn>>
  BY DEF StartTool, InputsRead
<1>3. /\ worker[w] = "running" /\ body[w].at = "inputs" /\ Current(w).kind \in Supported(t[2])
      /\ t[2] = 3 => Current(w) = Units(t)[1] /\ t \in Begun /\ t \in Tasks
  BY <1>2, AtPlace DEF Place
<1>4. /\ t \in Tasks /\ body[w] \in BodyState /\ Placed(t, body[w]) /\ plan \in Plans
      /\ UnitOf(t, body[w]) = Current(w) /\ body[w].unit \in DOMAIN Units(t)
      /\ CurrentUnit(w) \in UnitsOfPlan /\ CurrentUnit(w)[1] = t /\ UnitAt(CurrentUnit(w)) = Current(w)
  BY <1>3, DoingUnit DEF Doing, CurrentUnit
<1>5. /\ tmp \in SUBSET File /\ store \in SUBSET Path /\ seen \in [UnitsOfPlan -> SUBSET File]
      /\ torn \in SUBSET Path /\ read \in SUBSET File /\ read \subseteq tmp
      /\ PathsClean => Plain(tmp) /\ \A k \in store : ValidFSPath(k)
  BY DEF FilesInv, FilesTypeOK, PlainInv, ReadBy
<1>6. PathsClean => \A f \in tmp : f \in read <=> \E p \in InputsOf(Current(w)) : AtOrUnder(f.path, p)
  <2>1. ASSUME PathsClean, NEW p \in InputsOf(Current(w)) PROVE Clean(p) = p
    <3>1. p \in DeclaredBy(CurrentUnit(w)) /\ p \in Path
      BY <1>4, UnitShape DEF DeclaredBy
    <3>2. ValidFSPath(p)
      BY <1>4, <2>1, <3>1, CleanDeclared
    <3> QED
      BY <3>1, <3>2, CleanPath
  <2> QED
    BY <2>1 DEF ReadBy
<1>7. t[2] = 3 => CurrentUnit(w) = Only(t)
  <2> SUFFICES ASSUME t[2] = 3 PROVE CurrentUnit(w) = Only(t)
    OBVIOUS
  <2>1. body[w].unit = 1
    BY <1>4, UnitsType
  <2> QED
    BY <2>1 DEF CurrentUnit, Only
<1> HIDE DEF t, read
<1>8. /\ next \in BodyState /\ next.unit = body[w].unit /\ next.at = "exec" /\ next.files = {}
      /\ next.open = body[w].open /\ next.inputs = <<>>
  <2>1. PICK b \in BodyState : b = body[w]
    BY <1>4
  <2>2. next = [b EXCEPT !.at = "exec", !.files = {}]
    BY <1>1, <2>1 DEF Goto
  <2> QED
    BY <1>2, <2>1, <2>2 DEF BodyState, Place
<1>9. UnitOf(t, next) = Current(w) /\ next.unit \in DOMAIN Units(t)
      /\ \A k \in UnitsOfPlan : PassedBy(t, next, k) => PassedBy(t, body[w], k)
  BY <1>3, <1>8, SameUnit DEF t
<1>10. Remaining(body[w]) = {} /\ Remaining(next) = {} /\ body[w].files = {} /\ next.open = NoPath
  BY <1>2, <1>3, <1>4, <1>8 DEF Remaining, Placed
<1>11. Placed(t, next)
  BY <1>2, <1>3, <1>8, <1>9, <1>10 DEF Placed
<1>12. Placed(task[w], next)'
  BY <1>1, <1>2, <1>3, <1>11, PlacedNext DEF t
<1>13. /\ seen' \in [UnitsOfPlan -> SUBSET File] /\ seen'[CurrentUnit(w)] = read
       /\ \A k \in UnitsOfPlan \ {CurrentUnit(w)} : seen'[k] = seen[k]
  BY <1>2, <1>4, <1>5
<1>14. ASSUME failed = {}, PathsClean, Separate, task[w][2] = 3
       PROVE  /\ seen'[Only(task[w])] \subseteq SavedFiles(GivenBelow(Units(task[w])[1])')
              /\ GivenSoFar(task[w], next)'
  <2>1. PICK u, d : u = t /\ d = Units(t)[1] /\ d = Current(w)
    BY <1>3, <1>14 DEF t
  <2>2. u = task'[w] /\ d = Units(task[w])[1]' /\ d = Units(u)[1] /\ Units(u)' = Units(u)
        /\ (Isolated(d)' <=> Isolated(d))
        /\ GivenBelow(d)' = GivenBelow(d) /\ Given(d)' = Given(d)
    BY <1>1, <1>2, <1>3, <2>1, StepRest DEF t
  <2>3. \A q \in InputsOf(d) :
           SavedFiles(Matched(q)) \subseteq IF Isolated(d) THEN seen[Only(u)] ELSE tmp
    <3>1. SavedFiles({}) = {}
      BY DEF SavedFiles
    <3> QED
      BY <1>3, <1>4, <1>10, <1>14, <2>1, <3>1 DEF FilesInv, SeenInv, GivenSoFar, t
  <2>4. ~Isolated(d)
    BY <1>2, <2>1 DEF Shared
  <2>5. read \subseteq SavedFiles(GivenBelow(d))
    <3>1. ASSUME NEW f \in read PROVE f \in SavedFiles(GivenBelow(d))
      <4>1. f \in tmp
        BY <1>5
      <4>2. PICK p \in InputsOf(d) : AtOrUnder(f.path, p)
        BY <1>6, <1>14, <2>1, <4>1
      <4>3. u \in Begun /\ u[2] = 3
        BY <1>3, <1>14, <2>1 DEF t
      <4>4. f.path \in store
        BY <1>14, <2>2, <4>1, <4>2, <4>3, NoLeftovers
      <4>5. f = SavedFile(f.path)
        BY <1>5, <1>14, <4>1, PlainFile
      <4>6. f.path \in GivenBelow(d)
        BY <4>2, <4>4 DEF GivenBelow
      <4> QED
        BY <4>5, <4>6 DEF SavedFiles
    <3> QED
      BY <3>1
  <2>6. SavedFiles(Given(d)) \subseteq read
    <3>1. ASSUME NEW q \in InputsOf(d), NEW k \in Matched(q) PROVE SavedFile(k) \in read
      <4>1. SavedFile(k) \in tmp /\ AtOrUnder(k, q) /\ k \in store
        BY <2>3, <2>4, <3>1, MatchedGiven DEF SavedFiles
      <4>2. SavedFile(k).path = k
        BY <1>5, <1>14, <4>1, SavedTyped
      <4> QED
        BY <1>6, <1>14, <2>1, <4>1, <4>2
    <3> QED
      BY <3>1 DEF Given, SavedFiles
  <2>7. seen'[Only(task[w])] = read /\ seen'[Only(u)] = read
    BY <1>7, <1>13, <1>14, <2>1 DEF t
  <2>8. GivenSoFar(u, next)'
    <3>1. Given(Units(u)[1])' = Given(d)
      BY <2>2
    <3> QED
      BY <1>8, <2>6, <2>7, <3>1 DEF GivenSoFar
  <2> QED
    BY <2>2, <2>5, <2>7, <2>8
<1>15. /\ \A k \in UnitsOfPlan : k[1] # task[w] => seen'[k] = seen[k]
       /\ \A f : ~Rewriting(body[w], f) /\ ~Setting(body[w], f)
  BY <1>3, <1>4, <1>13 DEF Rewriting, Setting, t
<1>16. PathsClean => Plain(tmp') /\ \A k \in UnitsOfPlan : Plain(seen'[k])
  BY <1>2, <1>5, <1>13 DEF FilesInv, PlainInv, Plain
<1>17. PathsClean => \A k \in store' \cup next.files : ValidFSPath(k)
  BY <1>2, <1>5, <1>8
<1>18. StepKeeps(w, next)
  BY <1>2, <1>3, <1>5, <1>8, <1>9, <1>12, <1>13, <1>14, <1>15, <1>16, <1>17 DEF StepKeeps, t
<1> QED
  BY <1>1, <1>3, <1>18, StepFilesInv

\* A command leaves a file or a directory at its output.
LEMMA CommandOutput ==
    ASSUME NEW u, u.output \in Path, NEW fs \in Outputs(u) \cup {{}}
    PROVE  /\ fs \in SUBSET Path
           /\ \A f \in fs : AtOrUnder(f, u.output) /\ (ValidFSPath(u.output) => ValidFSPath(f))
<1>1. \A n \in Leaf : n \in STRING \ DotSegment
  BY FilesAssumption
<1>2. AtOrUnder(u.output, u.output)
  BY DEF AtOrUnder
<1>3. \/ \A f \in fs : f = u.output
      \/ \A f \in fs : \E n \in Leaf : f = u.output \o <<n>>
  BY DEF Outputs
<1>4. ASSUME NEW f \in fs
      PROVE  f \in Path /\ AtOrUnder(f, u.output) /\ (ValidFSPath(u.output) => ValidFSPath(f))
  <2>1. CASE f = u.output
    BY <1>2, <2>1
  <2>2. ASSUME NEW n \in Leaf, f = u.output \o <<n>>
        PROVE  f \in Path /\ AtOrUnder(f, u.output) /\ (ValidFSPath(u.output) => ValidFSPath(f))
    <3> DEFINE x == u.output \o <<n>>
    <3>0. n \in STRING \ DotSegment
      BY <1>1
    <3>1. x \in Path /\ AtOrUnder(x, u.output) /\ (ValidFSPath(u.output) => ValidFSPath(x))
      BY <3>0, FileBelow, Zenon
    <3>2. f = x
      BY <2>2, Zenon
    <3> HIDE DEF x
    <3> QED
      BY <3>1, <3>2
  <2> QED
    BY <1>3, <2>1, <2>2, Zenon
<1> QED
  BY <1>4

\* A command ends and what it left at its output is loaded.
LEMMA CommandInv ==
    ASSUME FilesInv, NEW w \in Worker, In(w, "exec"), Current(w).kind = "Command", ~Current(w).stdout,
           NEW fs \in Outputs(Current(w)) \cup {{}}, tmp' = Overwrite(tmp, SavedFiles(fs)),
           NEW next, next = Goto(w, "set", Found(w, tmp')), Step(w, next),
           UNCHANGED <<store, seen, torn>>
    PROVE  FilesInv'
<1> DEFINE t == task[w]
<1>1. /\ worker[w] = "running" /\ body[w].at = "exec" /\ body[w].at # "end" /\ t[2] # 3
      /\ Current(w).output \in Path /\ Current(w).kind \in Supported(t[2])
  BY AtPlace DEF Place
<1>2. /\ t \in Tasks /\ body[w] \in BodyState /\ Placed(t, body[w]) /\ plan \in Plans
      /\ UnitOf(t, body[w]) = Current(w) /\ UnitAt(Doing(w)) = Current(w)
  BY <1>1, DoingUnit
<1>3. /\ fs \in SUBSET Path
      /\ \A f \in fs : AtOrUnder(f, Current(w).output) /\ (ValidFSPath(Current(w).output) => ValidFSPath(f))
  BY <1>1, CommandOutput
<1>4. PathsClean => ValidFSPath(Current(w).output)
  <2>1. Doing(w) \in UnitsOfPlan /\ UnitAt(Doing(w)) = Current(w) /\ Producing(Doing(w))
    BY <1>1, AtPlace, DoingUnit DEF Place
  <2>2. Current(w).output \in DeclaredBy(Doing(w))
    BY <2>1 DEF DeclaredBy
  <2> QED
    BY <1>2, <2>1, <2>2, CleanDeclared
<1>5. PICK new \in SUBSET File : /\ new = SavedFiles(fs)
                                 /\ PathsClean => Plain(new) /\ \A g \in new : g.path \in fs
  <2>1. PathsClean => \A f \in fs : ValidFSPath(f) /\ SavedFile(f).path = f
    BY <1>3, <1>4, SavedTyped
  <2>2. PathsClean => \A g \in SavedFiles(fs) : g.path \in fs
    BY <2>1 DEF SavedFiles
  <2> QED
    BY <1>3, <2>1, <2>2, SavedFilesTyped, SavedPlain
<1>6. tmp \in SUBSET File /\ (PathsClean => Plain(tmp))
  BY DEF FilesInv, FilesTypeOK, PlainInv
<1>7. tmp' \in SUBSET File /\ (PathsClean => tmp' = tmp \cup new /\ Plain(tmp'))
  <2>1. tmp' = Overwrite(tmp, new)
    BY <1>5
  <2>2. Overwrite(tmp, new) \in SUBSET File
    BY <1>6, TreesTyped
  <2>3. PathsClean => Overwrite(tmp, new) = tmp \cup new /\ Plain(tmp \cup new)
    BY <1>5, <1>6, PlainTrees
  <2> QED
    BY <2>1, <2>2, <2>3
<1>8. PICK found \in SUBSET Path :
        /\ found = Found(w, tmp')
        /\ \A f \in found : AtOrUnder(f, Current(w).output) /\ (PathsClean => ValidFSPath(f))
        /\ PathsClean => \A g \in tmp' : AtOrUnder(g.path, Current(w).output) => g.path \in found
  BY <1>4, <1>7, FoundShape
<1> HIDE DEF t
<1>9. /\ next \in BodyState /\ next.unit = body[w].unit /\ next.at = "set" /\ next.files = found
      /\ next.open = body[w].open /\ next.inputs = body[w].inputs
  <2>1. PICK b \in BodyState : b = body[w]
    BY <1>2
  <2>2. next = [b EXCEPT !.at = "set", !.files = found]
    BY <1>8, <2>1 DEF Goto
  <2> QED
    BY <1>8, <2>1, <2>2 DEF BodyState, Place
<1>10. /\ UnitOf(t, next) = Current(w) /\ next.unit \in DOMAIN Units(t)
       /\ \A k \in UnitsOfPlan : PassedBy(t, next, k) => PassedBy(t, body[w], k) \/ k = Doing(w)
  BY <1>1, <1>9, SameUnit DEF t
<1>11. Placed(t, next)
  <2>1. Remaining(next) \subseteq InputsOf(Current(w)) /\ next.open = NoPath
    BY <1>1, <1>2, <1>9 DEF Placed, Remaining
  <2> QED
    BY <1>1, <1>8, <1>9, <1>10, <2>1 DEF Placed
<1>12. Placed(task[w], next)'
  BY <1>1, <1>11, PlacedNext DEF t
<1>13. ~MakesFile(Doing(w))
  BY <1>2 DEF MakesFile
<1>14. ASSUME PathsClean, NEW g \in tmp' PROVE g \in tmp \/ Setting(next, g.path)
  BY <1>3, <1>5, <1>7, <1>8, <1>9, <1>14 DEF Setting
<1>15. \A f : ~Rewriting(body[w], f) /\ ~Setting(body[w], f)
  BY <1>1 DEF Rewriting, Setting
<1>16. /\ store' \in SUBSET Path /\ torn' \in SUBSET Path /\ seen' \in [UnitsOfPlan -> SUBSET File]
       /\ PathsClean => (\A k \in UnitsOfPlan : Plain(seen'[k])) /\ \A k \in store' \cup next.files : ValidFSPath(k)
  BY <1>8, <1>9 DEF FilesInv, FilesTypeOK, PlainInv
<1>17. StepKeeps(w, next)
  BY <1>1, <1>7, <1>9, <1>10, <1>12, <1>13, <1>14, <1>15, <1>16 DEF StepKeeps, t
<1> QED
  BY <1>1, <1>17, StepFilesInv

LEMMA ExitInv == ASSUME FilesInv, NEW w \in Worker, Exit(w) PROVE FilesInv'
<1> DEFINE t == task[w]
           u == Current(w)
<1>1. In(w, "exec") /\ UNCHANGED <<store, seen, torn>>
  BY DEF Exit
<1>2. /\ worker[w] = "running" /\ body[w].at = "exec"
      /\ u.kind = "Validator" <=> t[2] = 3
      /\ t[2] = 3 => u = Units(t)[1] /\ t \in Tasks
  BY <1>1, AtPlace DEF Place
<1>3. CASE u.kind = "Validator" /\ Step(w, NextUnit(w)) /\ UNCHANGED tmp
  <2>1. PICK next : next = NextUnit(w) /\ Step(w, next)
    BY <1>3
  <2>2. failed = {} /\ PathsClean /\ Separate => SavedFiles(Given(Units(t)[1])) \subseteq seen[Only(t)]
    BY <1>2, <1>3 DEF FilesInv, SeenInv, GivenSoFar
  <2> QED
    BY <1>1, <1>3, <2>1, <2>2, ValidatorEnds
<1>4. CASE u.kind = "Command" /\ u.stdout /\ Step(w, Goto(w, "writing", {u.output})) /\ UNCHANGED tmp
  <2>1. PICK next : next = Goto(w, "writing", {u.output}) /\ Step(w, next)
    BY <1>4
  <2> QED
    BY <1>1, <1>4, <2>1, GoOutInv
<1>5. ASSUME u.kind = "Command", ~u.stdout, NEW fs \in Outputs(u) \cup {{}},
             tmp' = Overwrite(tmp, SavedFiles(fs)), Step(w, Goto(w, "set", Found(w, tmp')))
      PROVE  FilesInv'
  <2>1. PICK next : next = Goto(w, "set", Found(w, tmp')) /\ Step(w, next)
    BY <1>5
  <2> QED
    BY <1>1, <1>5, <2>1, CommandInv
<1> QED
  BY <1>3, <1>4, <1>5 DEF Exit

LEMMA SetFileInv == ASSUME FilesInv, NEW w \in Worker, NEW f \in body[w].files, SetFile(w, f) PROVE FilesInv'
<1> DEFINE t == task[w]
<1>1. PICK next : /\ Step(w, next)
                  /\ next = IF body[w].files = {f} THEN NextUnit(w) ELSE Goto(w, "set", body[w].files \ {f})
  BY DEF SetFile
<1>2. /\ In(w, "set") /\ f \notin store /\ store' = store \cup {f} /\ UNCHANGED <<seen, tmp, torn>>
  BY DEF SetFile, Settable
<1>3. /\ worker[w] = "running" /\ body[w].at = "set" /\ body[w].at # "end" /\ Current(w).kind \in Supported(t[2])
      /\ Current(w).kind = "Validator" <=> t[2] = 3
      /\ Producing(Doing(w)) <=> t[2] # 3
  BY <1>2, AtPlace DEF Place
<1>4. /\ t \in Tasks /\ body[w] \in BodyState /\ Placed(t, body[w]) /\ plan \in Plans
      /\ UnitOf(t, body[w]) = Current(w) /\ UnitAt(Doing(w)) = Current(w)
  BY <1>3, DoingUnit
<1>5. /\ Current(w).kind \in {"Kustomize", "Join", "Command"} /\ body[w].open = NoPath
      /\ \A g \in body[w].files : AtOrUnder(g, Current(w).output)
  BY <1>3, <1>4 DEF Placed
<1>6. t[2] # 3 /\ Producing(Doing(w))
  BY <1>3, <1>5
<1>7. /\ f \in Path /\ store' \in SUBSET Path /\ tmp' \in SUBSET File
      /\ torn' \in SUBSET Path /\ seen' \in [UnitsOfPlan -> SUBSET File]
  BY <1>2, <1>4 DEF FilesInv, FilesTypeOK, BodyState
<1>8. PathsClean => /\ Plain(tmp') /\ \A k \in UnitsOfPlan : Plain(seen'[k])
                    /\ \A k \in store' \cup body[w].files : ValidFSPath(k)
  BY <1>2, <1>3 DEF FilesInv, PlainInv
<1> HIDE DEF t
<1>9. \A g \in store' \ store : body[w].at # "end" /\ Producing(Doing(w)) /\ AtOrUnder(g, Current(w).output)
  BY <1>2, <1>3, <1>5, <1>6
<1>10. \A g \in torn' : g \in torn /\ ~Rewriting(body[w], g)
  BY <1>2, <1>3 DEF Rewriting
<1>11. CASE body[w].files = {f}
  <2>1. next = NextUnit(w)
    BY <1>1, <1>11
  <2>2. /\ next \in BodyState /\ next.at \in {"generate", "inputs", "end"}
        /\ next.at = "end" \/ Placed(task[w], next)
        /\ next.files = {}
    BY <1>3, <2>1, NextUnitPlaced
  <2>3. next.at = "end" \/ Placed(task[w], next)'
    BY <1>1, <1>2, <1>3, <2>2, PlacedNext
  <2>4. ASSUME NEW k \in UnitsOfPlan, k[1] = t, next.at = "end" \/ PassedBy(t, next, k)
        PROVE  PassedBy(t, body[w], k) \/ (k = Doing(w) /\ UnitAt(k).output \notin store /\ UnitAt(k).output \in store')
    <3>1. k[2] < body[w].unit \/ k = Doing(w)
      BY <1>3, <2>1, <2>4, NextUnitPasses DEF t
    <3>2. CASE k[2] < body[w].unit
      BY <2>4, <3>2 DEF PassedBy
    <3>3. CASE k = Doing(w)
      <4>1. k[2] = body[w].unit
        BY <3>3 DEF Doing
      <4>2. CASE UnitAt(k).output = f
        BY <1>2, <3>3, <4>2
      <4>3. CASE UnitAt(k).output # f
        BY <1>3, <1>11, <2>4, <4>1, <4>3 DEF PassedBy
      <4> QED
        BY <4>2, <4>3
    <3> QED
      BY <3>1, <3>2, <3>3
  <2>5. ASSUME NEW g \in tmp' PROVE (g \in tmp /\ ~Setting(body[w], g.path)) \/ g.path \in store'
    BY <1>2, <1>11 DEF Setting
  <2>6. StepKeeps(w, next)
    BY <1>2, <1>6, <1>7, <1>8, <1>9, <1>10, <2>2, <2>3, <2>4, <2>5 DEF StepKeeps, t
  <2> QED
    BY <1>1, <1>3, <2>6, StepFilesInv
<1>12. CASE body[w].files # {f}
  <2>1. PICK left : left = body[w].files \ {f}
    OBVIOUS
  <2>2. /\ next \in BodyState /\ next.unit = body[w].unit /\ next.at = "set" /\ next.files = left
        /\ next.open = body[w].open /\ next.inputs = body[w].inputs
    <3>1. PICK b \in BodyState : b = body[w]
      BY <1>4
    <3>2. next = [b EXCEPT !.at = "set", !.files = left]
      BY <1>1, <1>12, <2>1, <3>1 DEF Goto
    <3>3. left \in SUBSET Path
      BY <2>1, <3>1 DEF BodyState
    <3> QED
      BY <3>1, <3>2, <3>3 DEF BodyState, Place
  <2>3. /\ UnitOf(t, next) = Current(w) /\ next.unit \in DOMAIN Units(t)
        /\ \A k \in UnitsOfPlan : PassedBy(t, next, k) =>
              \/ PassedBy(t, body[w], k)
              \/ k = Doing(w) /\ left # {} /\ Current(w).output \notin left
    BY <1>3, <2>2, SameUnit DEF t
  <2>4. Placed(t, next)
    <3>1. Remaining(next) \subseteq InputsOf(Current(w)) /\ next.open = NoPath
      BY <1>3, <1>4, <1>5, <2>2 DEF Placed, Remaining
    <3> QED
      BY <1>3, <1>5, <2>1, <2>2, <2>3, <3>1 DEF Placed
  <2>5. Placed(task[w], next)'
    BY <1>1, <1>2, <1>3, <2>4, PlacedNext DEF t
  <2>6. ASSUME NEW k \in UnitsOfPlan, PassedBy(t, next, k)
        PROVE  PassedBy(t, body[w], k) \/ (k = Doing(w) /\ UnitAt(k).output \notin store /\ UnitAt(k).output \in store')
    <3>1. CASE k = Doing(w) /\ Current(w).output \notin left
      <4>1. k[1] = t /\ k[2] = body[w].unit
        BY <3>1 DEF Doing, t
      <4>2. CASE Current(w).output = f
        BY <1>2, <1>4, <3>1, <4>2
      <4>3. CASE Current(w).output # f
        BY <1>3, <1>4, <2>1, <3>1, <4>1, <4>3 DEF PassedBy
      <4> QED
        BY <4>2, <4>3
    <3> QED
      BY <2>3, <2>6, <3>1
  <2>7. ASSUME NEW g \in tmp' PROVE (g \in tmp /\ ~Setting(body[w], g.path)) \/ g.path \in store' \/ Setting(next, g.path)
    BY <1>2, <2>1, <2>2 DEF Setting
  <2>8. StepKeeps(w, next)
    BY <1>2, <1>6, <1>7, <1>8, <1>9, <1>10, <2>1, <2>2, <2>5, <2>6, <2>7 DEF StepKeeps, t
  <2> QED
    BY <1>1, <1>3, <2>8, StepFilesInv
<1> QED
  BY <1>11, <1>12

LEMMA DoneInv == ASSUME FilesInv, NEW w \in Worker, Done(w) PROVE FilesInv'
<1> DEFINE t == task[w]
<1>1. worker[w] = "running" /\ body[w].at = "end" /\ Succeed(w) /\ UNCHANGED fileVars
  BY DEF Done, In
<1>2. t \in Tasks /\ Placed(t, body[w]) /\ body \in [Worker -> BodyState] /\ plan \in Plans
  BY <1>1 DEF FilesInv, IInv, SentInv, PlaceInv, FilesTypeOK
<1>3. Units(t) = <<>> /\ body[w] \in BodyState
  BY <1>1, <1>2 DEF Placed
<1>4. PICK next : next = body[w]
  OBVIOUS
<1>5. Step(w, next)
  BY <1>1, <1>2, <1>4 DEF Step, fileVars
<1>6. t[2] # 3
  <2>1. t[2] = 3 => Len(Units(t)) = 1
    BY <1>2, UnitsType
  <2> QED
    BY <1>3, <2>1
<1>7. \A k \in UnitsOfPlan : k[1] # t
  <2>1. ASSUME NEW k \in UnitsOfPlan, k[1] = t PROVE FALSE
    <3>1. k[2] \in DOMAIN Units(t)
      BY <1>2, <2>1, UnitShape
    <3> QED
      BY <1>3, <3>1
  <2> QED
    BY <2>1
<1>8. UNCHANGED <<store, seen, tmp, torn>>
  BY <1>1 DEF fileVars
<1>9. PathsClean => \A k \in next.files : ValidFSPath(k)
  BY <1>1, <1>4 DEF FilesInv, PlainInv
<1>10. \A f : ~Rewriting(body[w], f) /\ ~Setting(body[w], f)
  BY <1>1 DEF Rewriting, Setting
<1>11. StepKeeps(w, next)
  BY <1>1, <1>3, <1>4, <1>6, <1>7, <1>8, <1>9, <1>10, NothingWritten DEF StepKeeps
<1> QED
  BY <1>1, <1>5, <1>11, StepFilesInv

-----------------------------------------------------------------------------
(***************************************************************************)
(* The end of a body, and the steps of the pipelines and the workers.      *)
(***************************************************************************)

LEMMA BodyInv == ASSUME FilesInv, NEW w \in Worker, Body(w) PROVE FilesInv'
<1>1. CASE Generate(w) \/ SaveInput(w) \/ Kustomized(w) \/ Validated(w) \/ Joined(w) \/ StartTool(w)
  BY <1>1, GenerateInv, SaveInputInv, KustomizedInv, ValidatedInv, JoinedInv, StartToolInv
<1>2. ASSUME NEW i \in DOMAIN body[w].inputs,
             SaveIsolated(w, body[w].inputs[i]) \/ GetInput(w, body[w].inputs[i])
      PROVE  FilesInv'
  <2>1. PICK p : p = body[w].inputs[i]
    OBVIOUS
  <2> QED
    BY <1>2, <2>1, ReadsInv
<1>3. ASSUME NEW f \in body[w].files, Truncate(w, f) \/ SetFile(w, f) PROVE FilesInv'
  BY <1>3, TruncateInv, SetFileInv
<1>4. CASE Rewrite(w) \/ Exit(w) \/ Done(w)
  BY <1>4, RewriteInv, ExitInv, DoneInv
<1> QED
  BY <1>1, <1>2, <1>3, <1>4 DEF Body

\* A file that a body is rewriting belongs to a path its unit declares.
LEMMA RewritingDeclared ==
    ASSUME FilesInv, NEW w \in Worker, worker[w] = "running", NEW f, Rewriting(body[w], f)
    PROVE  \E k \in UnitsOfPlan : k[1] = task[w] /\ \E p \in DeclaredBy(k) : f \in FilesOf(p)
<1>1. PICK q \in body[w].files : Clean(q) = f
  BY DEF Rewriting
<1>2. body[w].at \in {"saving", "writing"} /\ body[w].at # "end"
  BY DEF Rewriting
<1>3. /\ Doing(w) \in UnitsOfPlan /\ Doing(w)[1] = task[w] /\ UnitAt(Doing(w)) = Current(w)
      /\ UnitOf(task[w], body[w]) = Current(w) /\ Placed(task[w], body[w])
  BY <1>2, DoingUnit
<1>4. CASE body[w].at = "saving"
  <2>1. PICK p \in InputsOf(Current(w)) : AtOrUnder(q, p)
    BY <1>1, <1>3, <1>4 DEF Placed
  <2>2. q \in store
    BY <1>1, <1>3, <1>4 DEF Placed
  <2>3. p \in DeclaredBy(Doing(w))
    BY <1>3, <2>1 DEF DeclaredBy
  <2>4. f \in FilesOf(p)
    BY <1>1, <2>1, <2>2 DEF FilesOf
  <2> QED
    BY <1>3, <2>3, <2>4
<1>5. CASE body[w].at = "writing"
  <2>1. /\ q = Current(w).output /\ Current(w).kind \in {"Join", "Command"}
        /\ Current(w).kind \in Supported(task[w][2])
    BY <1>1, <1>3, <1>5 DEF Placed
  <2>2. task[w][2] # 3
    BY <2>1 DEF Supported
  <2>3. Current(w).output \in DeclaredBy(Doing(w))
    BY <1>3, <2>2 DEF DeclaredBy, Producing
  <2>4. f \in FilesOf(Current(w).output)
    BY <1>1, <2>1 DEF FilesOf, AtOrUnder
  <2> QED
    BY <1>3, <2>3, <2>4
<1> QED
  BY <1>2, <1>4, <1>5

\* A task fails: what it was rewriting stays torn, and belongs to its unit.
LEMMA FailInv == ASSUME FilesInv, NEW w \in Worker, Fail(w), UNCHANGED fileVars PROVE FilesInv'
<1> DEFINE t == task[w]
<1>1. /\ worker[w] = "running" /\ failed' = failed \cup {t} /\ worker' = [worker EXCEPT ![w] = "failing"]
      /\ UNCHANGED <<stage, sent, written, perr, task, succeeded>>
      /\ UNCHANGED <<plan, store, body, seen, tmp, torn, deploy>>
  BY DEF Fail, pipelines, fileVars
<1>2. TypeOK /\ IInv /\ BegunInv /\ t \in Running /\ t \in Tasks
  BY <1>1 DEF FilesInv, IInv, SentInv, Running
<1>3. \A v \in Worker : worker'[v] = "running" <=> worker[v] = "running" /\ v # w
  BY <1>1, <1>2 DEF TypeOK
<1>4. /\ UnitsOfPlan' = UnitsOfPlan /\ PathsClean' = PathsClean
      /\ \A u : Units(u)' = Units(u)
      /\ \A k : UnitAt(k)' = UnitAt(k) /\ DeclaredBy(k)' = DeclaredBy(k) /\ (MakesFile(k)' <=> MakesFile(k))
  BY <1>1, PlanSame
<1>5. [Next]_vars
  BY DEF Next, Work
<1>6. IInv' /\ BegunInv'
  BY <1>2, <1>5, NextIInv, BegunStep
<1> HIDE DEF t
<1>7. FilesTypeOK' /\ PlainInv'
  BY <1>1, <1>3, <1>4 DEF FilesInv, FilesTypeOK, PlainInv, Plain
<1>8. PlaceInv'
  <2> SUFFICES ASSUME NEW v \in Worker, worker'[v] = "running" PROVE Placed(task[v], body[v])'
    BY DEF PlaceInv
  <2>1. PICK u, b : u = task[v] /\ b = body[v]
    OBVIOUS
  <2>2. Placed(u, b)
    BY <1>3, <2>1 DEF FilesInv, PlaceInv
  <2>3. Placed(u, b)'
    BY <1>1, <2>2, PlacedKept
  <2> QED
    BY <1>1, <2>1, <2>3
<1>9. OnceInv'
  <2>1. \A k \in UnitsOfPlan : Passed(k)' => Passed(k)
    BY <1>1, <1>3, <1>4 DEF Passed, PassedBy
  <2> QED
    BY <1>1, <1>4, <2>1 DEF FilesInv, OnceInv
<1>10. TornInv'
  <2> SUFFICES ASSUME NEW f \in torn
               PROVE  \/ \E v \in Worker : worker'[v] = "running" /\ Rewriting(body[v], f)
                      \/ \E k \in UnitsOfPlan : k[1] \in failed' /\ \E p \in DeclaredBy(k) : f \in FilesOf(p)
    BY <1>1, <1>4 DEF TornInv, FilesOf
  <2>1. \/ \E v \in Worker : worker[v] = "running" /\ Rewriting(body[v], f)
        \/ \E k \in UnitsOfPlan : k[1] \in failed /\ \E p \in DeclaredBy(k) : f \in FilesOf(p)
    BY DEF FilesInv, TornInv
  <2>2. CASE Rewriting(body[w], f)
    <3>1. \E k \in UnitsOfPlan : k[1] = t /\ \E p \in DeclaredBy(k) : f \in FilesOf(p)
      BY <1>1, <2>2, RewritingDeclared DEF t
    <3> QED
      BY <1>1, <3>1
  <2>3. CASE ~Rewriting(body[w], f)
    BY <1>1, <1>3, <2>1, <2>3
  <2> QED
    BY <2>2, <2>3
<1>11. failed' # {}
  BY <1>1
<1>12. TmpInv' /\ DeployInv' /\ SeenInv'
  BY <1>11 DEF TmpInv, DeployInv, SeenInv
<1> QED
  BY <1>6, <1>7, <1>8, <1>9, <1>10, <1>12 DEF FilesInv

\* The steps of the pipelines and of the workers that are not running a task.
LEMMA IdleFilesInv ==
    ASSUME FilesInv, [Next]_vars, UNCHANGED <<plan, store, body, seen, tmp, torn, task, succeeded, failed>>,
           \A v \in Worker : worker'[v] = "running" <=> worker[v] = "running",
           DeployInv'
    PROVE  FilesInv'
<1>1. /\ UnitsOfPlan' = UnitsOfPlan /\ Separate' = Separate /\ PathsClean' = PathsClean
      /\ \A u : Units(u)' = Units(u)
      /\ \A k : UnitAt(k)' = UnitAt(k) /\ DeclaredBy(k)' = DeclaredBy(k) /\ (MakesFile(k)' <=> MakesFile(k))
      /\ \A u : Isolated(u)' <=> Isolated(u)
  BY PlanSame
<1>2. IInv' /\ BegunInv'
  BY NextIInv, BegunStep DEF FilesInv
<1>3. Begun' = Begun
  BY DEF Begun, Running
<1>4. FilesTypeOK' /\ PlainInv'
  BY <1>1 DEF FilesInv, FilesTypeOK, PlainInv, Plain
<1>5. PlaceInv'
  <2> SUFFICES ASSUME NEW v \in Worker, worker'[v] = "running" PROVE Placed(task[v], body[v])'
    BY DEF PlaceInv
  <2>1. PICK u, b : u = task[v] /\ b = body[v]
    OBVIOUS
  <2>2. Placed(u, b)
    BY <2>1 DEF FilesInv, PlaceInv
  <2>3. Placed(u, b)'
    BY <2>2, PlacedKept
  <2> QED
    BY <2>1, <2>3
<1>6. OnceInv'
  <2>1. \A k \in UnitsOfPlan : Passed(k)' => Passed(k)
    BY <1>1 DEF Passed, PassedBy
  <2> QED
    BY <1>1, <2>1 DEF FilesInv, OnceInv
<1>7. TornInv' /\ TmpInv'
  BY <1>1, <1>3 DEF FilesInv, TornInv, TmpInv, FilesOf
<1>8. SeenInv'
  <2>1. \A p : Matched(p)' = Matched(p)
    BY DEF Matched
  <2>2. \A u : Given(u)' = Given(u) /\ GivenBelow(u)' = GivenBelow(u)
    BY <2>1 DEF Given, GivenBelow
  <2>3. \A u, b : GivenSoFar(u, b) => GivenSoFar(u, b)'
    BY <1>1, <2>1, <2>2 DEF GivenSoFar
  <2> SUFFICES ASSUME failed = {}, PathsClean, Separate, NEW u \in Tasks, u[2] = 3
               PROVE  /\ u \notin Begun => seen[Only(u)] = {}
                      /\ seen[Only(u)] \subseteq SavedFiles(GivenBelow(Units(u)[1])')
                      /\ u \in succeeded => SavedFiles(Given(Units(u)[1])') \subseteq seen[Only(u)]
                      /\ \A v \in Worker : worker'[v] = "running" /\ task[v] = u => GivenSoFar(u, body[v])'
    BY <1>1, <1>3 DEF SeenInv
  <2>4. /\ u \notin Begun => seen[Only(u)] = {}
        /\ seen[Only(u)] \subseteq SavedFiles(GivenBelow(Units(u)[1]))
        /\ u \in succeeded => SavedFiles(Given(Units(u)[1])) \subseteq seen[Only(u)]
        /\ \A v \in Worker : worker[v] = "running" /\ task[v] = u => GivenSoFar(u, body[v])
    BY DEF FilesInv, SeenInv
  <2>5. PICK d : d = Units(u)[1] /\ d = Units(u)[1]'
    BY <1>1
  <2>6. ASSUME NEW v \in Worker, worker'[v] = "running", task[v] = u PROVE GivenSoFar(u, body[v])'
    <3>1. PICK b : b = body[v]
      OBVIOUS
    <3>2. GivenSoFar(u, b)'
      BY <2>3, <2>4, <2>6, <3>1
    <3> QED
      BY <3>1, <3>2
  <2> QED
    BY <2>2, <2>4, <2>5, <2>6
<1> QED
  BY <1>2, <1>4, <1>5, <1>6, <1>7, <1>8 DEF FilesInv

LEMMA ScheduleInv == ASSUME FilesInv, Schedule \/ UNCHANGED filesVars PROVE FilesInv'
<1>1. UNCHANGED <<plan, store, body, seen, tmp, torn, deploy>>
  BY DEF Schedule, fileVars, filesVars
<1>2. [Next]_vars
  BY DEF Schedule, Next, Pipeline, Work, filesVars
<1>3. TypeOK
  BY DEF FilesInv, IInv
<1>4. /\ UNCHANGED <<task, succeeded, failed, written>>
      /\ \A v \in Worker : worker'[v] = "running" <=> worker[v] = "running"
      /\ perr' = NoErr => perr = NoErr
  <2>1. ASSUME NEW a \in Artifact, Abort(a) \/ Wait(a)
        PROVE  UNCHANGED <<task, succeeded, failed, written, worker>> /\ (perr' = NoErr => perr = NoErr)
    BY <2>1 DEF Abort, Wait, pool, FirstOf
  <2>2. ASSUME NEW w \in Worker, Record(w) \/ Quit(w) \/ Drained(w)
        PROVE  /\ UNCHANGED <<task, succeeded, failed, written, perr>>
               /\ \A v \in Worker : worker'[v] = "running" <=> worker[v] = "running"
    <3>1. /\ worker[w] \in {"failing", "idle"} /\ worker' = [worker EXCEPT ![w] = "exited"]
          /\ UNCHANGED <<task, succeeded, failed, written, perr>>
      BY <2>2 DEF Record, Quit, Drained, pipelines
    <3> QED
      BY <1>3, <3>1 DEF TypeOK
  <2>3. ASSUME Produce \/ UNCHANGED filesVars PROVE UNCHANGED <<task, succeeded, failed, written, worker, perr>>
    BY <2>3 DEF Produce, Close, RecordProducer, pipelines, pool, filesVars, vars
  <2> QED
    BY <2>1, <2>2, <2>3 DEF Schedule
<1>5. \A a : Declared(a)' = Declared(a)
  BY <1>1 DEF Declared
<1>6. \A p : Matched(p)' = Matched(p)
  BY <1>1 DEF Matched
<1>7. Separate' = Separate /\ PathsClean' = PathsClean
  BY <1>1, PlanSame
<1>8. DeployInv'
  BY <1>1, <1>4, <1>5, <1>6, <1>7 DEF FilesInv, DeployInv
<1> QED
  BY <1>1, <1>2, <1>4, <1>8, IdleFilesInv

\* The artifact is saved: what is deployed of it is what the store has.
LEMMA DeployFilesInv == ASSUME FilesInv, NEW a \in Artifact, Deploy(a) \/ DeployFails(a) PROVE FilesInv'
<1>1. UNCHANGED <<plan, store, body, seen, tmp, torn>>
  BY DEF Deploy, DeployFails
<1>2. [Next]_vars
  BY DEF Deploy, DeployFails, Next, Pipeline
<1>3. UNCHANGED <<task, succeeded, failed, worker>>
  BY DEF Deploy, DeployFails, Save, SaveFails, pool
<1>4. \A b : Declared(b)' = Declared(b)
  BY <1>1 DEF Declared
<1>5. \A p : Matched(p)' = Matched(p)
  BY <1>1 DEF Matched
<1>6. Separate' = Separate /\ PathsClean' = PathsClean
  BY <1>1, PlanSame
<1>7. DeployInv'
  <2>1. CASE Deploy(a)
    <3>1. PICK new : new = SavedFiles(Matched(Declared(a).path))
      OBVIOUS
    <3>2. PICK out \in Outcomes(new) : deploy' = Overwrite(deploy, out)
      BY <2>1, <3>1 DEF Deploy
    <3>3. written' = written \cup {a} /\ perr' = perr
      BY <2>1 DEF Deploy, Save
    <3> SUFFICES ASSUME failed = {}, perr = NoErr, PathsClean, Separate
                 PROVE  deploy' = UNION {SavedFiles(Matched(Declared(b).path)) : b \in written'}
      BY <1>3, <1>4, <1>5, <1>6, <3>3 DEF DeployInv
    <3>4. deploy = UNION {SavedFiles(Matched(Declared(b).path)) : b \in written}
      BY DEF FilesInv, DeployInv
    <3>5. \A b : /\ SavedFiles(Matched(Declared(b).path)) \in SUBSET File
                 /\ Plain(SavedFiles(Matched(Declared(b).path)))
      BY MatchedPlain
    <3>6. deploy \in SUBSET File /\ Plain(deploy) /\ new \in SUBSET File /\ Plain(new)
      BY <3>1, <3>4, <3>5 DEF Plain
    <3>7. deploy' = deploy \cup new
      BY <3>2, <3>6, PlainTrees
    <3> QED
      BY <3>1, <3>3, <3>4, <3>7
  <2>2. CASE DeployFails(a)
    <3>1. perr' # NoErr
      BY <2>2 DEF DeployFails, SaveFails, FirstOf, SaveError, NoErr
    <3> QED
      BY <3>1 DEF DeployInv
  <2> QED
    BY <2>1, <2>2
<1> QED
  BY <1>1, <1>2, <1>3, <1>7, IdleFilesInv

\* A worker takes a task: its body has read and written nothing yet.
LEMMA TakeInv == ASSUME FilesInv, NEW a \in Artifact, NEW w \in Worker, Take(a, w) PROVE FilesInv'
<1>1. PICK t : t = <<a, stage[a], sent[a] + 1>>
  OBVIOUS
<1>2. /\ worker[w] = "idle" /\ worker' = [worker EXCEPT ![w] = "running"] /\ task' = [task EXCEPT ![w] = t]
      /\ UNCHANGED <<stage, written, perr, succeeded, failed>>
      /\ UNCHANGED <<plan, store, seen, tmp, torn, deploy>>
      /\ AtSend(a)
  BY <1>1 DEF Take, Send
<1>3. PICK next : next = Start(t, 1) /\ body' = [body EXCEPT ![w] = next]
  BY <1>1 DEF Take
<1>4. TypeOK /\ IInv /\ BegunInv /\ FilesTypeOK /\ plan \in Plans /\ body \in [Worker -> BodyState]
  BY DEF FilesInv, IInv, FilesTypeOK
<1>5. [Next]_vars
  BY DEF Take, Next
<1>6. IInv' /\ BegunInv'
  BY <1>4, <1>5, NextIInv, BegunStep
<1>7. task'[w] = t /\ worker'[w] = "running" /\ t \in Tasks
  <2>1. task'[w] = t /\ worker'[w] = "running"
    BY <1>2, <1>4 DEF TypeOK
  <2> QED
    BY <1>6, <2>1 DEF IInv, SentInv
<1>8. /\ next \in BodyState /\ next.unit = 1 /\ next.files = {} /\ next.at \in {"generate", "inputs", "end"}
      /\ next.at = "inputs" => next.inputs = Units(t)[1].inputs
      /\ Placed(t, next)
  BY <1>3, <1>4, <1>7, StartShape, StartPlaced
<1>9. /\ body'[w] = next
      /\ \A v \in Worker \ {w} : body'[v] = body[v] /\ task'[v] = task[v] /\ worker'[v] = worker[v]
  BY <1>2, <1>3, <1>4 DEF TypeOK
<1>10. \A v \in Worker : worker[v] = "running" => v # w
  BY <1>2
<1>11. /\ UnitsOfPlan' = UnitsOfPlan /\ Separate' = Separate /\ PathsClean' = PathsClean
       /\ \A u : Units(u)' = Units(u)
       /\ \A k : UnitAt(k)' = UnitAt(k) /\ DeclaredBy(k)' = DeclaredBy(k) /\ (MakesFile(k)' <=> MakesFile(k))
       /\ \A b : Declared(b)' = Declared(b)
       /\ \A u : Isolated(u)' <=> Isolated(u)
  BY <1>2, PlanSame
<1>12. \A p : Matched(p)' = Matched(p)
  BY <1>2 DEF Matched
<1>13. \A u : Given(u)' = Given(u) /\ GivenBelow(u)' = GivenBelow(u)
  BY <1>2, <1>11, <1>12 DEF Given, GivenBelow
<1>14. Begun' = Begun \cup {t} /\ t \notin succeeded
  <2>1. Running' = Running \cup {t}
    <3>1. \A u : u \in Running' => u \in Running \cup {t}
      BY <1>7, <1>9 DEF Running
    <3>2. \A u : u \in Running => u \in Running'
      BY <1>9, <1>10 DEF Running
    <3>3. t \in Running'
      BY <1>7 DEF Running
    <3> QED
      BY <3>1, <3>2, <3>3
  <2> QED
    BY <1>2, <1>6, <2>1 DEF Begun, BegunInv
<1>15. \A v \in Worker : worker'[v] = "running" /\ v # w => worker[v] = "running" /\ task[v] # t
  BY <1>6, <1>7, <1>9 DEF BegunInv
<1>16. FilesTypeOK'
  BY <1>2, <1>3, <1>4, <1>8, <1>11 DEF FilesTypeOK
<1>17. PlainInv'
  BY <1>2, <1>8, <1>9, <1>11 DEF FilesInv, PlainInv, Plain
<1>18. PlaceInv'
  <2> SUFFICES ASSUME NEW v \in Worker, worker'[v] = "running" PROVE Placed(task[v], body[v])'
    BY DEF PlaceInv
  <2>1. PICK u, b : u = task'[v] /\ b = body'[v]
    OBVIOUS
  <2>2. Placed(u, b)
    BY <1>7, <1>8, <1>9, <2>1 DEF FilesInv, PlaceInv
  <2>3. Placed(u, b)'
    BY <1>2, <2>2, PlacedKept
  <2> QED
    BY <2>1, <2>3
<1>19. OnceInv'
  <2>1. ASSUME NEW k \in UnitsOfPlan, Passed(k)' PROVE Passed(k)
    <3>1. k[2] \in Nat \ {0}
      <4>1. k[1] \in Tasks /\ k[2] \in DOMAIN Units(k[1])
        BY <1>4, UnitShape
      <4>2. Units(k[1]) \in Seq(Unit)
        BY <1>4, <4>1, UnitsType
      <4> QED
        BY <4>1, <4>2
    <3>2. ~PassedBy(t, next, k)
      BY <1>8, <3>1 DEF PassedBy
    <3>3. \/ k[1] \in succeeded
          \/ \E v \in Worker : worker'[v] = "running" /\ PassedBy(task'[v], body'[v], k)
      BY <1>2, <1>11, <2>1 DEF Passed, PassedBy
    <3> QED
      BY <1>7, <1>9, <3>2, <3>3 DEF Passed
  <2> QED
    BY <1>2, <1>11, <2>1 DEF FilesInv, OnceInv
<1>20. TornInv'
  <2> SUFFICES ASSUME NEW f \in torn
               PROVE  \/ \E v \in Worker : worker'[v] = "running" /\ Rewriting(body'[v], f)
                      \/ \E k \in UnitsOfPlan : k[1] \in failed /\ \E p \in DeclaredBy(k) : f \in FilesOf(p)
    BY <1>2, <1>11 DEF TornInv, FilesOf
  <2>1. \/ \E v \in Worker : worker[v] = "running" /\ Rewriting(body[v], f)
        \/ \E k \in UnitsOfPlan : k[1] \in failed /\ \E p \in DeclaredBy(k) : f \in FilesOf(p)
    BY DEF FilesInv, TornInv
  <2>2. ASSUME NEW v \in Worker, worker[v] = "running", Rewriting(body[v], f)
        PROVE  worker'[v] = "running" /\ Rewriting(body'[v], f)
    BY <1>9, <1>10, <2>2
  <2> QED
    BY <2>1, <2>2
<1>21. TmpInv'
  <2> SUFFICES ASSUME failed = {}, PathsClean, NEW f \in tmp, f.path \notin store
               PROVE  \E v \in Worker : worker'[v] = "running" /\ Setting(body'[v], f.path)
    BY <1>2, <1>11 DEF TmpInv
  <2>1. PICK v \in Worker : worker[v] = "running" /\ Setting(body[v], f.path)
    BY DEF FilesInv, TmpInv
  <2> QED
    BY <1>9, <1>10, <2>1
<1>22. DeployInv'
  BY <1>2, <1>11, <1>12 DEF FilesInv, DeployInv
<1>23. SeenInv'
  <2> SUFFICES ASSUME failed = {}, PathsClean, Separate, NEW u \in Tasks, u[2] = 3
               PROVE  /\ u \notin Begun' => seen[Only(u)] = {}
                      /\ seen[Only(u)] \subseteq SavedFiles(GivenBelow(Units(u)[1])')
                      /\ u \in succeeded => SavedFiles(Given(Units(u)[1])') \subseteq seen[Only(u)]
                      /\ \A v \in Worker : worker'[v] = "running" /\ task'[v] = u => GivenSoFar(u, body[v])'
    BY <1>2, <1>11 DEF SeenInv
  <2>1. /\ u \notin Begun => seen[Only(u)] = {}
        /\ seen[Only(u)] \subseteq SavedFiles(GivenBelow(Units(u)[1]))
        /\ u \in succeeded => SavedFiles(Given(Units(u)[1])) \subseteq seen[Only(u)]
        /\ \A v \in Worker : worker[v] = "running" /\ task[v] = u => GivenSoFar(u, body[v])
    BY DEF FilesInv, SeenInv
  <2>2. PICK d : d = Units(u)[1] /\ d = Units(u)[1]'
    BY <1>11
  <2>3. \A b : GivenSoFar(u, b) => GivenSoFar(u, b)'
    BY <1>2, <1>11, <1>12, <1>13 DEF GivenSoFar
  <2>4. ASSUME NEW v \in Worker, worker'[v] = "running", task'[v] = u PROVE GivenSoFar(u, body[v])'
    <3>1. PICK b : b = body'[v]
      OBVIOUS
    <3>2. GivenSoFar(u, b)
      <4>1. CASE v = w
        <5>1. b = next /\ u = t
          BY <1>7, <1>9, <2>4, <3>1, <4>1
        <5>2. b.at = "inputs" => Remaining(b) = InputsOf(Units(u)[1])
          BY <1>8, <5>1 DEF Remaining, InputsOf
        <5> QED
          BY <1>8, <5>1, <5>2 DEF GivenSoFar
      <4>2. CASE v # w
        BY <1>9, <2>1, <2>4, <3>1, <4>2
      <4> QED
        BY <4>1, <4>2
    <3>3. GivenSoFar(u, b)'
      BY <2>3, <3>2
    <3> QED
      BY <3>1, <3>3
  <2> QED
    BY <1>13, <1>14, <2>1, <2>2, <2>4
<1> QED
  BY <1>6, <1>16, <1>17, <1>18, <1>19, <1>20, <1>21, <1>22, <1>23 DEF FilesInv

-----------------------------------------------------------------------------
(***************************************************************************)
(* What holds of every build of every plan.                                *)
(***************************************************************************)

LEMMA FilesInitInv == FilesInit => FilesInv
<1> SUFFICES ASSUME FilesInit PROVE FilesInv
  OBVIOUS
<1>1. /\ Init /\ plan \in Plans /\ store = {} /\ tmp = {} /\ torn = {} /\ deploy = {}
      /\ body = [w \in Worker |-> [unit |-> 1, at |-> "end", inputs |-> <<>>, files |-> {}, open |-> NoPath]]
      /\ seen = [k \in UnitsOfPlan |-> {}]
  BY DEF FilesInit
<1>2. /\ succeeded = {} /\ failed = {} /\ written = {}
      /\ \A w \in Worker : worker[w] = "idle"
  BY <1>1 DEF Init
<1>3. IInv /\ BegunInv
  BY <1>1, InitIInv, BegunInit
<1>4. FilesTypeOK
  <2>1. NoPath \in Path /\ <<>> \in Seq(Path)
    BY DEF NoPath, Path
  <2> QED
    BY <1>1, <2>1 DEF FilesTypeOK, BodyState, Place
<1>5. PlaceInv /\ OnceInv /\ TornInv /\ TmpInv /\ PlainInv
  BY <1>1, <1>2 DEF PlaceInv, OnceInv, Passed, TornInv, TmpInv, PlainInv, Plain
<1>6. DeployInv /\ SeenInv
  <2>1. \A t \in Tasks : t[2] = 3 => seen[Only(t)] = {}
    BY <1>1, ValidatorInputs
  <2> QED
    BY <1>1, <1>2, <2>1 DEF DeployInv, SeenInv
<1> QED
  BY <1>3, <1>4, <1>5, <1>6 DEF FilesInv

LEMMA FilesNextInv == ASSUME FilesInv, [FilesNext]_filesVars PROVE FilesInv'
<1>1. ASSUME Terminated, UNCHANGED fileVars PROVE UNCHANGED filesVars
  BY <1>1 DEF Terminated, filesVars
<1>2. CASE Schedule \/ UNCHANGED filesVars
  BY <1>2, ScheduleInv
<1>3. ASSUME NEW a \in Artifact, NEW w \in Worker, Take(a, w) PROVE FilesInv'
  BY <1>3, TakeInv
<1>4. ASSUME NEW w \in Worker, Body(w) PROVE FilesInv'
  BY <1>4, BodyInv
<1>5. ASSUME NEW w \in Worker, GeneratorFails(w) \/ Break(w) PROVE FilesInv'
  BY <1>5, FailInv DEF GeneratorFails, Break
<1>6. ASSUME NEW a \in Artifact, Deploy(a) \/ DeployFails(a) PROVE FilesInv'
  BY <1>6, DeployFilesInv
<1> QED
  BY <1>1, <1>2, <1>3, <1>4, <1>5, <1>6 DEF FilesNext

\* The bodies keep their bookkeeping in every reachable state of every plan.
THEOREM FilesInductive == FilesSpec => []FilesInv
  BY FilesInitInv, FilesNextInv, PTL DEF FilesSpec

\* What a nil error says of the whole build.
LEMMA NilMeansDone ==
    ASSUME FilesInv, Built, err = NoErr
    PROVE  succeeded = Tasks /\ written = Artifact /\ failed = {} /\ perr = NoErr
<1>1. IInv
  BY DEF FilesInv
<1>2. perr = NoErr /\ failed = {} /\ succeeded = Tasks /\ written = Artifact
  BY <1>1, NilOfBuild
<1> QED
  BY <1>2

\* A build that returns nil set every output once: no two units that produce a
\* file declare the same output, whatever the store took from them and in which
\* order (Store.Set refuses a path it has).
THEOREM OutputsAreWriteOnceHolds == FilesSpec => []OutputsAreWriteOnce
<1>1. ASSUME FilesInv, Built, err = NoErr, NEW j \in UnitsOfPlan, NEW k \in UnitsOfPlan,
             j # k, MakesFile(j), MakesFile(k)
      PROVE  UnitAt(j).output # UnitAt(k).output
  <2>1. plan \in Plans
    BY <1>1 DEF FilesInv, FilesTypeOK
  <2>2. j[1] \in succeeded /\ k[1] \in succeeded
    BY <1>1, <2>1, NilMeansDone, UnitShape
  <2> QED
    BY <1>1, <2>2 DEF FilesInv, OnceInv, Passed
<1>2. FilesInv => OutputsAreWriteOnce
  BY <1>1 DEF OutputsAreWriteOnce
<1> QED
  BY <1>2, FilesInductive, PTL

\* When the paths of the plan are spelled as they are cleaned and its artifacts
\* share none, a build that returns nil deployed each artifact as it is in the
\* store in the end, and each validator was given all that the store has of its
\* inputs and nothing else, though validators of v1alpha6 run in a directory
\* they share with every other task of the build.
THEOREM NilMeansValidatedHolds == FilesSpec => []NilMeansValidated
<1>1. ASSUME FilesInv, Built, err = NoErr, PathsClean, Separate
      PROVE  /\ deploy = UNION {SavedFiles(Matched(Declared(a).path)) : a \in Artifact}
             /\ \A k \in UnitsOfPlan : k[1][2] = 3 =>
                   /\ SavedFiles(Given(UnitAt(k))) \subseteq seen[k]
                   /\ seen[k] \subseteq SavedFiles(GivenBelow(UnitAt(k)))
  <2>1. succeeded = Tasks /\ written = Artifact /\ failed = {} /\ perr = NoErr
    BY <1>1, NilMeansDone
  <2>2. ASSUME NEW k \in UnitsOfPlan, k[1][2] = 3
        PROVE  k = Only(k[1]) /\ UnitAt(k) = Units(k[1])[1] /\ k[1] \in Tasks
    <3>1. plan \in Plans /\ k = <<k[1], k[2]>> /\ k[1] \in Tasks /\ k[2] \in DOMAIN Units(k[1])
      BY <1>1, UnitShape DEF FilesInv, FilesTypeOK
    <3>2. k[2] = 1
      BY <2>2, <3>1, UnitsType
    <3> QED
      BY <3>1, <3>2 DEF Only, UnitAt
  <2> QED
    BY <1>1, <2>1, <2>2 DEF FilesInv, DeployInv, SeenInv
<1>2. FilesInv => NilMeansValidated
  BY <1>1 DEF NilMeansValidated
<1> QED
  BY <1>2, FilesInductive, PTL

\* In every plan, in whatever spelling its paths are: a tool reads a truncated
\* file only in v1alpha6, and only one that another task of the plan declares
\* too.  The files a body of its own writes are whole when it runs its tool.
THEOREM TornOnlyIfSharedHolds == FilesSpec => []TornOnlyIfShared
<1>1. ASSUME FilesInv, NEW w \in Worker, NEW f \in Reading(w) \cap torn
      PROVE  /\ plan.api = "v1alpha6"
             /\ \E k \in UnitsOfPlan : k[1] # task[w] /\ \E p \in DeclaredBy(k) : f \in FilesOf(p)
  <2>1. In(w, "exec") /\ Shared(Current(w)) /\ f \in torn
    BY <1>1 DEF Reading
  <2>2. /\ worker[w] = "running" /\ body[w].at = "exec" /\ Current(w).kind \in Supported(task[w][2])
        /\ plan \in Plans /\ task[w] \in Running /\ task[w] \in Tasks
    BY <1>1, <2>1, AtPlace, DoingUnit DEF Place
  <2>3. plan.api \in {"v1alpha5", "v1alpha6"} /\ task[w][2] \in 1 .. 3
    BY <2>2, FilesAssumption, TaskIndex
  <2>4. plan.api = "v1alpha6"
    <3>1. CASE Current(w).kind = "Validator"
      BY <2>1, <2>3, <3>1 DEF Shared, Isolated
    <3>2. CASE Current(w).kind = "Command"
      BY <2>2, <2>3, <3>2 DEF Supported, GeneratorKinds5, TransformerKinds5
    <3> QED
      BY <2>1, <3>1, <3>2 DEF Shared
  <2>5. ASSUME NEW v \in Worker, worker[v] = "running", Rewriting(body[v], f)
        PROVE  \E k \in UnitsOfPlan : k[1] # task[w] /\ \E p \in DeclaredBy(k) : f \in FilesOf(p)
    <3>1. v # w
      BY <2>2, <2>5 DEF Rewriting
    <3>2. task[v] # task[w]
      BY <1>1, <2>2, <2>5, <3>1 DEF FilesInv, BegunInv
    <3>3. PICK k \in UnitsOfPlan : k[1] = task[v] /\ \E p \in DeclaredBy(k) : f \in FilesOf(p)
      BY <1>1, <2>5, RewritingDeclared
    <3> QED
      BY <3>2, <3>3
  <2>6. ASSUME NEW k \in UnitsOfPlan, k[1] \in failed, \E p \in DeclaredBy(k) : f \in FilesOf(p)
        PROVE  k[1] # task[w]
    BY <1>1, <2>2, <2>6 DEF FilesInv, BegunInv
  <2>7. \/ \E v \in Worker : worker[v] = "running" /\ Rewriting(body[v], f)
        \/ \E k \in UnitsOfPlan : k[1] \in failed /\ \E p \in DeclaredBy(k) : f \in FilesOf(p)
    BY <1>1, <2>1 DEF FilesInv, TornInv
  <2> QED
    BY <2>4, <2>5, <2>6, <2>7
<1>2. FilesInv => TornOnlyIfShared
  BY <1>1 DEF TornOnlyIfShared
<1> QED
  BY <1>2, FilesInductive, PTL
=============================================================================
