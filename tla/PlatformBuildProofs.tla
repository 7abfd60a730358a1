------------------------- MODULE PlatformBuildProofs -------------------------
(***************************************************************************)
(* Proofs about Platform.Build of src/internal/platform/platform.go for    *)
(* any number of components and any concurrency, and about the children    *)
(* of "holos render platform" around it (RenderPlatform).                  *)
(***************************************************************************)
EXTENDS RenderPlatform, FiniteSetTheorems, TLAPS

\* The producer spawns the components in order and misses none, unless the
\* context is done.
SpawnInv ==
    /\ \A i \in Component : comp[i] = "waiting" <=> next <= i
    /\ producer = "go" => next <= Total
    /\ producer = "recording" => Cancelled
    /\ producer \in {"exiting", "exited"} => next > Total \/ Cancelled

\* A component leaves without success only once the context is done.
ErrorInv ==
    \A i \in Component : comp[i] \in {"refused", "exiting", "exited"} => Cancelled

\* The inductive invariant.
IInv == TypeOK /\ SpawnInv /\ ErrorInv /\ AtMostLimit /\ NoOrphans

-----------------------------------------------------------------------------

\* The goroutines can be counted.
LEMMA ActiveFinite ==
    /\ Active \in SUBSET Component
    /\ IsFiniteSet(Active) /\ Cardinality(Active) \in Nat
<1>1. IsFiniteSet(Component)
  BY BuildAssumption, FS_Interval DEF Component
<1>2. Active \subseteq Component
  BY DEF Active
<1> QED
  BY <1>1, <1>2, FS_Subset, FS_CardinalityType

\* A component that ends, or stays in work, does not raise the count.
LEMMA FewerActive ==
    ASSUME AtMostLimit, Active' \subseteq Active, limit' = limit, limit \in Nat
    PROVE  AtMostLimit'
<1>1. /\ IsFiniteSet(Active') /\ Cardinality(Active') <= Cardinality(Active)
  BY ActiveFinite, FS_Subset
<1>2. Cardinality(Active) \in Nat /\ Cardinality(Active') \in Nat
  BY <1>1, ActiveFinite, FS_CardinalityType
<1> QED
  BY <1>1, <1>2 DEF AtMostLimit

LEMMA InitIInv == Init => IInv
<1> SUFFICES ASSUME Init PROVE IInv
  OBVIOUS
<1>1. limit \in Nat \ {0} /\ 1 \in 1 .. (Total + 1)
  BY BuildAssumption DEF Init
<1>2. TypeOK
  BY <1>1 DEF Init, TypeOK
<1>3. SpawnInv /\ ErrorInv /\ NoOrphans
  BY DEF Init, SpawnInv, ErrorInv, NoOrphans, Component, Cancelled
<1>4. AtMostLimit
  <2>1. Active = {}
    BY DEF Init, Active
  <2> QED
    BY <1>1, <2>1, FS_EmptySet DEF AtMostLimit
<1> QED
  BY <1>2, <1>3, <1>4 DEF IInv

\* The producer at its select, at the end of its loop, and on its way out.
LEMMA ProducerIInv ==
    ASSUME IInv, Offer \/ GiveUp \/ Finish \/ RecordProducer \/ ExitProducer
    PROVE  IInv'
<1>0. /\ UNCHANGED <<limit, next, comp, returned>>
      /\ producer # "exited"
      /\ Cancelled => Cancelled'
  BY BuildAssumption DEF Offer, GiveUp, Finish, RecordProducer, ExitProducer, FirstOf, Cancelled, Canceled
<1>1. TypeOK'
  BY DEF IInv, TypeOK, Offer, GiveUp, Finish, RecordProducer, ExitProducer, FirstOf
<1>2. SpawnInv'
  <2>1. producer' = "recording" => Cancelled'
    BY DEF IInv, SpawnInv, Offer, GiveUp, Finish, RecordProducer, ExitProducer, Cancelled
  <2>2. producer' = "go" => next' <= Total
    BY DEF Offer, GiveUp, Finish, RecordProducer, ExitProducer
  <2>3. producer' \in {"exiting", "exited"} => next' > Total \/ Cancelled'
    BY <1>0 DEF IInv, SpawnInv, Offer, GiveUp, Finish, RecordProducer, ExitProducer
  <2> QED
    BY <1>0, <2>1, <2>2, <2>3 DEF IInv, SpawnInv, Component
<1>3. ErrorInv'
  BY <1>0 DEF IInv, ErrorInv, Component
<1>4. AtMostLimit' /\ NoOrphans'
  BY <1>0 DEF IInv, AtMostLimit, NoOrphans, Active, Component
<1> QED
  BY <1>1, <1>2, <1>3, <1>4 DEF IInv

\* g.Go: the producer has a slot itself, so there is room for the component.
LEMMA SpawnIInv == ASSUME IInv, Spawn PROVE IInv'
<1>0. /\ next \in Component /\ comp[next] = "waiting"
      /\ limit \in Nat /\ Total \in Nat
  BY BuildAssumption DEF IInv, TypeOK, SpawnInv, Spawn, Component
<1>1. TypeOK'
  BY <1>0 DEF IInv, TypeOK, Spawn, Component
<1>2. SpawnInv'
  BY <1>0 DEF IInv, TypeOK, SpawnInv, Spawn, Component
<1>3. ErrorInv'
  BY <1>0 DEF IInv, TypeOK, ErrorInv, Spawn, Component, Cancelled
<1>4. AtMostLimit'
  <2>1. Cardinality(Active) < limit
    BY <1>0, ActiveFinite DEF Spawn, Slots, GroupLimit
  <2>2. Active' = Active \cup {next} /\ next \notin Active
    BY <1>0 DEF IInv, TypeOK, Spawn, Active, Component
  <2>3. Cardinality(Active') = Cardinality(Active) + 1
    BY <2>2, ActiveFinite, FS_AddElement
  <2> QED
    BY <1>0, <2>1, <2>3, ActiveFinite DEF AtMostLimit, Spawn
<1>5. NoOrphans'
  BY DEF IInv, NoOrphans, Spawn
<1> QED
  BY <1>1, <1>2, <1>3, <1>4, <1>5 DEF IInv

\* A component's goroutine starts, ends its work, and records its error.
LEMMA RenderIInv == ASSUME IInv, NEW i \in Component, Render(i) PROVE IInv'
<1>0. PICK to \in {"running", "refused", "rendered", "failed", "exiting", "ok", "exited"} :
        /\ comp[i] \in {"spawned", "running", "rendered", "failed", "refused", "exiting"}
        /\ comp' = [comp EXCEPT ![i] = to]
        /\ UNCHANGED <<limit, next, producer, returned>>
        /\ to \in {"refused", "exiting", "exited"} => Cancelled'
        /\ Cancelled => Cancelled'
        /\ err' \in {err, i, Canceled}
  <2>1. i # NoErr /\ Canceled # NoErr
    BY BuildAssumption DEF Component, Canceled
  <2>2. CASE Begin(i) \/ Refuse(i) \/ Succeed(i) \/ Fail(i) \/ Killed(i)
    BY <2>2 DEF Begin, Refuse, Succeed, Fail, Killed, Move, Cancelled
  <2>3. CASE Record(i)
    BY <2>1, <2>3 DEF Record, FirstOf, Move, Cancelled
  <2>4. CASE Exit(i)
    BY <2>4 DEF IInv, ErrorInv, Exit, Move, Cancelled
  <2> QED
    BY <2>2, <2>3, <2>4 DEF Render
<1>1. TypeOK'
  BY <1>0 DEF IInv, TypeOK
<1>2. SpawnInv'
  BY <1>0 DEF IInv, TypeOK, SpawnInv
<1>3. ErrorInv'
  BY <1>0 DEF IInv, TypeOK, ErrorInv
<1>4. i \in Active /\ Active' \subseteq Active
  BY <1>0 DEF IInv, TypeOK, Active
<1>5. AtMostLimit'
  BY <1>0, <1>4, FewerActive DEF IInv, TypeOK
<1>6. NoOrphans'
  BY <1>0, <1>4 DEF IInv, NoOrphans
<1> QED
  BY <1>1, <1>2, <1>3, <1>5, <1>6 DEF IInv

\* g.Wait() returns when no slot is taken: no component is in work.
LEMMA ReturnIInv == ASSUME IInv, Return PROVE IInv'
<1>0. UNCHANGED <<limit, next, producer, comp, err>>
  BY DEF Return
<1>1. producer = "exited" /\ Cardinality(Active) = 0
  BY ActiveFinite DEF Return, Slots
<1>2. Active = {}
  BY <1>1, ActiveFinite, FS_EmptySet
<1>3. TypeOK' /\ SpawnInv' /\ ErrorInv'
  BY <1>0 DEF IInv, TypeOK, SpawnInv, ErrorInv, Component, Cancelled, Return
<1>4. AtMostLimit' /\ NoOrphans'
  BY <1>0, <1>1, <1>2 DEF IInv, AtMostLimit, NoOrphans, Active, Component
<1> QED
  BY <1>3, <1>4 DEF IInv

THEOREM Inductive == Init /\ [][Next]_vars => []IInv
<1>1. IInv /\ [Next]_vars => IInv'
  <2> SUFFICES ASSUME IInv, [Next]_vars PROVE IInv'
    OBVIOUS
  <2>1. CASE UNCHANGED vars
    BY <2>1 DEF vars, IInv, TypeOK, SpawnInv, ErrorInv, AtMostLimit, NoOrphans,
                Active, Component, Cancelled, Canceled
  <2>2. CASE Produce
    BY <2>2, ProducerIInv, SpawnIInv DEF Produce
  <2>3. ASSUME NEW i \in Component, Render(i) PROVE IInv'
    BY <2>3, RenderIInv
  <2>4. CASE Return
    BY <2>4, ReturnIInv
  <2> QED
    BY <2>1, <2>2, <2>3, <2>4 DEF Next, Terminated
<1> QED
  BY <1>1, InitIInv, PTL

\* Never more components in work than the concurrency allows, though the group
\* admits one goroutine more (g.SetLimit(limit + 1)).
THEOREM AtMostLimitHolds == Spec => []AtMostLimit
<1>1. IInv => AtMostLimit
  BY DEF IInv
<1> QED
  BY <1>1, Inductive, PTL DEF Spec

\* Build returns after all its goroutines (g.Wait()).
THEOREM NoOrphansHolds == Spec => []NoOrphans
<1>1. IInv => NoOrphans
  BY DEF IInv
<1> QED
  BY <1>1, Inductive, PTL DEF Spec

\* With a nil error no component was refused or failed.
LEMMA NilMeansAllRenderedStep == IInv => NilMeansAllRendered
<1>1. ASSUME IInv, returned, err = NoErr, NEW i \in Component PROVE comp[i] = "ok"
  <2>1. producer = "exited" /\ Active = {} /\ ~Cancelled
    BY <1>1 DEF IInv, NoOrphans, Cancelled
  <2>2. next > Total /\ next \in Nat /\ i \in Nat /\ i <= Total /\ Total \in Nat
    BY <1>1, <2>1, BuildAssumption DEF IInv, TypeOK, SpawnInv, Component
  <2>3. comp[i] # "waiting"
    BY <1>1, <2>2 DEF IInv, SpawnInv
  <2>4. comp[i] \in {"waiting", "ok", "exited"}
    BY <2>1 DEF Active
  <2> QED
    BY <1>1, <2>1, <2>3, <2>4 DEF IInv, ErrorInv
<1> QED
  BY <1>1 DEF NilMeansAllRendered

\* Build returns nil only when every component was rendered.
THEOREM NilMeansAllRenderedHolds == Spec => []NilMeansAllRendered
  BY NilMeansAllRenderedStep, Inductive, PTL DEF Spec

-----------------------------------------------------------------------------
(***************************************************************************)
(* The children.                                                           *)
(***************************************************************************)

\* Where a child and its goroutine can stand together, and what is then true of
\* the child's temporary directory.
ChildTypeOK ==
    /\ child \in [Component -> {"none", "started", "temp", "load", "build", "remove", "exited"}]
    /\ code \in [Component -> {"", "ok", "error", "killed"}]
    /\ temp \in [Component -> {"none", "exists", "stuck", "removed"}]

ChildAt(i) ==
    /\ comp[i] \in {"waiting", "spawned"} => child[i] = "none"
    /\ comp[i] # "running" => child[i] \in {"none", "exited"}
    /\ comp[i] \in {"rendered", "ok"} => child[i] = "exited" /\ code[i] = "ok"
    /\ child[i] \in {"none", "started", "temp"} => temp[i] # "exists"
    /\ child[i] = "exited" /\ temp[i] = "exists" => code[i] = "killed"
    /\ child[i] \in {"temp", "load", "build", "remove"} => Supported(i)
    /\ child[i] \in {"none", "started", "temp", "load", "build"} => code[i] # "ok"
    /\ child[i] = "exited" /\ code[i] = "ok" => Supported(i) /\ temp[i] \in {"removed", "stuck"}

ChildInv == ChildTypeOK /\ \A i \in Component : ChildAt(i)

LEMMA RenderStep == [RenderNext]_renderVars => [Next]_vars
<1> SUFFICES ASSUME [RenderNext]_renderVars PROVE [Next]_vars
  OBVIOUS
<1>1. CASE (Produce \/ Return \/ Terminated) /\ UNCHANGED childVars
  BY <1>1, Zenon DEF Next
<1>2. ASSUME NEW i \in Component, Goroutine(i) PROVE Next
  BY <1>2, Zenon DEF Goroutine, Launch, Reap, Next, Render
<1>3. ASSUME NEW i \in Component, Child(i) \/ Kill(i) PROVE UNCHANGED vars
  BY <1>3, Zenon DEF Child, Discriminate, MakeTemp, Load, Build, Remove, Kill, Becomes
<1>4. CASE UNCHANGED renderVars
  BY <1>4, Zenon DEF renderVars
<1> QED
  BY <1>1, <1>2, <1>3, <1>4, Zenon DEF RenderNext

\* "render platform" takes only steps of Platform.Build.
THEOREM RenderImplementsBuild == RenderSpec => Init /\ [][Next]_vars
<1>1. RenderInit => Init
  BY DEF RenderInit
<1> QED
  BY <1>1, RenderStep, PTL DEF RenderSpec

LEMMA ChildInvInit == RenderInit => ChildInv
<1> SUFFICES ASSUME RenderInit PROVE ChildInv
  OBVIOUS
<1>1. /\ child = [i \in Component |-> "none"]
      /\ code = [i \in Component |-> ""]
      /\ temp = [i \in Component |-> "none"]
      /\ comp = [i \in Component |-> "waiting"]
  BY DEF RenderInit, Init
<1>2. ChildTypeOK
  BY <1>1 DEF ChildTypeOK
<1>3. ASSUME NEW i \in Component PROVE ChildAt(i)
  BY <1>1 DEF ChildAt
<1> QED
  BY <1>2, <1>3 DEF ChildInv

\* What a step leaves alone about a component keeps what ChildAt says of it.
LEMMA ChildAtSame ==
    ASSUME NEW j \in Component, ChildAt(j), typeMeta' = typeMeta, comp'[j] = comp[j],
           child'[j] = child[j], code'[j] = code[j], temp'[j] = temp[j]
    PROVE  ChildAt(j)'
<1>1. Supported(j)' = Supported(j)
  BY DEF Supported, Discriminated
<1> QED
  BY <1>1, Zenon DEF ChildAt

\* A step of the child, or its end by a signal: its goroutine waits for it.
LEMMA ChildStepInv ==
    ASSUME ChildInv, TypeOK, NEW i \in Component, Child(i) \/ Kill(i)
    PROVE  ChildInv'
<1>1. UNCHANGED <<vars, typeMeta>>
  BY Zenon DEF Child, Discriminate, MakeTemp, Load, Build, Remove, Kill, Becomes
<1>2. comp' = comp /\ Supported(i)' = Supported(i)
  BY <1>1 DEF vars, Supported, Discriminated
<1>3. PICK from, to : Becomes(i, from, to) /\ from \notin {"none", "exited"}
                      /\ to \in {"temp", "load", "build", "remove", "exited"}
  BY Zenon DEF Child, Discriminate, MakeTemp, Load, Build, Remove, Kill
<1>4. PICK c \in {code[i], "ok", "error", "killed"}, t \in {temp[i], "exists", "stuck", "removed"} :
        code' = [code EXCEPT ![i] = c] /\ temp' = [temp EXCEPT ![i] = t]
  BY DEF Child, Discriminate, MakeTemp, Load, Build, Remove, Kill, Dies, ChildInv, ChildTypeOK
<1>5. ChildTypeOK'
  BY <1>3, <1>4 DEF ChildInv, ChildTypeOK, Becomes
<1>6. ASSUME NEW j \in Component, j # i PROVE ChildAt(j)'
  BY <1>1, <1>2, <1>3, <1>4, <1>6, ChildAtSame DEF ChildInv, ChildTypeOK, Becomes
<1>7. ChildAt(i)'
  <2>0. comp[i] = "running" /\ ChildAt(i) /\ ChildTypeOK
    BY <1>3 DEF Becomes, ChildInv, ChildAt
  <2>1. CASE Discriminate(i)
    BY <1>2, <2>0, <2>1 DEF Discriminate, Becomes, Dies, ChildTypeOK, ChildAt
  <2>2. CASE MakeTemp(i)
    BY <1>2, <2>0, <2>2 DEF MakeTemp, Becomes, Dies, ChildTypeOK, ChildAt
  <2>3. CASE Load(i)
    BY <1>2, <2>0, <2>3 DEF Load, Becomes, Dies, ChildTypeOK, ChildAt
  <2>4. CASE Build(i)
    BY <1>2, <2>0, <2>4 DEF Build, Becomes, Dies, ChildTypeOK, ChildAt
  <2>5. CASE Remove(i)
    BY <1>2, <2>0, <2>5 DEF Remove, Becomes, Dies, ChildTypeOK, ChildAt
  <2>6. CASE Kill(i)
    BY <1>2, <2>0, <2>6 DEF Kill, Becomes, Dies, ChildTypeOK, ChildAt
  <2> QED
    BY <2>1, <2>2, <2>3, <2>4, <2>5, <2>6 DEF Child
<1> QED
  BY <1>5, <1>6, <1>7 DEF ChildInv

\* The goroutine starts its child, and leaves only once it is gone.
LEMMA GoroutineInv ==
    ASSUME ChildInv, TypeOK, NEW i \in Component, Goroutine(i)
    PROVE  ChildInv'
<1>1. UNCHANGED <<typeMeta, code, temp>>
  BY Zenon DEF Goroutine, Launch, Reap, childVars
<1>2. Supported(i)' = Supported(i)
  BY <1>1 DEF Supported, Discriminated
<1>3. PICK to : comp' = [comp EXCEPT ![i] = to]
  BY Zenon DEF Goroutine, Launch, Reap, Begin, Refuse, Succeed, Fail, Killed, Record, Exit, Move
<1>4. PICK c \in {child[i], "started"} : child' = [child EXCEPT ![i] = c]
  BY DEF Goroutine, Launch, Reap, childVars, ChildInv, ChildTypeOK
<1>5. ChildTypeOK'
  BY <1>1, <1>4 DEF ChildInv, ChildTypeOK
<1>6. ASSUME NEW j \in Component, j # i PROVE ChildAt(j)'
  BY <1>1, <1>3, <1>4, <1>6, ChildAtSame DEF ChildInv, ChildTypeOK, TypeOK
<1>7. ChildAt(i)'
  <2>0. ChildAt(i) /\ ChildTypeOK
    BY DEF ChildInv
  <2>1. CASE Launch(i)
    BY <1>1, <1>2, <2>0, <2>1 DEF Launch, Begin, Move, ChildTypeOK, ChildAt, TypeOK
  <2>2. CASE Reap(i)
    BY <1>1, <1>2, <2>0, <2>2 DEF Reap, Succeed, Fail, Killed, Move, ChildAt, TypeOK, childVars
  <2>3. CASE (Refuse(i) \/ Record(i) \/ Exit(i)) /\ UNCHANGED childVars
    BY <1>1, <1>2, <2>0, <2>3 DEF Refuse, Record, Exit, Move, ChildAt, TypeOK, childVars
  <2> QED
    BY <2>1, <2>2, <2>3 DEF Goroutine
<1> QED
  BY <1>5, <1>6, <1>7 DEF ChildInv

\* The producer adds a goroutine that has no child yet.
LEMMA ProducerInv ==
    ASSUME ChildInv, IInv, Produce \/ Return \/ Terminated, UNCHANGED childVars
    PROVE  ChildInv'
<1>1. ChildTypeOK'
  BY DEF ChildInv, ChildTypeOK, childVars
<1>2. CASE Spawn
  <2>0. next \in Component /\ comp[next] = "waiting"
    BY <1>2, BuildAssumption DEF IInv, TypeOK, SpawnInv, Spawn, Component
  <2>1. PICK n \in Component : comp[n] = "waiting" /\ comp' = [comp EXCEPT ![n] = "spawned"]
    BY <1>2, <2>0, Zenon DEF Spawn
  <2>2. ASSUME NEW j \in Component, j # n PROVE ChildAt(j)'
    BY <2>1, <2>2, ChildAtSame DEF ChildInv, IInv, TypeOK, childVars
  <2>3. Supported(n)' = Supported(n)
    BY DEF Supported, Discriminated, childVars
  <2>4. ChildAt(n)'
    BY <2>1, <2>3 DEF ChildInv, ChildAt, IInv, TypeOK, childVars
  <2> QED
    BY <1>1, <2>2, <2>4 DEF ChildInv
<1>3. CASE UNCHANGED comp
  <2>1. ASSUME NEW j \in Component PROVE ChildAt(j)'
    BY <1>3, <2>1, ChildAtSame DEF ChildInv, childVars
  <2> QED
    BY <1>1, <2>1 DEF ChildInv
<1>4. Spawn \/ UNCHANGED comp
  BY DEF Produce, Offer, GiveUp, Finish, RecordProducer, ExitProducer, Return, Terminated, vars
<1> QED
  BY <1>2, <1>3, <1>4

THEOREM RenderInductive == RenderSpec => [](IInv /\ ChildInv)
<1>1. IInv /\ ChildInv /\ [RenderNext]_renderVars => ChildInv'
  <2> SUFFICES ASSUME IInv, ChildInv, [RenderNext]_renderVars PROVE ChildInv'
    OBVIOUS
  <2>0. TypeOK
    BY DEF IInv
  <2>1. CASE UNCHANGED renderVars
    BY <2>1 DEF renderVars, vars, childVars, ChildInv, ChildTypeOK, ChildAt, Supported, Discriminated
  <2>2. CASE (Produce \/ Return \/ Terminated) /\ UNCHANGED childVars
    BY <2>2, ProducerInv
  <2>3. ASSUME NEW i \in Component, Goroutine(i) \/ Child(i) \/ Kill(i) PROVE ChildInv'
    BY <2>0, <2>3, GoroutineInv, ChildStepInv
  <2> QED
    BY <2>1, <2>2, <2>3 DEF RenderNext
<1> QED
  BY <1>1, ChildInvInit, RenderImplementsBuild, Inductive, PTL DEF RenderSpec

\* "render platform" leaves a temporary directory only of a child that was
\* killed, or where the removal failed.
THEOREM TempDirsRemovedHolds == RenderSpec => []TempDirsRemoved
<1>1. ASSUME IInv, ChildInv, returned, NEW i \in Component
      PROVE  /\ child[i] \in {"none", "exited"}
             /\ temp[i] = "exists" => code[i] = "killed"
             /\ err = NoErr => Supported(i) /\ temp[i] \in {"removed", "stuck"}
  <2>1. comp[i] # "running"
    BY <1>1 DEF IInv, NoOrphans, Active
  <2>2. err = NoErr => comp[i] = "ok"
    BY <1>1, NilMeansAllRenderedStep DEF NilMeansAllRendered
  <2> QED
    BY <1>1, <2>1, <2>2 DEF ChildInv, ChildTypeOK, ChildAt
<1>2. IInv /\ ChildInv => TempDirsRemoved
  BY <1>1 DEF TempDirsRemoved
<1> QED
  BY <1>2, RenderInductive, PTL

\* With its children, "render platform" keeps what Platform.Build promises.
THEOREM RenderSafety == RenderSpec => [](AtMostLimit /\ NilMeansAllRendered /\ NoOrphans)
<1>1. IInv => AtMostLimit /\ NilMeansAllRendered /\ NoOrphans
  BY NilMeansAllRenderedStep DEF IInv
<1> QED
  BY <1>1, Inductive, RenderImplementsBuild, PTL
=============================================================================
