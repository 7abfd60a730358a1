-------------------------- MODULE CycleCheckProofs --------------------------
(***************************************************************************)
(* Proofs about checkCycles of v1beta1.go for every finite graph.          *)
(***************************************************************************)
EXTENDS CycleCheck, FiniteSetTheorems, WellFoundedInduction, TLAPS

\* Kahn's algorithm: the counters say what is not yet processed, a task is
\* queued or processed exactly when its counter is zero, and what is processed
\* is acyclic.
KahnInv ==
    /\ \A t \in Task : indegree[t] = Cardinality(pred[t] \ processed)
    /\ \A t \in Task : indegree[t] = 0 <=> (t \in queue \/ t \in processed)
    /\ queue \cap processed = {}
    /\ \A t \in processed : pred[t] \subseteq processed
    /\ \A S \in (SUBSET processed) \ {{}} : \E t \in S : pred[t] \cap S = {}

\* The walk stays among the tasks left over, once there are some.
WalkInv ==
    /\ cur # NoTask \/ path # <<>> => cur \in Remaining
    /\ cur # NoTask \/ result # "none" => queue = {}
    /\ result = "cycle" => cur # NoTask
    /\ result = "nil" => Cardinality(processed) = Cardinality(Task)

\* The walk goes from a task to one of its predecessors and visits none twice;
\* when it is over it stands at a task it has seen.
PathInv ==
    /\ \A i, j \in DOMAIN path : path[i] = path[j] => i = j
    /\ \A i \in 1 .. (Len(path) - 1) : path[i + 1] \in pred[path[i]]
    /\ path # <<>> => cur \in pred[path[Len(path)]]
    /\ result = "cycle" => \E i \in DOMAIN path : path[i] = cur

\* The inductive invariant.
IInv == TypeOK /\ KahnInv /\ WalkInv /\ PathInv

-----------------------------------------------------------------------------

\* Subsets of Task are finite, so every counter of the code is a number.
LEMMA TaskSubsetFinite ==
    ASSUME NEW S \in SUBSET Task
    PROVE  IsFiniteSet(S) /\ Cardinality(S) \in Nat
BY TaskAssumption, FS_Subset, FS_CardinalityType

\* A nonempty set of task names has a smallest element.
LEMMA SmallestExists ==
    ASSUME NEW S \in SUBSET Task, S # {}
    PROVE  Smallest(S) \in S /\ \A u \in S : Smallest(S) <= u
<1>1. S \subseteq Nat
  BY TaskAssumption
<1>2. \E t \in S : \A u \in S : ~(<<u, t>> \in OpToRel(<, Nat))
  BY <1>1, WFMin, NatLessThanWellFounded
<1>3. PICK t \in S : \A u \in S : ~(<<u, t>> \in OpToRel(<, Nat))
  BY <1>2
<1>4. \A u \in S : ~(u < t)
  BY <1>1, <1>3 DEF OpToRel
<1>5. \A u \in S : t <= u
  BY <1>1, <1>4
<1> QED
  BY <1>5 DEF Smallest

\* A counter is zero exactly when every predecessor is processed.
LEMMA ZeroIffProcessed ==
    ASSUME TypeOK, KahnInv, NEW t \in Task
    PROVE  /\ indegree[t] \in Nat
           /\ indegree[t] = 0 <=> pred[t] \subseteq processed
<1>1. pred[t] \ processed \in SUBSET Task
  BY DEF TypeOK
<1>2. IsFiniteSet(pred[t] \ processed) /\ Cardinality(pred[t] \ processed) \in Nat
  BY <1>1, TaskSubsetFinite
<1>3. indegree[t] = Cardinality(pred[t] \ processed)
  BY DEF KahnInv
<1>4. Cardinality(pred[t] \ processed) = 0 <=> pred[t] \ processed = {}
  BY <1>2, FS_EmptySet
<1>5. pred[t] \ processed = {} <=> pred[t] \subseteq processed
  OBVIOUS
<1> QED
  BY <1>2, <1>3, <1>4, <1>5

\* When Kahn's loop ends, the tasks left over are those not processed, and each
\* of them waits for another one.
LEMMA RemainingIsStuck ==
    ASSUME TypeOK, KahnInv, queue = {}
    PROVE  /\ Remaining = Task \ processed
           /\ \A t \in Remaining : pred[t] \cap Remaining # {}
<1>1. Remaining = Task \ processed
  BY ZeroIffProcessed DEF Remaining, KahnInv
<1>2. ASSUME NEW t \in Remaining PROVE pred[t] \cap Remaining # {}
  <2>1. t \in Task /\ indegree[t] # 0
    BY DEF Remaining
  <2>2. \E p \in pred[t] : p \notin processed
    BY <2>1, ZeroIffProcessed
  <2> QED
    BY <1>1, <2>1, <2>2 DEF TypeOK
<1> QED
  BY <1>1, <1>2

\* A task left over means a cycle.
LEMMA LeftOverMeansCycle ==
    ASSUME TypeOK, KahnInv, queue = {}, Remaining # {}
    PROVE  ~Acyclic
<1>1. Remaining \in (SUBSET Task) \ {{}}
  BY DEF Remaining
<1> QED
  BY <1>1, RemainingIsStuck DEF Acyclic

-----------------------------------------------------------------------------

LEMMA InitIInv == Init => IInv
<1> SUFFICES ASSUME Init PROVE IInv
  OBVIOUS
<1>0. pred \in [Task -> SUBSET Task] /\ NoTask \notin Task
  BY TaskAssumption DEF Init
<1>1. \A t \in Task : Cardinality(pred[t]) \in Nat
  BY <1>0, TaskSubsetFinite
<1>2. TypeOK
  BY <1>0, <1>1 DEF Init, TypeOK
<1>3. KahnInv
  <2>1. \A t \in Task : pred[t] \ processed = pred[t]
    BY DEF Init
  <2>2. \A t \in Task : indegree[t] = Cardinality(pred[t] \ processed)
    BY <2>1 DEF Init
  <2> QED
    BY <2>2 DEF Init, KahnInv
<1>4. WalkInv
  BY DEF Init, WalkInv
<1>5. PathInv
  <2>1. path = <<>> /\ result = "none" /\ DOMAIN path = {} /\ Len(path) = 0
    BY DEF Init
  <2> QED
    BY <2>1 DEF PathInv
<1> QED
  BY <1>2, <1>3, <1>4, <1>5 DEF IInv

\* One iteration of Kahn's loop.
LEMMA ProcessIInv == ASSUME IInv, NEW t \in Task, Process(t) PROVE IInv'
<1> USE DEF IInv
<1>0. /\ t \in queue /\ t \notin processed /\ processed' = processed \cup {t}
      /\ pred' = pred /\ cur' = cur /\ path' = path /\ result' = result
  BY DEF Process, KahnInv
<1>1. \A u \in Task : /\ pred[u] \in SUBSET Task
                      /\ indegree[u] \in Int
                      /\ indegree'[u] = IF t \in pred[u] THEN indegree[u] - 1 ELSE indegree[u]
  BY DEF Process, TypeOK
<1>2. \A u \in Task : indegree'[u] = Cardinality(pred'[u] \ processed')
  <2> SUFFICES ASSUME NEW u \in Task PROVE indegree'[u] = Cardinality(pred'[u] \ processed')
    OBVIOUS
  <2>1. pred[u] \ processed \in SUBSET Task
    BY <1>1
  <2>2. IsFiniteSet(pred[u] \ processed)
    BY <2>1, TaskSubsetFinite
  <2>3. pred'[u] \ processed' = (pred[u] \ processed) \ {t}
    BY <1>0
  <2>4. indegree[u] = Cardinality(pred[u] \ processed)
    BY DEF KahnInv
  <2> QED
    BY <1>0, <1>1, <2>2, <2>3, <2>4, FS_RemoveElement
<1>3. TypeOK'
  <2>1. \A u \in Task : indegree'[u] \in Nat
    <3> SUFFICES ASSUME NEW u \in Task PROVE indegree'[u] \in Nat
      OBVIOUS
    <3>1. pred'[u] \ processed' \in SUBSET Task
      BY <1>0, <1>1
    <3> QED
      BY <1>2, <3>1, TaskSubsetFinite
  <2>2. indegree' \in [Task -> Nat]
    BY <2>1 DEF Process
  <2> QED
    BY <1>0, <2>2 DEF Process, TypeOK
<1>4. \A u \in Task : t \in pred[u] => indegree[u] # 0
  BY <1>0, ZeroIffProcessed
<1>5. \A u \in Task : u \in queue' <=> (u \in queue /\ u # t) \/ (t \in pred[u] /\ indegree'[u] = 0)
  BY DEF Process
<1>6. pred[t] \subseteq processed
  BY <1>0, ZeroIffProcessed DEF KahnInv
<1>7. \A u \in Task : indegree'[u] = 0 <=> (u \in queue' \/ u \in processed')
  BY <1>0, <1>1, <1>4, <1>5, <1>6 DEF KahnInv
<1>8. queue' \cap processed' = {}
  BY <1>0, <1>3, <1>4, <1>5, <1>6 DEF KahnInv, TypeOK
<1>9. \A u \in processed' : pred'[u] \subseteq processed'
  BY <1>0, <1>6 DEF KahnInv
<1>10. ASSUME NEW S \in (SUBSET processed') \ {{}} PROVE \E u \in S : pred[u] \cap S = {}
  <2>1. CASE S = {t}
    BY <1>0, <1>6, <2>1
  <2>2. CASE S # {t}
    <3>1. S \ {t} \in (SUBSET processed) \ {{}}
      BY <1>0, <2>2
    <3>2. PICK u \in S \ {t} : pred[u] \cap (S \ {t}) = {}
      BY <3>1 DEF KahnInv
    <3>3. t \notin pred[u]
      BY <1>0, <3>1, <3>2 DEF KahnInv
    <3> QED
      BY <3>2, <3>3
  <2> QED
    BY <2>1, <2>2
<1>11. KahnInv'
  BY <1>0, <1>2, <1>7, <1>8, <1>9, <1>10 DEF KahnInv
<1>12. WalkInv'
  <2>1. cur = NoTask /\ result = "none"
    BY <1>0 DEF WalkInv
  <2>2. path = <<>>
    BY <2>1, TaskAssumption DEF WalkInv, Remaining
  <2> QED
    BY <1>0, <2>1, <2>2 DEF WalkInv
<1>13. PathInv'
  BY <1>0 DEF PathInv
<1> QED
  BY <1>3, <1>11, <1>12, <1>13

\* The verdict and the walk, once Kahn's loop has ended.
LEMMA EndIInv == ASSUME IInv, Accept \/ StartWalk \/ Walk \/ Report PROVE IInv'
<1> USE DEF IInv
<1>0. /\ UNCHANGED <<pred, indegree, queue, processed>>
      /\ queue = {}
  BY DEF Accept, StartWalk, Walk, Report, WalkInv
<1>1. KahnInv'
  BY <1>0 DEF KahnInv
<1>2. Remaining' = Remaining
  BY <1>0 DEF Remaining
<1>3. NoTask \notin Task
  BY TaskAssumption
<1>4. CASE Accept
  <2>1. TypeOK'
    BY <1>4 DEF Accept, TypeOK
  <2>2. WalkInv'
    BY <1>0, <1>2, <1>4 DEF Accept, WalkInv
  <2>3. PathInv'
    BY <1>0, <1>4 DEF Accept, PathInv
  <2> QED
    BY <1>1, <2>1, <2>2, <2>3
<1>5. CASE StartWalk
  <2>1. Remaining # {}
    <3>1. processed # Task
      BY <1>5 DEF StartWalk
    <3> QED
      BY <1>0, <3>1, RemainingIsStuck DEF TypeOK
  <2>2. cur' \in Remaining
    BY <1>5, <2>1, SmallestExists DEF StartWalk, Remaining
  <2>3. TypeOK'
    BY <1>5, <2>2 DEF StartWalk, TypeOK, Remaining
  <2>4. WalkInv'
    BY <1>0, <1>2, <1>5, <2>2 DEF StartWalk, WalkInv
  <2>5. PathInv'
    BY <1>0, <1>5 DEF StartWalk, PathInv
  <2> QED
    BY <1>1, <2>3, <2>4, <2>5
<1>6. CASE Walk
  <2>1. cur \in Remaining /\ cur \in Task
    BY <1>6 DEF Walk, WalkInv, Remaining
  <2>2. pred[cur] \cap Remaining # {} /\ pred[cur] \cap Remaining \in SUBSET Task
    BY <1>0, <2>1, RemainingIsStuck DEF Remaining
  <2>3. cur' \in Remaining /\ cur' \in Task
    BY <1>6, <2>2, SmallestExists DEF Walk
  <2>4. path' \in Seq(Task) /\ result' = result /\ result = "none"
    BY <1>6, <2>1 DEF Walk, TypeOK
  <2>5. TypeOK'
    BY <1>0, <2>3, <2>4 DEF TypeOK
  <2>6. WalkInv'
    BY <1>0, <1>2, <2>3, <2>4 DEF WalkInv
  <2>7. PathInv'
    <3>1. path \in Seq(Task) /\ path' = Append(path, cur) /\ cur' \in pred[cur] /\ pred' = pred
      BY <1>6, <2>2, SmallestExists DEF Walk, TypeOK
    <3>2. /\ Len(path') = Len(path) + 1 /\ Len(path) \in Nat
          /\ DOMAIN path' = 1 .. (Len(path) + 1) /\ DOMAIN path = 1 .. Len(path)
          /\ path'[Len(path) + 1] = cur
          /\ \A i \in 1 .. Len(path) : path'[i] = path[i]
      BY <2>1, <3>1
    <3>3. \A i \in DOMAIN path : path[i] # cur
      BY <1>6 DEF Walk, Range
    <3>4. \A i, j \in DOMAIN path' : path'[i] = path'[j] => i = j
      BY <3>2, <3>3 DEF PathInv
    <3>5. ASSUME NEW i \in 1 .. (Len(path') - 1) PROVE path'[i + 1] \in pred'[path'[i]]
      <4>1. i \in 1 .. Len(path) /\ path'[i] = path[i]
        BY <3>2, <3>5
      <4>2. CASE i = Len(path)
        <5>1. path # <<>> /\ path'[i + 1] = cur
          BY <3>1, <3>2, <4>1, <4>2
        <5> QED
          BY <3>1, <4>1, <4>2, <5>1 DEF PathInv
      <4>3. CASE i # Len(path)
        <5>1. i \in 1 .. (Len(path) - 1) /\ i + 1 \in 1 .. Len(path)
          <6>1. Len(path) \in Nat /\ i \in 1 .. Len(path) /\ i # Len(path)
            BY <3>2, <4>1, <4>3
          <6> QED
            BY <6>1
        <5>2. path'[i + 1] = path[i + 1]
          BY <3>2, <5>1
        <5> QED
          BY <3>1, <4>1, <5>1, <5>2 DEF PathInv
      <4> QED
        BY <4>2, <4>3
    <3> QED
      BY <2>4, <3>1, <3>2, <3>4, <3>5 DEF PathInv
  <2> QED
    BY <1>1, <2>5, <2>6, <2>7
<1>7. CASE Report
  <2>1. TypeOK'
    BY <1>7 DEF Report, TypeOK
  <2>2. WalkInv'
    BY <1>0, <1>2, <1>7 DEF Report, WalkInv
  <2>3. PathInv'
    BY <1>0, <1>7 DEF Report, PathInv, Range
  <2> QED
    BY <1>1, <2>1, <2>2, <2>3
<1> QED
  BY <1>4, <1>5, <1>6, <1>7

\* The invariant holds in every reachable state of checkCycles.
THEOREM Inductive == Spec => []IInv
<1>1. IInv /\ [Next]_vars => IInv'
  <2> SUFFICES ASSUME IInv, [Next]_vars PROVE IInv'
    OBVIOUS
  <2>1. CASE UNCHANGED vars
    BY <2>1 DEF vars, IInv, TypeOK, KahnInv, WalkInv, PathInv, Remaining
  <2> QED
    BY <2>1, ProcessIInv, EndIInv DEF Next, Returned
<1> QED
  BY <1>1, InitIInv, PTL DEF Spec

\* checkCycles returns nil for acyclic graphs only, so that every task set it
\* accepts can be executed to the end, and reports a cycle for cyclic ones only.
THEOREM VerdictIsRightHolds == Spec => []VerdictIsRight
<1>1. ASSUME IInv, result = "nil" PROVE Acyclic
  <2>1. processed = Task
    BY <1>1, TaskAssumption, FS_Subset DEF IInv, TypeOK, WalkInv
  <2> QED
    BY <1>1, <2>1 DEF IInv, KahnInv, Acyclic
<1>2. ASSUME IInv, result = "cycle" \/ cur # NoTask PROVE ~Acyclic
  <2>1. queue = {} /\ cur \in Remaining
    BY <1>2 DEF IInv, WalkInv
  <2> QED
    BY <1>2, <2>1, LeftOverMeansCycle DEF IInv
<1>3. IInv => VerdictIsRight
  BY <1>1, <1>2 DEF VerdictIsRight
<1> QED
  BY <1>3, Inductive, PTL

\* The predecessor walk never runs out of predecessors: it cannot leave the
\* graph, so its loop ends at a task it has seen.
THEOREM WalkGoesOnHolds == Spec => []WalkGoesOn
<1>1. IInv => WalkGoesOn
  BY TaskAssumption DEF IInv, WalkInv, WalkGoesOn, Remaining
<1> QED
  BY <1>1, Inductive, PTL

-----------------------------------------------------------------------------

\* The reported cycle, position by position: the path from the task the walk
\* came back to, backwards.
LEMMA CycleIsThePath ==
    ASSUME TypeOK, PathInv, NEW k \in DOMAIN path, path[k] = cur
    PROVE  /\ Len(Cycle) = Len(path) - k + 1
           /\ DOMAIN Cycle = 1 .. (Len(path) - k + 1)
           /\ \A i \in DOMAIN Cycle : Cycle[i] = path[Len(path) - i + 1]
<1>1. (CHOOSE i \in DOMAIN path : path[i] = cur) = k
  BY DEF PathInv
<1>2. path \in Seq(Task) /\ DOMAIN path = 1 .. Len(path) /\ Len(path) \in Nat
  BY DEF TypeOK
<1> DEFINE rest == SubSeq(path, k, Len(path))
<1>3. Cycle = Reverse(rest)
  BY <1>1 DEF Cycle
<1>4. /\ Len(rest) = Len(path) - k + 1 /\ Len(rest) \in Nat
      /\ \A i \in 1 .. Len(rest) : rest[i] = path[k + i - 1]
  BY <1>2
<1>5. Cycle = [i \in 1 .. Len(rest) |-> rest[(Len(rest) - i) + 1]]
  BY <1>3 DEF Reverse
<1> HIDE DEF rest
<1>6. Len(Cycle) = Len(rest) /\ DOMAIN Cycle = 1 .. Len(rest)
  BY <1>4, <1>5
<1>7. ASSUME NEW i \in 1 .. Len(rest) PROVE Cycle[i] = path[Len(path) - i + 1]
  <2>1. PICK j : j = (Len(rest) - i) + 1
    OBVIOUS
  <2>2. j \in 1 .. Len(rest) /\ k + j - 1 = Len(path) - i + 1
    BY <1>2, <1>4, <1>7, <2>1
  <2> QED
    BY <1>4, <1>5, <2>1, <2>2
<1> QED
  BY <1>4, <1>6, <1>7

\* The cycle checkCycles reports is one of the graph: not empty, no task twice,
\* every task a predecessor of the next and the last one of the first, so that
\* the error names dependencies that exist, whatever way into it the walk took.
THEOREM CycleIsRealHolds == Spec => []CycleIsReal
<1>1. ASSUME IInv, result = "cycle"
      PROVE  /\ Cycle # <<>>
             /\ \A i, j \in DOMAIN Cycle : Cycle[i] = Cycle[j] => i = j
             /\ \A i \in DOMAIN Cycle : Cycle[i] \in pred[Cycle[(i % Len(Cycle)) + 1]]
  <2>1. PICK k \in DOMAIN path : path[k] = cur
    BY <1>1 DEF IInv, PathInv
  <2>2. Len(path) \in Nat /\ k \in 1 .. Len(path) /\ DOMAIN path = 1 .. Len(path) /\ path # <<>>
    BY <1>1, <2>1 DEF IInv, TypeOK
  <2>3. PICK n : n = Len(path) - k + 1
    OBVIOUS
  <2>4. /\ n \in Nat /\ n >= 1 /\ Len(Cycle) = n /\ DOMAIN Cycle = 1 .. n
        /\ \A i \in 1 .. n : Cycle[i] = path[Len(path) - i + 1]
    BY <1>1, <2>1, <2>2, <2>3, CycleIsThePath DEF IInv
  <2>5. ASSUME NEW i \in 1 .. n, NEW j \in 1 .. n, Cycle[i] = Cycle[j] PROVE i = j
    <3>1. Len(path) - i + 1 \in 1 .. Len(path) /\ Len(path) - j + 1 \in 1 .. Len(path)
      BY <2>2, <2>3, <2>4
    <3>2. path[Len(path) - i + 1] = path[Len(path) - j + 1]
      BY <2>4, <2>5
    <3>3. Len(path) - i + 1 = Len(path) - j + 1
      BY <1>1, <2>2, <3>1, <3>2 DEF IInv, PathInv
    <3> QED
      BY <2>2, <3>3
  <2>6. ASSUME NEW i \in 1 .. n PROVE Cycle[i] \in pred[Cycle[(i % n) + 1]]
    <3>1. CASE i = n
      <4>1. i % n = 0
        BY <2>4, <3>1
      <4>2. Cycle[i] = path[k] /\ Cycle[(i % n) + 1] = path[Len(path)]
        BY <2>2, <2>3, <2>4, <3>1, <4>1
      <4> QED
        BY <1>1, <2>1, <2>2, <4>2 DEF IInv, PathInv
    <3>2. CASE i # n
      <4>1. i % n = i
        BY <2>4, <2>6, <3>2
      <4>2. Cycle[i] = path[(Len(path) - i) + 1] /\ Cycle[(i % n) + 1] = path[Len(path) - i]
        <5>1. i + 1 \in 1 .. n /\ Len(path) - (i + 1) + 1 = Len(path) - i
          BY <2>2, <2>4, <2>6, <3>2
        <5> QED
          BY <2>4, <2>6, <4>1, <5>1
      <4>3. Len(path) - i \in 1 .. (Len(path) - 1)
        BY <2>2, <2>3, <2>4, <2>6, <3>2
      <4> QED
        BY <1>1, <4>2, <4>3 DEF IInv, PathInv
    <3> QED
      BY <3>1, <3>2
  <2>7. Cycle # <<>>
    BY <2>4
  <2> QED
    BY <2>4, <2>5, <2>6, <2>7
<1>2. IInv => CycleIsReal
  BY <1>1 DEF CycleIsReal
<1> QED
  BY <1>2, Inductive, PTL
=============================================================================
