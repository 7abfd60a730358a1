--------------------------- MODULE ExecutorProofs ---------------------------
(***************************************************************************)
(* Proofs about the scheduler of v1beta1.go (Executor, and DispatchOrder   *)
(* with its record of what was dispatched) for every set of tasks, every   *)
(* graph and every concurrency.                                            *)
(***************************************************************************)
EXTENDS DispatchOrder, FiniteSetTheorems, TLAPS

\* The channel carries completions only, each at most once.
ChannelInv ==
    /\ \A i \in DOMAIN completions : worker[completions[i]] = "sent"
    /\ \A i, j \in DOMAIN completions : completions[i] = completions[j] => i = j

\* How far the dispatcher got, and why.
DispatcherInv ==
    /\ pc # "run" => held = NoTask /\ (err = NoTask => pending = 0)
    /\ pc = "done" => slots = {}

\* Who may have recorded, or seen, the error.
ErrorInv ==
    /\ err # NoTask => worker[err] = "recorded"
    /\ \A t \in Task : worker[t] \in {"recorded", "refused", "dropped"} => err # NoTask

\* The inductive invariant.
IInv ==
    /\ TypeOK
    /\ ChannelInv
    /\ CountersAgree
    /\ DispatchedOnce
    /\ BoundedConcurrency
    /\ DispatcherInv
    /\ ErrorInv

-----------------------------------------------------------------------------
(***************************************************************************)
(* Lemmas.                                                                 *)
(***************************************************************************)

\* Subsets of Task are finite, so every counter of the code is a number.
LEMMA TaskSubsetFinite ==
    ASSUME NEW S \in SUBSET Task
    PROVE  IsFiniteSet(S) /\ Cardinality(S) \in Nat
BY TaskAssumption, FS_Subset, FS_CardinalityType

\* max(1, Concurrency) is at least one.
LEMMA LimitPositive == Limit \in Nat /\ Limit >= 1
BY TaskAssumption DEF Limit

\* Receiving one more completion takes one off the set of awaited tasks that
\* contains it, and nothing off the others.
LEMMA AwaitOneLess ==
    ASSUME NEW S \in SUBSET Task, NEW R \in SUBSET Task, NEW d \in Task, d \notin R
    PROVE  Cardinality(S \ (R \cup {d})) =
              IF d \in S THEN Cardinality(S \ R) - 1 ELSE Cardinality(S \ R)
<1>1. IsFiniteSet(S \ R)
  BY TaskSubsetFinite
<1>2. S \ (R \cup {d}) = (S \ R) \ {d}
  OBVIOUS
<1>3. Cardinality((S \ R) \ {d}) =
          IF d \in S \ R THEN Cardinality(S \ R) - 1 ELSE Cardinality(S \ R)
  BY <1>1, FS_RemoveElement
<1>4. d \in S \ R <=> d \in S
  OBVIOUS
<1> QED
  BY <1>2, <1>3, <1>4

\* A worker that moves without sending leaves the received completions alone.
LEMMA MoveKeepsReceived ==
    ASSUME TypeOK, NEW t \in Task, NEW to,
           worker[t] # "sent", to # "sent",
           worker' = [worker EXCEPT ![t] = to], completions' = completions
    PROVE  Received' = Received
BY DEF Received, TypeOK

\* A counter is zero when nothing is awaited.
LEMMA ZeroMeansAllReceived ==
    ASSUME TypeOK, CountersAgree, NEW t \in Task, indegree[t] = 0
    PROVE  \A p \in pred[t] : worker[p] = "sent"
<1>1. pred[t] \ Received \in SUBSET Task
  BY DEF TypeOK
<1>2. pred[t] \ Received = {}
  BY <1>1, TaskSubsetFinite, FS_EmptySet DEF CountersAgree
<1> QED
  BY <1>2 DEF Received

-----------------------------------------------------------------------------
(***************************************************************************)
(* The invariant holds initially and every action preserves it.            *)
(***************************************************************************)

LEMMA InitIInv == Init => IInv
<1> SUFFICES ASSUME Init PROVE IInv
  OBVIOUS
<1>0. pred \in [Task -> SUBSET Task] /\ NoTask \notin Task
  BY TaskAssumption DEF Init
<1>a. /\ indegree = [t \in Task |-> Cardinality(pred[t])]
      /\ ready = {t \in Task : indegree[t] = 0}
      /\ held = NoTask /\ pending = Cardinality(Task) /\ pc = "run"
      /\ worker = [t \in Task |-> "idle"]
      /\ slots = {} /\ completions = <<>> /\ err = NoTask
  BY DEF Init
<1>1. \A t \in Task : Cardinality(pred[t]) \in Nat
  BY <1>0, TaskSubsetFinite
<1>2. Cardinality(Task) \in Nat
  BY TaskSubsetFinite
<1>3. TypeOK
  <2>1. indegree \in [Task -> Nat] /\ ready \in SUBSET Task
    BY <1>a, <1>1
  <2>2. held \in Task \cup {NoTask} /\ err \in Task \cup {NoTask}
    BY <1>a
  <2>3. pending \in Nat /\ pc \in {"run", "wait", "done"}
    BY <1>a, <1>2
  <2>4. worker \in [Task -> WorkerState] /\ slots \in SUBSET Task /\ completions \in Seq(Task)
    BY <1>a DEF WorkerState
  <2> QED
    BY <1>0, <2>1, <2>2, <2>3, <2>4 DEF TypeOK
<1>4. Received = {}
  BY <1>a DEF Received
<1>5. CountersAgree
  <2>1. pending = Cardinality(Task \ Received)
    BY <1>a, <1>4
  <2>2. \A t \in Task : indegree[t] = Cardinality(pred[t] \ Received)
    BY <1>a, <1>4
  <2>3. \A t \in Task : indegree[t] = 0 <=> (t \in ready \/ t = held \/ worker[t] # "idle")
    BY <1>0, <1>a
  <2> QED
    BY <2>1, <2>2, <2>3 DEF CountersAgree
<1>6. BoundedConcurrency
  <2>1. slots = {} /\ worker = [t \in Task |-> "idle"]
    BY <1>a
  <2> QED
    BY <2>1, FS_EmptySet, LimitPositive DEF BoundedConcurrency
<1>7. ChannelInv /\ DispatchedOnce /\ DispatcherInv /\ ErrorInv
  <2>1. ChannelInv
    BY <1>a DEF ChannelInv
  <2>2. DispatchedOnce
    BY <1>0, <1>a DEF DispatchedOnce
  <2>3. DispatcherInv /\ ErrorInv
    BY <1>a DEF DispatcherInv, ErrorInv
  <2> QED
    BY <2>1, <2>2, <2>3
<1> QED
  BY <1>3, <1>5, <1>6, <1>7 DEF IInv

\* Only Pop, Go and Receive touch what the counters and the queue say; the rest
\* of the dispatcher's steps move pc.
LEMMA PopIInv == ASSUME IInv, NEW t \in Task, Pop(t) PROVE IInv'
<1> USE DEF IInv
<1>0. NoTask \notin Task
  BY TaskAssumption
<1>1. Received' = Received
  BY DEF Pop, Received
<1>2. TypeOK'
  BY DEF Pop, TypeOK
<1>3. worker[t] = "idle" /\ indegree[t] = 0
  BY DEF Pop, DispatchedOnce, CountersAgree
<1>4. CountersAgree'
  BY <1>0, <1>1, <1>3 DEF Pop, CountersAgree
<1>5. DispatchedOnce'
  BY <1>0, <1>3 DEF Pop, DispatchedOnce
<1>6. DispatcherInv'
  BY DEF Pop, DispatcherInv
<1>7. ChannelInv' /\ BoundedConcurrency' /\ ErrorInv'
  BY DEF Pop, ChannelInv, BoundedConcurrency, ErrorInv
<1> QED
  BY <1>2, <1>4, <1>5, <1>6, <1>7

LEMMA GoIInv == ASSUME IInv, NEW t \in Task, Go(t) PROVE IInv'
<1> USE DEF IInv
<1>0. NoTask \notin Task
  BY TaskAssumption
<1>1. worker[t] = "idle" /\ indegree[t] = 0 /\ t \notin ready
  BY DEF Go, DispatchedOnce, CountersAgree
<1>2. Received' = Received
  BY <1>1, MoveKeepsReceived DEF Go
<1>3. TypeOK'
  BY <1>0 DEF Go, TypeOK, WorkerState
<1>4. CountersAgree'
  BY <1>0, <1>1, <1>2, <1>3 DEF Go, CountersAgree, TypeOK
<1>5. DispatchedOnce'
  BY <1>0, <1>1, <1>3 DEF Go, DispatchedOnce, TypeOK
<1>6. BoundedConcurrency'
  <2>1. IsFiniteSet(slots) /\ Cardinality(slots) \in Nat
    BY TaskSubsetFinite DEF TypeOK
  <2>2. Cardinality(slots \cup {t}) \in {Cardinality(slots), Cardinality(slots) + 1}
    BY <2>1, FS_AddElement
  <2>3. Cardinality(slots) < Limit /\ slots' = slots \cup {t}
    BY DEF Go
  <2>4. Cardinality(slots') <= Limit
    BY <2>1, <2>2, <2>3, LimitPositive
  <2> QED
    BY <2>4 DEF Go, BoundedConcurrency, TypeOK, Limit
<1>7. DispatcherInv'
  BY <1>0 DEF Go, DispatcherInv
<1>8. ChannelInv'
  BY <1>1 DEF Go, ChannelInv, TypeOK
<1>9. ErrorInv'
  BY <1>1 DEF Go, ErrorInv, TypeOK
<1> QED
  BY <1>3, <1>4, <1>5, <1>6, <1>7, <1>8, <1>9

\* Receiving a completion adds its task to the received ones.
LEMMA ReceiveAdds ==
    ASSUME IInv, Receive
    PROVE  /\ Head(completions) \in Task \ Received
           /\ Received' = Received \cup {Head(completions)}
<1> USE DEF IInv
<1> DEFINE done == Head(completions)
<1>1. /\ completions \in Seq(Task) /\ completions # <<>>
      /\ done \in Task /\ worker[done] = "sent" /\ done = completions[1]
  BY DEF Receive, TypeOK, ChannelInv
<1>2. /\ completions' \in Seq(Task)
      /\ DOMAIN completions' = 1 .. Len(completions) - 1
      /\ \A i \in DOMAIN completions' : completions'[i] = completions[i + 1]
  BY <1>1 DEF Receive
<1>3. done \notin Received
  BY <1>1 DEF Received
<1>4. Received' = Received \cup {done}
  <2>1. ASSUME NEW t \in Task
        PROVE  (\A i \in DOMAIN completions' : completions'[i] # t)
                 <=> (t = done \/ \A i \in DOMAIN completions : completions[i] # t)
    <3>1. \A i \in DOMAIN completions :
             i # 1 => i - 1 \in DOMAIN completions' /\ completions'[i - 1] = completions[i]
      BY <1>1, <1>2
    <3>2. \A i \in DOMAIN completions' :
             /\ i + 1 \in DOMAIN completions /\ 1 \in DOMAIN completions
             /\ i + 1 # 1
      BY <1>1, <1>2
    <3>3. \A i \in DOMAIN completions' : completions'[i] # done
      BY <1>1, <1>2, <3>2 DEF ChannelInv
    <3>4. (\A i \in DOMAIN completions : completions[i] # t)
             => \A i \in DOMAIN completions' : completions'[i] # t
      BY <1>2, <3>2
    <3>5. ASSUME \A i \in DOMAIN completions' : completions'[i] # t, t # done
          PROVE  \A i \in DOMAIN completions : completions[i] # t
      BY <1>1, <3>1, <3>5
    <3> QED
      BY <3>3, <3>4, <3>5
  <2>2. worker' = worker
    BY DEF Receive
  <2> QED
    BY <1>1, <2>1, <2>2 DEF Received
<1> QED
  BY <1>1, <1>3, <1>4

LEMMA ReceiveIInv == ASSUME IInv, Receive PROVE IInv'
<1> USE DEF IInv
<1> DEFINE done == Head(completions)
<1>0. NoTask \notin Task
  BY TaskAssumption
<1>1. /\ completions \in Seq(Task) /\ completions # <<>>
      /\ done \in Task /\ worker[done] = "sent" /\ done = completions[1]
  BY DEF Receive, TypeOK, ChannelInv
<1>2. /\ completions' \in Seq(Task)
      /\ DOMAIN completions' = 1 .. Len(completions) - 1
      /\ \A i \in DOMAIN completions' : completions'[i] = completions[i + 1]
  BY <1>1 DEF Receive
<1>3. ChannelInv'
  BY <1>1, <1>2 DEF Receive, ChannelInv
<1>4. done \notin Received
  BY <1>1 DEF Received
<1>5. Received' = Received \cup {done}
  BY ReceiveAdds
<1>6. Received \in SUBSET Task
  BY DEF Received
<1>7. \A t \in Task : pred[t] \in SUBSET Task /\ indegree[t] \in Int
  BY DEF TypeOK
<1>8. \A t \in Task :
         indegree'[t] = IF done \in pred[t] THEN indegree[t] - 1 ELSE indegree[t]
  BY DEF Receive
<1>9. \A t \in Task : indegree'[t] = Cardinality(pred'[t] \ Received')
  <2> SUFFICES ASSUME NEW t \in Task
               PROVE  indegree'[t] = Cardinality(pred'[t] \ Received')
    OBVIOUS
  <2>1. pred[t] \in SUBSET Task /\ pred' = pred
    BY <1>7 DEF Receive
  <2>2. indegree[t] = Cardinality(pred[t] \ Received)
    BY DEF CountersAgree
  <2>3. Cardinality(pred[t] \ (Received \cup {done})) =
           IF done \in pred[t] THEN Cardinality(pred[t] \ Received) - 1
                               ELSE Cardinality(pred[t] \ Received)
    BY <1>1, <1>4, <1>6, <2>1, AwaitOneLess
  <2> QED
    BY <1>5, <1>8, <2>1, <2>2, <2>3
<1>10. pending' = Cardinality(Task \ Received')
  BY <1>1, <1>4, <1>5, <1>6, AwaitOneLess DEF Receive, CountersAgree
<1>11. TypeOK'
  <2>1. \A t \in Task : indegree'[t] \in Nat
    <3> SUFFICES ASSUME NEW t \in Task PROVE indegree'[t] \in Nat
      OBVIOUS
    <3>1. pred'[t] \ Received' \in SUBSET Task
      BY <1>7 DEF Receive
    <3> QED
      BY <1>9, <3>1, TaskSubsetFinite
  <2>2. indegree' \in [Task -> Nat]
    BY <2>1 DEF Receive
  <2>3. pending' \in Nat
    BY <1>10, TaskSubsetFinite
  <2>4. ready' \in SUBSET Task
    BY DEF Receive, TypeOK
  <2> QED
    BY <1>2, <2>2, <2>3, <2>4 DEF Receive, TypeOK
<1>12. \A t \in Task : done \in pred[t] => indegree[t] # 0
  <2>1. ASSUME NEW t \in Task, done \in pred[t], indegree[t] = 0 PROVE FALSE
    <3>1. pred[t] \ Received \in SUBSET Task
      BY <1>7
    <3>2. Cardinality(pred[t] \ Received) = 0
      BY <2>1 DEF CountersAgree
    <3>3. pred[t] \ Received = {}
      BY <3>1, <3>2, TaskSubsetFinite, FS_EmptySet
    <3> QED
      BY <3>3, <1>4, <2>1
  <2> QED
    BY <2>1
<1>13. \A t \in Task : t \in ready' <=> t \in ready \/ (done \in pred[t] /\ indegree'[t] = 0)
  BY DEF Receive
<1>14. CountersAgree'
  <2>1. \A t \in Task : indegree'[t] = 0 <=> (t \in ready' \/ t = held' \/ worker'[t] # "idle")
    BY <1>8, <1>12, <1>13 DEF Receive, CountersAgree
  <2> QED
    BY <1>9, <1>10, <2>1 DEF CountersAgree
<1>15. DispatchedOnce'
  BY <1>12, <1>13 DEF Receive, DispatchedOnce, CountersAgree
<1>16. DispatcherInv' /\ BoundedConcurrency' /\ ErrorInv'
  BY DEF Receive, AtSelect, DispatcherInv, BoundedConcurrency, ErrorInv
<1> QED
  BY <1>3, <1>11, <1>14, <1>15, <1>16

LEMMA ExitsIInv == ASSUME IInv, Stop \/ Drain \/ Return PROVE IInv'
<1> USE DEF IInv
<1>1. Received' = Received
  BY DEF Stop, Drain, Return, Received
<1>2. TypeOK'
  BY DEF Stop, Drain, Return, TypeOK
<1>3. DispatcherInv'
  BY DEF Stop, Drain, Return, AtSelect, Cancelled, DispatcherInv
<1>4. CountersAgree' /\ DispatchedOnce'
  BY <1>1 DEF Stop, Drain, Return, CountersAgree, DispatchedOnce
<1>5. ChannelInv' /\ BoundedConcurrency' /\ ErrorInv'
  BY DEF Stop, Drain, Return, ChannelInv, BoundedConcurrency, ErrorInv
<1> QED
  BY <1>2, <1>3, <1>4, <1>5

\* A worker's steps within its goroutine leave the counters, the queue and the
\* channel alone; only Send adds to the channel, and keeps what was received.
LEMMA BodyIInv ==
    ASSUME IInv, NEW t \in Task, Begin(t) \/ Refuse(t) \/ Succeed(t) \/ Fail(t)
    PROVE  IInv'
<1> USE DEF IInv
<1>0. PICK to \in {"running", "refused", "succeeded", "failed"} :
         /\ worker[t] \in {"spawned", "running"}
         /\ worker' = [worker EXCEPT ![t] = to]
         /\ to = "refused" => err # NoTask
  BY DEF Begin, Refuse, Succeed, Fail, Move, Cancelled
<1>1. UNCHANGED <<pred, indegree, ready, held, pending, pc, slots, completions, err>>
  BY DEF Begin, Refuse, Succeed, Fail, Move
<1>2. Received' = Received
  BY <1>0, <1>1, MoveKeepsReceived
<1>3. TypeOK'
  BY <1>0, <1>1 DEF TypeOK, WorkerState
<1>4. \A u \in Task : worker'[u] = IF u = t THEN to ELSE worker[u]
  BY <1>0 DEF TypeOK
<1>5. CountersAgree' /\ DispatchedOnce'
  BY <1>0, <1>1, <1>2, <1>4 DEF CountersAgree, DispatchedOnce
<1>6. BoundedConcurrency'
  BY <1>0, <1>1, <1>4 DEF BoundedConcurrency
<1>7. ChannelInv'
  BY <1>0, <1>1, <1>4 DEF ChannelInv, TypeOK
<1>8. DispatcherInv'
  BY <1>1 DEF DispatcherInv
<1>9. ErrorInv'
  BY <1>0, <1>1, <1>4 DEF ErrorInv, TypeOK
<1> QED
  BY <1>3, <1>5, <1>6, <1>7, <1>8, <1>9

\* A completion in the channel is not yet received.
LEMMA SendKeepsReceived == ASSUME IInv, NEW t \in Task, Send(t) PROVE Received' = Received
<1>1. worker[t] = "succeeded" /\ \A u \in Task : worker'[u] = IF u = t THEN "sent" ELSE worker[u]
  BY DEF Send, Move, IInv, TypeOK
<1>2. completions' = Append(completions, t) /\ completions \in Seq(Task)
  BY DEF Send, IInv, TypeOK
<1>3. /\ DOMAIN completions' = 1 .. Len(completions) + 1
      /\ DOMAIN completions = 1 .. Len(completions)
      /\ \A i \in DOMAIN completions : completions'[i] = completions[i]
      /\ completions'[Len(completions) + 1] = t
      /\ Len(completions) \in Nat
  BY <1>2
<1>4. \A i \in DOMAIN completions' : i \in DOMAIN completions \/ i = Len(completions) + 1
  BY <1>3
<1>5. ASSUME NEW u \in Task, u # t
      PROVE  (\A i \in DOMAIN completions' : completions'[i] # u)
               <=> (\A i \in DOMAIN completions : completions[i] # u)
  BY <1>3, <1>4, <1>5
<1>6. t \notin Received /\ t \notin Received'
  BY <1>1, <1>3 DEF Received
<1> QED
  BY <1>1, <1>5, <1>6 DEF Received

LEMMA SendIInv == ASSUME IInv, NEW t \in Task, Send(t) PROVE IInv'
<1> USE DEF IInv
<1>0. worker[t] = "succeeded" /\ worker' = [worker EXCEPT ![t] = "sent"]
  BY DEF Send, Move
<1>1. UNCHANGED <<pred, indegree, ready, held, pending, pc, slots, err>>
  BY DEF Send, Move
<1>2. completions' = Append(completions, t) /\ completions \in Seq(Task)
  BY DEF Send, TypeOK
<1>3. /\ completions' \in Seq(Task)
      /\ DOMAIN completions' = 1 .. Len(completions) + 1
      /\ DOMAIN completions = 1 .. Len(completions)
      /\ \A i \in DOMAIN completions : completions'[i] = completions[i]
      /\ completions'[Len(completions) + 1] = t
      /\ Len(completions) \in Nat
  BY <1>2
<1>4. TypeOK'
  BY <1>0, <1>1, <1>3 DEF TypeOK, WorkerState
<1>5. \A u \in Task : worker'[u] = IF u = t THEN "sent" ELSE worker[u]
  BY <1>0 DEF TypeOK
<1>6. \A i \in DOMAIN completions : completions[i] # t
  BY <1>0 DEF ChannelInv
<1>7. \A i \in DOMAIN completions' : i \in DOMAIN completions \/ i = Len(completions) + 1
  BY <1>3
<1>8. ChannelInv'
  BY <1>2, <1>3, <1>5, <1>6, <1>7 DEF ChannelInv, TypeOK
<1>9. Received' = Received
  BY SendKeepsReceived
<1>10. CountersAgree' /\ DispatchedOnce'
  BY <1>0, <1>1, <1>5, <1>9 DEF CountersAgree, DispatchedOnce
<1>11. BoundedConcurrency' /\ DispatcherInv'
  BY <1>1, <1>5 DEF BoundedConcurrency, DispatcherInv
<1>12. ErrorInv'
  BY <1>0, <1>1, <1>5 DEF ErrorInv, TypeOK
<1> QED
  BY <1>4, <1>8, <1>10, <1>11, <1>12

LEMMA RecordIInv == ASSUME IInv, NEW t \in Task, Record(t) PROVE IInv'
<1> USE DEF IInv
<1>0. PICK to \in {"recorded", "dropped"} :
         /\ worker[t] = IF to = "recorded" THEN "failed" ELSE "refused"
         /\ worker' = [worker EXCEPT ![t] = to]
  BY DEF Record, Move
<1>1. /\ UNCHANGED <<pred, indegree, ready, held, pending, pc, slots, completions>>
      /\ err' = IF err = NoTask THEN t ELSE err
  BY DEF Record, Move, Cancelled
<1>2. NoTask \notin Task
  BY TaskAssumption
<1>3. Received' = Received
  BY <1>0, <1>1, MoveKeepsReceived
<1>4. TypeOK'
  BY <1>0, <1>1 DEF TypeOK, WorkerState
<1>5. \A u \in Task : worker'[u] = IF u = t THEN to ELSE worker[u]
  BY <1>0 DEF TypeOK
<1>6. CountersAgree' /\ DispatchedOnce'
  BY <1>0, <1>1, <1>3, <1>5 DEF CountersAgree, DispatchedOnce
<1>7. BoundedConcurrency'
  BY <1>0, <1>1, <1>5 DEF BoundedConcurrency
<1>8. ChannelInv'
  BY <1>0, <1>1, <1>5 DEF ChannelInv, TypeOK
<1>9. DispatcherInv'
  BY <1>1, <1>2 DEF DispatcherInv
<1>10. ErrorInv'
  BY <1>0, <1>1, <1>2, <1>5 DEF ErrorInv, TypeOK
<1> QED
  BY <1>4, <1>6, <1>7, <1>8, <1>9, <1>10

LEMMA ExitIInv == ASSUME IInv, NEW t \in Task, Exit(t) PROVE IInv'
<1> USE DEF IInv
<1>1. Received' = Received
  BY DEF Exit, Received
<1>2. TypeOK'
  BY DEF Exit, TypeOK
<1>3. BoundedConcurrency'
  <2>1. IsFiniteSet(slots) /\ Cardinality(slots) \in Nat
    BY TaskSubsetFinite DEF TypeOK
  <2>2. Cardinality(slots') \in Nat /\ Cardinality(slots') <= Cardinality(slots)
    <3>1. slots' \in SUBSET slots
      BY DEF Exit
    <3> QED
      BY <2>1, <3>1, FS_Subset, FS_CardinalityType
  <2>3. Cardinality(slots) <= Limit
    BY DEF BoundedConcurrency
  <2>4. Cardinality(slots') <= Limit
    BY <2>1, <2>2, <2>3, LimitPositive
  <2> QED
    BY <2>4 DEF Exit, BoundedConcurrency, Limit
<1>4. CountersAgree' /\ DispatchedOnce'
  BY <1>1 DEF Exit, CountersAgree, DispatchedOnce
<1>5. ChannelInv' /\ DispatcherInv' /\ ErrorInv'
  BY DEF Exit, ChannelInv, DispatcherInv, ErrorInv
<1> QED
  BY <1>2, <1>3, <1>4, <1>5

LEMMA NextIInv == IInv /\ [Next]_vars => IInv'
<1> SUFFICES ASSUME IInv, [Next]_vars PROVE IInv'
  OBVIOUS
<1>1. CASE Dispatcher
  BY <1>1, PopIInv, GoIInv, ReceiveIInv, ExitsIInv DEF Dispatcher
<1>2. ASSUME NEW t \in Task, Worker(t) PROVE IInv'
  BY <1>2, BodyIInv, SendIInv, RecordIInv, ExitIInv DEF Worker
<1>3. CASE UNCHANGED vars
  <2> USE <1>3 DEF vars
  <2>1. Received' = Received
    BY DEF Received
  <2>2. TypeOK' /\ ChannelInv' /\ CountersAgree'
    BY <2>1 DEF IInv, TypeOK, ChannelInv, CountersAgree
  <2>3. DispatchedOnce' /\ BoundedConcurrency' /\ DispatcherInv' /\ ErrorInv'
    BY DEF IInv, DispatchedOnce, BoundedConcurrency, DispatcherInv, ErrorInv
  <2> QED
    BY <2>2, <2>3 DEF IInv
<1> QED
  BY <1>1, <1>2, <1>3 DEF Next, Terminated

\* The invariant holds in every reachable state of execute.
THEOREM Inductive == Spec => []IInv
<1> QED
  BY InitIInv, NextIInv, PTL DEF Spec

\* The order follows from the counters.
LEMMA OrderFromInv == IInv => TopologicalOrder
BY ZeroMeansAllReceived DEF IInv, CountersAgree, TopologicalOrder

\* execute runs tasks in topological order, for every graph and concurrency.
THEOREM TopologicalOrderHolds == Spec => []TopologicalOrder
  BY OrderFromInv, Inductive, PTL

\* The counters, the queue and the goroutines agree: no task is lost between
\* them, and none is dispatched twice.
THEOREM BookkeepingHolds == Spec => [](CountersAgree /\ DispatchedOnce)
<1>1. IInv => CountersAgree /\ DispatchedOnce
  BY DEF IInv
<1> QED
  BY <1>1, Inductive, PTL

\* The errgroup limit bounds the goroutines that have not returned.
THEOREM BoundedConcurrencyHolds == Spec => []BoundedConcurrency
<1>1. IInv => BoundedConcurrency
  BY DEF IInv
<1> QED
  BY <1>1, Inductive, PTL

\* A nil result means every task succeeded.
THEOREM NilMeansAllSucceededHolds == Spec => []NilMeansAllSucceeded
<1>1. ASSUME IInv, pc = "done", err = NoTask, NEW t \in Task
      PROVE  worker[t] = "sent"
  <2>1. Cardinality(Task \ Received) = 0
    BY <1>1 DEF IInv, DispatcherInv, CountersAgree
  <2>2. Task \ Received = {}
    BY <2>1, TaskSubsetFinite, FS_EmptySet
  <2> QED
    BY <2>2 DEF Received
<1>2. IInv => NilMeansAllSucceeded
  BY <1>1 DEF NilMeansAllSucceeded
<1> QED
  BY <1>2, Inductive, PTL

\* A failed task makes execute return an error, and the error is a task's own,
\* not the cancellation it caused.
THEOREM ErrorsReportedHolds == Spec => [](FailureReported /\ RootCauseReported)
<1>1. IInv => FailureReported
  BY DEF IInv, DispatcherInv, BoundedConcurrency, ErrorInv, FailureReported
<1>2. IInv => RootCauseReported
  BY DEF IInv, ErrorInv, RootCauseReported
<1> QED
  BY <1>1, <1>2, Inductive, PTL

-----------------------------------------------------------------------------
(***************************************************************************)
(* The scheduler implements DagRun.                                        *)
(***************************************************************************)

\* The instance of DagRun counts as this module does.
LEMMA SameCardinality == \A S : Abstract!Cardinality(S) = Cardinality(S)
BY DEF Abstract!Cardinality, Cardinality, Abstract!IsFiniteSet, IsFiniteSet

\* The tasks DagRun sees running hold slots.
LEMMA RunningHoldSlots ==
    ASSUME IInv
    PROVE  Abstract!Running \subseteq {u \in slots : worker[u] = "running"}
BY DEF IInv, BoundedConcurrency, Abstract!Running, StatusOf

\* The initial states of execute are initial states of DagRun.
LEMMA InitRefines == Init => Abstract!Init
<1> SUFFICES ASSUME Init PROVE Abstract!Init
  OBVIOUS
<1> QED
  BY DEF Init, Abstract!Init, StatusOf, Cancelled

\* Begin is DagRun's Start: everything the task depends on has succeeded, and
\* the slot it holds was free for it.
LEMMA BeginRefines ==
    ASSUME IInv, IInv', NEW t \in Task, Begin(t)
    PROVE  Abstract!Start(t)
<1> USE DEF IInv
<1>0. /\ worker[t] = "spawned" /\ worker' = [worker EXCEPT ![t] = "running"]
      /\ pred' = pred /\ pc' = pc
      /\ worker \in [Task -> WorkerState]
  BY DEF Begin, Move, TypeOK
<1>1. t \in slots /\ slots # {}
  BY <1>0 DEF BoundedConcurrency
<1>2. pc # "done" /\ pc' # "done"
  BY <1>0, <1>1 DEF DispatcherInv
<1>3. \A p \in pred[t] : p \in Task /\ StatusOf(p) = "ok"
  <2>1. indegree[t] = 0
    BY <1>0 DEF CountersAgree
  <2>2. \A p \in pred[t] : worker[p] = "sent" /\ p \in Task
    BY <2>1, ZeroMeansAllReceived DEF TypeOK
  <2> QED
    BY <2>2 DEF StatusOf
<1>4. Cardinality(Abstract!Running) < Limit
  <2>1. IsFiniteSet(slots) /\ Cardinality(slots) \in Nat /\ Cardinality(slots) <= Limit
    BY TaskSubsetFinite DEF TypeOK, BoundedConcurrency
  <2>2. Abstract!Running \in SUBSET (slots \ {t})
    BY <1>0, RunningHoldSlots
  <2>3. /\ IsFiniteSet(slots \ {t})
        /\ Cardinality(slots \ {t}) = Cardinality(slots) - 1
    BY <1>1, <2>1, FS_RemoveElement
  <2>4. /\ Cardinality(Abstract!Running) \in Nat
        /\ Cardinality(Abstract!Running) <= Cardinality(slots \ {t})
    BY <2>2, <2>3, FS_Subset, FS_CardinalityType
  <2> QED
    BY <2>1, <2>3, <2>4, LimitPositive
<1>5. StatusOf(t) = "waiting" /\ StatusOf(t)' = "running"
  BY <1>0 DEF StatusOf
<1>6. \A u \in Task \ {t} : StatusOf(u)' = StatusOf(u)
  BY <1>0 DEF StatusOf
<1>7. [u \in Task |-> StatusOf(u)]' = [[u \in Task |-> StatusOf(u)] EXCEPT ![t] = "running"]
  BY <1>5, <1>6
<1> QED
  BY <1>0, <1>2, <1>3, <1>4, <1>5, <1>7, SameCardinality DEF Abstract!Start

\* The end of a task body is DagRun's Finish.
LEMMA EndRefines ==
    ASSUME IInv, NEW t \in Task, Succeed(t) \/ Fail(t)
    PROVE  Abstract!Finish(t)
<1> USE DEF IInv
<1>0. PICK to \in {"succeeded", "failed"} :
         worker[t] = "running" /\ worker' = [worker EXCEPT ![t] = to]
  BY DEF Succeed, Fail, Move
<1>1. pred' = pred /\ pc' = pc /\ err' = err /\ worker \in [Task -> WorkerState]
  BY DEF Succeed, Fail, Move, TypeOK
<1>2. PICK s \in {"ok", "failed"} : StatusOf(t) = "running" /\ StatusOf(t)' = s
  BY <1>0, <1>1 DEF StatusOf
<1>3. \A u \in Task \ {t} : StatusOf(u)' = StatusOf(u)
  BY <1>0, <1>1 DEF StatusOf
<1>4. [u \in Task |-> StatusOf(u)]' = [[u \in Task |-> StatusOf(u)] EXCEPT ![t] = s]
  BY <1>2, <1>3
<1> QED
  BY <1>1, <1>2, <1>4 DEF Abstract!Finish, Cancelled

\* The return of execute is DagRun's return: with nil when every task succeeded,
\* with an error when one failed and nothing runs any more.
LEMMA ReturnRefines ==
    ASSUME IInv, Return
    PROVE  Abstract!ReturnNil \/ Abstract!ReturnError
<1> USE DEF IInv
<1>1. pc = "wait" /\ pc' = "done" /\ slots = {} /\ UNCHANGED <<pred, worker, err, pending>>
  BY DEF Return
<1>2. [u \in Task |-> StatusOf(u)]' = [u \in Task |-> StatusOf(u)]
  BY <1>1 DEF StatusOf
<1>3. CASE err = NoTask
  <2>1. Cardinality(Task \ Received) = 0
    BY <1>1, <1>3 DEF DispatcherInv, CountersAgree
  <2>2. Task \ Received = {}
    BY <2>1, TaskSubsetFinite, FS_EmptySet
  <2>3. \A u \in Task : StatusOf(u) = "ok"
    BY <2>2 DEF Received, StatusOf
  <2> QED
    BY <1>1, <1>2, <1>3, <2>3 DEF Abstract!ReturnNil, Cancelled
<1>4. CASE err # NoTask
  <2>1. err \in Task /\ StatusOf(err) = "failed"
    BY <1>4 DEF ErrorInv, TypeOK, StatusOf
  <2>2. Abstract!Running = {}
    BY <1>1, RunningHoldSlots
  <2> QED
    BY <1>1, <1>2, <1>4, <2>1, <2>2 DEF Abstract!ReturnError, Cancelled
<1> QED
  BY <1>3, <1>4

\* Everything else is invisible to DagRun.
LEMMA OthersStutter ==
    ASSUME IInv,
           \/ \E t \in Task : \/ Pop(t) \/ Go(t)
                              \/ Refuse(t) \/ Send(t) \/ Record(t) \/ Exit(t)
           \/ Receive \/ Stop \/ Drain
    PROVE  UNCHANGED Abstract!vars
<1> USE DEF IInv
<1>1. pred' = pred
  BY DEF Pop, Go, Refuse, Send, Record, Exit, Move, Receive, Stop, Drain
<1>2. worker \in [Task -> WorkerState]
  BY DEF TypeOK
<1>3. \A u \in Task : StatusOf(u)' = StatusOf(u)
  <2>1. CASE Receive \/ Stop \/ Drain
    BY <2>1 DEF Receive, Stop, Drain, StatusOf
  <2>2. ASSUME NEW t \in Task, Pop(t) \/ Exit(t) PROVE \A u \in Task : StatusOf(u)' = StatusOf(u)
    BY <2>2 DEF Pop, Exit, StatusOf
  <2>3. ASSUME NEW t \in Task, Go(t) PROVE \A u \in Task : StatusOf(u)' = StatusOf(u)
    <3>1. worker[t] = "idle"
      BY <2>3 DEF Go, DispatchedOnce
    <3> QED
      BY <1>2, <2>3, <3>1 DEF Go, StatusOf
  <2>4. ASSUME NEW t \in Task, Refuse(t) \/ Send(t) \/ Record(t)
        PROVE \A u \in Task : StatusOf(u)' = StatusOf(u)
    BY <1>2, <2>4 DEF Refuse, Send, Record, Move, StatusOf
  <2> QED
    BY <2>1, <2>2, <2>3, <2>4
<1>4. (pc' = "done" <=> pc = "done") /\ (pc = "done" => err' = err)
  <2>1. CASE Receive \/ Stop \/ Drain
    BY <2>1 DEF Receive, Stop, Drain, AtSelect
  <2>2. ASSUME NEW t \in Task, Pop(t) \/ Go(t) \/ Refuse(t) \/ Send(t) \/ Exit(t)
        PROVE  pc' = pc /\ err' = err
    BY <2>2 DEF Pop, Go, Refuse, Send, Exit, Move
  <2>3. ASSUME NEW t \in Task, Record(t) PROVE pc' = pc /\ pc # "done"
    <3>1. t \in slots /\ pc' = pc
      BY <2>3 DEF Record, Move, BoundedConcurrency
    <3> QED
      BY <3>1 DEF DispatcherInv
  <2> QED
    BY <2>1, <2>2, <2>3
<1> QED
  BY <1>1, <1>3, <1>4 DEF Abstract!vars, Cancelled

\* Every step of execute is a step of DagRun or invisible to it.
LEMMA NextRefines == IInv /\ IInv' /\ [Next]_vars => [Abstract!Next]_(Abstract!vars)
<1> SUFFICES ASSUME IInv, IInv', [Next]_vars PROVE [Abstract!Next]_(Abstract!vars)
  OBVIOUS
<1>1. CASE Dispatcher
  BY <1>1, OthersStutter, ReturnRefines DEF Dispatcher, Abstract!Next
<1>2. ASSUME NEW t \in Task, Worker(t) PROVE [Abstract!Next]_(Abstract!vars)
  BY <1>2, OthersStutter, BeginRefines, EndRefines DEF Worker, Abstract!Next
<1>3. CASE UNCHANGED vars
  BY <1>3 DEF vars, Abstract!vars, StatusOf, Cancelled
<1> QED
  BY <1>1, <1>2, <1>3 DEF Next, Terminated

\* The scheduler implements the safety part of DagRun for every set of tasks,
\* every graph and every concurrency.
THEOREM ExecutorImplementsDagRun ==
    Spec => Abstract!Init /\ [][Abstract!Next]_(Abstract!vars)
<1> QED
  BY InitRefines, NextRefines, Inductive, PTL DEF Spec
-----------------------------------------------------------------------------
(***************************************************************************)
(* The order of dispatch (DispatchOrder).                                  *)
(***************************************************************************)

\* Tasks stay ready as completions arrive, and one more completion changes
\* neither who was ready before it nor the order of those who were.
LEMMA ReadyGrows ==
    ASSUME NEW g, NEW c \in Seq(Task), NEW i \in 0 .. Len(c), NEW j \in i .. Len(c)
    PROVE  ReadyAfter(g, c, i) \subseteq ReadyAfter(g, c, j)
<1>1. {c[k] : k \in 1 .. i} \subseteq {c[k] : k \in 1 .. j}
  OBVIOUS
<1> QED
  BY <1>1 DEF ReadyAfter

LEMMA OneMore ==
    ASSUME NEW c \in Seq(Task), NEW x \in Task, NEW d, d = Append(c, x)
    PROVE  /\ d \in Seq(Task) /\ Len(d) = Len(c) + 1 /\ Len(c) \in Nat
           /\ \A k \in 1 .. Len(c) : d[k] = c[k]
           /\ {d[k] : k \in 1 .. Len(d)} = {c[k] : k \in 1 .. Len(c)} \cup {x}
<1>1. /\ d \in Seq(Task) /\ Len(d) = Len(c) + 1 /\ Len(c) \in Nat
      /\ \A k \in 1 .. Len(c) : d[k] = c[k]
      /\ d[Len(c) + 1] = x
  OBVIOUS
<1>2. \A k : k \in 1 .. Len(d) <=> k \in 1 .. Len(c) \/ k = Len(c) + 1
  BY <1>1
<1> QED
  BY <1>1, <1>2

LEMMA ReadyAfterMore ==
    ASSUME NEW g, NEW c \in Seq(Task), NEW x \in Task, NEW d, d = Append(c, x), NEW i \in 0 .. Len(c)
    PROVE  ReadyAfter(g, d, i) = ReadyAfter(g, c, i)
<1>1. {d[k] : k \in 1 .. i} = {c[k] : k \in 1 .. i}
  BY OneMore
<1> QED
  BY <1>1 DEF ReadyAfter

LEMMA BeforeTotal ==
    ASSUME NEW g, NEW c, NEW t \in Task, NEW u \in Task, t # u, ~Before(g, c, t, u)
    PROVE  Before(g, c, u, t)
<1> DEFINE Rounds(v) == {i \in 0 .. Len(c) : v \in ReadyAfter(g, c, i)}
<1>1. Rounds(t) \subseteq Rounds(u) /\ (Rounds(t) = Rounds(u) => ~(t < u))
  BY Zenon DEF Before
<1>2. t \in Nat /\ u \in Nat
  BY TaskAssumption
<1>3. Before(g, c, u, t) <=> ~(Rounds(u) \subseteq Rounds(t)) \/ (Rounds(u) = Rounds(t) /\ u < t)
  BY Zenon DEF Before
<1> HIDE DEF Rounds
<1>4. CASE Rounds(u) \subseteq Rounds(t)
  <2>1. Rounds(u) = Rounds(t)
    BY <1>1, <1>4
  <2>2. u < t
    BY <1>1, <1>2, <2>1
  <2> QED
    BY <1>3, <2>1, <2>2
<1> QED
  BY <1>3, <1>4

LEMMA OrderAfterMore ==
    ASSUME NEW g, NEW c \in Seq(Task), NEW x \in Task, NEW d, d = Append(c, x),
           NEW u \in ReadyAfter(g, c, Len(c)), NEW t \in ReadyAfter(g, d, Len(d))
    PROVE  Before(g, d, t, u) <=> t \in ReadyAfter(g, c, Len(c)) /\ Before(g, c, t, u)
<1> DEFINE Old(v) == {i \in 0 .. Len(c) : v \in ReadyAfter(g, c, i)}
           New(v) == {i \in 0 .. Len(d) : v \in ReadyAfter(g, d, i)}
<1>1. Len(d) = Len(c) + 1 /\ Len(c) \in Nat /\ d \in Seq(Task)
  BY OneMore
<1>2. \A i \in 0 .. Len(c) : ReadyAfter(g, d, i) = ReadyAfter(g, c, i)
  BY ReadyAfterMore
<1>3. ReadyAfter(g, c, Len(c)) \subseteq ReadyAfter(g, d, Len(d))
  <2>1. Len(c) \in 0 .. Len(d) /\ Len(d) \in Len(c) .. Len(d)
    BY <1>1
  <2>2. ReadyAfter(g, d, Len(c)) \subseteq ReadyAfter(g, d, Len(d))
    BY <1>1, <2>1, ReadyGrows
  <2> QED
    BY <1>1, <1>2, <2>2
<1>4. \A v \in ReadyAfter(g, d, Len(d)) : New(v) = Old(v) \cup {Len(c) + 1}
  <2>1. \A i : i \in 0 .. Len(d) <=> i \in 0 .. Len(c) \/ i = Len(c) + 1
    BY <1>1
  <2> QED
    BY <1>1, <1>2, <2>1
<1>5. \A v : Len(c) + 1 \notin Old(v)
  BY <1>1
<1>6. Before(g, d, t, u) <=> ~(New(t) \subseteq New(u)) \/ (New(t) = New(u) /\ t < u)
  BY Zenon DEF Before
<1>7. Before(g, c, t, u) <=> ~(Old(t) \subseteq Old(u)) \/ (Old(t) = Old(u) /\ t < u)
  BY Zenon DEF Before
<1>8. t \notin ReadyAfter(g, c, Len(c)) => Old(t) = {}
  <2>1. \A i \in 0 .. Len(c) : ReadyAfter(g, c, i) \subseteq ReadyAfter(g, c, Len(c))
    BY <1>1, ReadyGrows
  <2> QED
    BY <2>1
<1>9. Len(c) \in Old(u)
  BY <1>1
<1>10. New(t) = Old(t) \cup {Len(c) + 1} /\ New(u) = Old(u) \cup {Len(c) + 1}
  BY <1>3, <1>4
<1>11. Len(c) + 1 \notin Old(t) /\ Len(c) + 1 \notin Old(u)
  BY <1>5
<1> HIDE DEF Old, New
<1>12. (New(t) \subseteq New(u) <=> Old(t) \subseteq Old(u)) /\ (New(t) = New(u) <=> Old(t) = Old(u))
  <2>1. ASSUME NEW A, NEW B, NEW e, e \notin A, e \notin B
        PROVE  /\ ((A \cup {e}) \subseteq (B \cup {e})) <=> (A \subseteq B)
               /\ ((A \cup {e}) = (B \cup {e})) <=> (A = B)
    <3>1. ((A \cup {e}) \subseteq (B \cup {e})) <=> (A \subseteq B)
      BY <2>1
    <3>2. (A \cup {e}) \ {e} = A /\ (B \cup {e}) \ {e} = B
      BY <2>1
    <3>3. ((A \cup {e}) = (B \cup {e})) <=> (A = B)
      BY <3>2, Zenon
    <3> QED
      BY <3>1, <3>3
  <2>2. PICK A, B, e : A = Old(t) /\ B = Old(u) /\ e = Len(c) + 1
    OBVIOUS
  <2>3. /\ ((A \cup {e}) \subseteq (B \cup {e})) <=> (A \subseteq B)
        /\ ((A \cup {e}) = (B \cup {e})) <=> (A = B)
    <3>1. e \notin A /\ e \notin B
      BY <1>11, <2>2, Zenon
    <3> QED
      BY <2>1, <3>1, Zenon
  <2>4. New(t) = A \cup {e} /\ New(u) = B \cup {e}
    BY <1>10, <2>2, Zenon
  <2>5. (New(t) \subseteq New(u) <=> A \subseteq B) /\ (New(t) = New(u) <=> A = B)
    BY <2>3, <2>4, Zenon
  <2> QED
    BY <2>2, <2>5, Zenon
<1>13. CASE t \in ReadyAfter(g, c, Len(c))
  BY <1>6, <1>7, <1>12, <1>13
<1>14. CASE t \notin ReadyAfter(g, c, Len(c))
  <2>1. Old(t) \subseteq Old(u) /\ Old(t) # Old(u)
    BY <1>8, <1>9, <1>14
  <2> QED
    BY <1>6, <1>12, <1>14, <2>1
<1> QED
  BY <1>13, <1>14

-----------------------------------------------------------------------------

\* The tasks the dispatcher has popped.
HandedOut == {t \in Task : t = held \/ worker[t] # "idle"}

\* What was recorded: the received completions, the tasks handed out, each at its
\* place in the order; and what is queued while the dispatcher may still pop became
\* ready with one completion.
RecordInv ==
    /\ received \in Seq(Task) /\ dispatched \in Seq(Task)
    /\ {received[k] : k \in 1 .. Len(received)} = Received
    /\ {dispatched[k] : k \in 1 .. Len(dispatched)} = HandedOut
    /\ \A j \in 1 .. Len(dispatched) :
           {t \in ReadyAfter(pred, received, Len(received)) : Before(pred, received, t, dispatched[j])}
               = {dispatched[k] : k \in 1 .. (j - 1)}
    /\ ~Cancelled => \A t, u \in ready : \A i \in 0 .. Len(received) :
           t \in ReadyAfter(pred, received, i) <=> u \in ReadyAfter(pred, received, i)

\* Ready are the tasks that are queued and those that were handed out.
LEMMA ReadyOrDispatched ==
    ASSUME IInv, RecordInv
    PROVE  ReadyAfter(pred, received, Len(received))
               = ready \cup {dispatched[k] : k \in 1 .. Len(dispatched)}
<1>1. ReadyAfter(pred, received, Len(received)) = {t \in Task : pred[t] \subseteq Received}
  BY DEF RecordInv, ReadyAfter
<1>2. ASSUME NEW t \in Task PROVE pred[t] \subseteq Received <=> indegree[t] = 0
  <2>1. pred[t] \ Received \in SUBSET Task
    BY DEF IInv, TypeOK
  <2>2. Cardinality(pred[t] \ Received) = 0 <=> pred[t] \ Received = {}
    BY <2>1, TaskSubsetFinite, FS_EmptySet
  <2>3. indegree[t] = Cardinality(pred[t] \ Received)
    BY DEF IInv, CountersAgree
  <2> QED
    BY <2>2, <2>3
<1>3. \A t \in Task : indegree[t] = 0 <=> (t \in ready \/ t = held \/ worker[t] # "idle")
  BY DEF IInv, CountersAgree
<1>4. ready \subseteq Task
  BY DEF IInv, TypeOK
<1> QED
  BY <1>1, <1>2, <1>3, <1>4 DEF RecordInv, HandedOut
LEMMA RecordInitInv == RecordInit => RecordInv
<1> SUFFICES ASSUME RecordInit PROVE RecordInv
  OBVIOUS
<1>1. /\ received = <<>> /\ dispatched = <<>> /\ Len(received) = 0 /\ Len(dispatched) = 0
      /\ held = NoTask /\ NoTask \notin Task /\ \A t \in Task : worker[t] = "idle"
  BY TaskAssumption DEF RecordInit, Init
<1>2. Received = {} /\ HandedOut = {}
  BY <1>1 DEF Received, HandedOut
<1>3. {received[k] : k \in 1 .. Len(received)} = {} /\ {dispatched[k] : k \in 1 .. Len(dispatched)} = {}
  BY <1>1
<1>4. ASSUME NEW t \in ready, NEW i \in 0 .. Len(received) PROVE t \in ReadyAfter(pred, received, i)
  <2>1. t \in Task /\ Cardinality(pred[t]) = 0 /\ pred[t] \in SUBSET Task
    BY <1>4 DEF RecordInit, Init
  <2>2. pred[t] = {}
    BY <2>1, TaskSubsetFinite, FS_EmptySet
  <2> QED
    BY <2>1, <2>2 DEF ReadyAfter
<1> QED
  BY <1>1, <1>2, <1>3, <1>4 DEF RecordInv

\* Only a receive and a pop change what the order is about.
LEMMA OtherStepsKeep ==
    ASSUME IInv, [Next]_vars, ~Receive, \A t \in Task : ~Pop(t)
    PROVE  /\ pred' = pred /\ ready' = ready /\ pending' = pending
           /\ Received' = Received /\ HandedOut' = HandedOut
           /\ held = NoTask => held' = NoTask
           /\ Cancelled => Cancelled'
<1>1. NoTask \notin Task
  BY TaskAssumption
<1>2. ASSUME NEW t \in Task, NEW from, NEW to, Move(t, from, to), from # "idle", to # "idle"
      PROVE  /\ pred' = pred /\ ready' = ready /\ pending' = pending /\ held' = held
             /\ HandedOut' = HandedOut
  BY <1>2 DEF Move, HandedOut, IInv, TypeOK
<1>3. CASE \E t \in Task : Go(t)
  <2>1. PICK t \in Task : Go(t)
    BY <1>3
  <2>2. worker[t] = "idle"
    BY <2>1 DEF Go, IInv, DispatchedOnce
  <2>3. Received' = Received
    BY <2>1, <2>2, MoveKeepsReceived DEF Go, IInv
  <2>4. HandedOut' = HandedOut
    BY <1>1, <2>1 DEF Go, HandedOut, IInv, TypeOK
  <2> QED
    BY <1>1, <2>1, <2>3, <2>4 DEF Go, Cancelled
<1>4. CASE Stop \/ Drain \/ Return \/ UNCHANGED vars \/ \E t \in Task : Exit(t)
  BY <1>4 DEF Stop, Drain, Return, Exit, vars, Received, HandedOut, Cancelled
<1>5. CASE \E t \in Task : Begin(t) \/ Refuse(t) \/ Succeed(t) \/ Fail(t)
  <2>1. PICK t \in Task : Begin(t) \/ Refuse(t) \/ Succeed(t) \/ Fail(t)
    BY <1>5
  <2>2. PICK from \in {"spawned", "running"}, to \in {"running", "refused", "succeeded", "failed"} :
            Move(t, from, to) /\ completions' = completions /\ err' = err
    BY <2>1 DEF Begin, Refuse, Succeed, Fail
  <2>3. Received' = Received
    BY <2>2, MoveKeepsReceived DEF Move, IInv
  <2> QED
    BY <1>2, <2>2, <2>3 DEF Cancelled
<1>6. CASE \E t \in Task : Send(t)
  <2>1. PICK t \in Task : Send(t)
    BY <1>6
  <2>2. Move(t, "succeeded", "sent") /\ err' = err
    BY <2>1 DEF Send
  <2> QED
    BY <1>2, <2>1, <2>2, SendKeepsReceived DEF Cancelled
<1>7. CASE \E t \in Task : Record(t)
  <2>1. PICK t \in Task : Record(t)
    BY <1>7
  <2>2. PICK from \in {"failed", "refused"}, to \in {"recorded", "dropped"} :
            Move(t, from, to) /\ completions' = completions
    BY <2>1 DEF Record
  <2>3. Received' = Received
    BY <2>2, MoveKeepsReceived DEF Move, IInv
  <2>4. Cancelled => Cancelled'
    BY <2>1 DEF Record, Cancelled
  <2> QED
    BY <1>2, <2>2, <2>3, <2>4
<1> QED
  BY <1>3, <1>4, <1>5, <1>6, <1>7 DEF Next, Dispatcher, Worker, Terminated

\* The dispatcher pops the first of the ready tasks: everything that comes before
\* it was dispatched, since what is ready became so with one completion.
LEMMA PopRecordInv == ASSUME IInv, RecordInv, NEW t \in Task, Pop(t), Recorded PROVE RecordInv'
<1> DEFINE all == ReadyAfter(pred, received, Len(received))
           out == {dispatched[k] : k \in 1 .. Len(dispatched)}
<1>1. /\ pred' = pred /\ pending' = pending /\ worker' = worker /\ completions' = completions
      /\ held = NoTask /\ held' = t /\ t # NoTask /\ ready' = ready \ {t} /\ err' = err
      /\ ~Cancelled /\ t \in ready /\ \A u \in ready : t <= u
  BY TaskAssumption DEF Pop
<1>2. received' = received /\ dispatched' = Append(dispatched, t) /\ dispatched \in Seq(Task)
  BY <1>1 DEF Recorded, RecordInv, IInv, TypeOK
<1>3. /\ Len(dispatched) \in Nat /\ Len(dispatched') = Len(dispatched) + 1 /\ dispatched' \in Seq(Task)
      /\ \A k \in 1 .. Len(dispatched) : dispatched'[k] = dispatched[k]
      /\ dispatched'[Len(dispatched) + 1] = t
  BY <1>2
<1>4. {dispatched'[k] : k \in 1 .. Len(dispatched')} = out \cup {t}
  <2>1. \A k : k \in 1 .. Len(dispatched') <=> k \in 1 .. Len(dispatched) \/ k = Len(dispatched) + 1
    BY <1>3
  <2> QED
    BY <1>3, <2>1
<1>5. all = ready \cup out /\ out = HandedOut /\ t \notin out
  <2>1. ready \cap HandedOut = {}
    BY <1>1, TaskAssumption DEF HandedOut, IInv, DispatchedOnce, TypeOK
  <2> QED
    BY <1>1, <2>1, ReadyOrDispatched DEF RecordInv
<1>6. HandedOut' = HandedOut \cup {t} /\ Received' = Received
  BY <1>1, TaskAssumption DEF HandedOut, Received
<1>7. {u \in all : Before(pred, received, u, t)} = out
  <2>1. ASSUME NEW u \in all, Before(pred, received, u, t), u \notin out PROVE FALSE
    <3>1. u \in ready /\ u \in Nat /\ t \in Nat /\ t <= u
      BY <1>1, <1>5, <2>1, TaskAssumption DEF IInv, TypeOK
    <3>2. \A i \in 0 .. Len(received) :
              t \in ReadyAfter(pred, received, i) <=> u \in ReadyAfter(pred, received, i)
      BY <1>1, <3>1 DEF RecordInv
    <3>3. \/ ~({i \in 0 .. Len(received) : u \in ReadyAfter(pred, received, i)}
                  \subseteq {i \in 0 .. Len(received) : t \in ReadyAfter(pred, received, i)})
          \/ u < t
      BY <2>1, Zenon DEF Before
    <3>4. ~(u < t)
      BY <3>1
    <3> QED
      BY <3>2, <3>3, <3>4
  <2>2. ASSUME NEW u \in out PROVE Before(pred, received, u, t)
    <3>1. PICK j \in 1 .. Len(dispatched) : u = dispatched[j]
      OBVIOUS
    <3>2. {v \in all : Before(pred, received, v, u)} = {dispatched[k] : k \in 1 .. (j - 1)}
      BY <3>1 DEF RecordInv
    <3>3. {dispatched[k] : k \in 1 .. (j - 1)} \subseteq out
      BY <1>3
    <3>4. t \in all /\ u \in Task /\ u # t
      BY <1>1, <1>2, <1>5, <3>1
    <3>5. ~Before(pred, received, t, u)
      BY <1>5, <3>2, <3>3, <3>4
    <3> QED
      BY <3>4, <3>5, BeforeTotal
  <2> QED
    BY <1>5, <2>1, <2>2
<1>8. ASSUME NEW j \in 1 .. Len(dispatched')
      PROVE  {u \in all : Before(pred, received, u, dispatched'[j])} = {dispatched'[k] : k \in 1 .. (j - 1)}
  <2>1. CASE j = Len(dispatched) + 1
    <3>1. dispatched'[j] = t /\ j - 1 = Len(dispatched)
      BY <1>3, <2>1
    <3>2. {dispatched'[k] : k \in 1 .. Len(dispatched)} = out
      BY <1>3
    <3> QED
      BY <1>7, <3>1, <3>2
  <2>2. CASE j # Len(dispatched) + 1
    <3>1. j \in 1 .. Len(dispatched) /\ dispatched'[j] = dispatched[j]
      BY <1>3, <2>2
    <3>2. \A k \in 1 .. (j - 1) : dispatched'[k] = dispatched[k]
      BY <1>3, <3>1
    <3>3. {dispatched'[k] : k \in 1 .. (j - 1)} = {dispatched[k] : k \in 1 .. (j - 1)}
      BY <3>2
    <3> QED
      BY <3>1, <3>3 DEF RecordInv
  <2> QED
    BY <2>1, <2>2
<1>9. \A u, v \in ready' : \A i \in 0 .. Len(received) :
          u \in ReadyAfter(pred, received, i) <=> v \in ReadyAfter(pred, received, i)
  BY <1>1 DEF RecordInv
<1>10. received' \in Seq(Task) /\ {received'[k] : k \in 1 .. Len(received')} = Received'
  BY <1>2, <1>6 DEF RecordInv
<1>11. {dispatched'[k] : k \in 1 .. Len(dispatched')} = HandedOut'
  BY <1>4, <1>5, <1>6
<1>12. all' = all
  BY <1>1, <1>2
<1>13. \A j \in 1 .. Len(dispatched') :
           {u \in all' : Before(pred', received', u, dispatched'[j])} = {dispatched'[k] : k \in 1 .. (j - 1)}
  BY <1>1, <1>2, <1>8, <1>12
<1>14. \A u, v \in ready' : \A i \in 0 .. Len(received') :
           u \in ReadyAfter(pred', received', i) <=> v \in ReadyAfter(pred', received', i)
  BY <1>1, <1>2, <1>9
<1> QED
  BY <1>3, <1>10, <1>11, <1>13, <1>14, Zenon DEF RecordInv

\* A completion makes tasks ready that come after all that were dispatched.
LEMMA ReceiveRecordInv == ASSUME IInv, IInv', RecordInv, Receive, Recorded PROVE RecordInv'
<1>1. PICK x \in Task : x = Head(completions)
  BY ReceiveAdds
<1>2. /\ pred' = pred /\ pending' = pending - 1 /\ pending \in Nat /\ held' = held /\ worker' = worker /\ err' = err
      /\ held = NoTask
  BY DEF Receive, AtSelect, IInv, TypeOK
<1>3. received' = Append(received, x) /\ dispatched' = dispatched /\ received \in Seq(Task)
  BY <1>1, <1>2 DEF Recorded, RecordInv
<1>4. PICK g, c, d, D : g = pred /\ c = received /\ d = received' /\ D = dispatched
  OBVIOUS
<1>5. c \in Seq(Task) /\ d = Append(c, x)
  BY <1>3, <1>4
<1>6. /\ d \in Seq(Task) /\ Len(d) = Len(c) + 1 /\ Len(c) \in Nat
      /\ {d[k] : k \in 1 .. Len(d)} = {c[k] : k \in 1 .. Len(c)} \cup {x}
      /\ \A i \in 0 .. Len(c) : ReadyAfter(g, d, i) = ReadyAfter(g, c, i)
  <2>1. ASSUME NEW i \in 0 .. Len(c) PROVE ReadyAfter(g, d, i) = ReadyAfter(g, c, i)
    BY <1>5, ReadyAfterMore
  <2> QED
    BY <1>5, <2>1, OneMore
<1>7. Received' = Received \cup {x} /\ HandedOut' = HandedOut
  BY <1>1, <1>2, ReceiveAdds DEF HandedOut
<1>8. ReadyAfter(g, c, Len(c)) \subseteq ReadyAfter(g, d, Len(d))
  <2>1. Len(c) \in 0 .. Len(d) /\ Len(d) \in Len(c) .. Len(d)
    BY <1>6
  <2> QED
    BY <1>6, <2>1, ReadyGrows
<1>9. ReadyAfter(g, c, Len(c)) = ready \cup {D[k] : k \in 1 .. Len(D)}
  BY <1>4, ReadyOrDispatched
<1>10. ASSUME NEW j \in 1 .. Len(D)
       PROVE  {t \in ReadyAfter(g, d, Len(d)) : Before(g, d, t, D[j])} = {D[k] : k \in 1 .. (j - 1)}
  <2>1. D[j] \in ReadyAfter(g, c, Len(c))
    BY <1>9
  <2>2. \A t \in ReadyAfter(g, d, Len(d)) :
            Before(g, d, t, D[j]) <=> t \in ReadyAfter(g, c, Len(c)) /\ Before(g, c, t, D[j])
    BY <1>5, <2>1, OrderAfterMore
  <2>3. {t \in ReadyAfter(g, c, Len(c)) : Before(g, c, t, D[j])} = {D[k] : k \in 1 .. (j - 1)}
    BY <1>4 DEF RecordInv
  <2> QED
    BY <1>8, <2>2, <2>3
<1>11. ASSUME ~Cancelled', NEW t \in ready', NEW i \in 0 .. Len(d)
       PROVE  t \in ReadyAfter(g, d, i) <=> i = Len(d)
  <2>1. ready = {}
    BY <1>2, <1>11 DEF Receive, AtSelect, Cancelled
  <2>2. t \in Task /\ indegree'[t] = 0 /\ x \in pred[t]
    BY <1>1, <1>11, <2>1 DEF Receive
  <2>3. t \notin ReadyAfter(g, c, Len(c))
    <3>1. {c[k] : k \in 1 .. Len(c)} = Received /\ x \notin Received
      BY <1>1, <1>4, ReceiveAdds DEF RecordInv
    <3> QED
      BY <1>4, <2>2, <3>1 DEF ReadyAfter
  <2>4. ASSUME i # Len(d) PROVE t \notin ReadyAfter(g, d, i)
    <3>1. i \in 0 .. Len(c) /\ Len(c) \in i .. Len(c)
      BY <1>6, <2>4
    <3> QED
      BY <1>5, <1>6, <2>3, <3>1, ReadyGrows
  <2>5. t \in ReadyAfter(g, d, Len(d))
    <3>1. pred'[t] \ Received' = {}
      <4>1. pred'[t] \ Received' \in SUBSET Task
        BY <2>2 DEF IInv, TypeOK
      <4>2. Cardinality(pred'[t] \ Received') = 0
        BY <2>2 DEF IInv, CountersAgree
      <4> QED
        BY <4>1, <4>2, TaskSubsetFinite, FS_EmptySet
    <3>2. {c[k] : k \in 1 .. Len(c)} = Received
      BY <1>4 DEF RecordInv
    <3>3. pred[t] \subseteq {d[k] : k \in 1 .. Len(d)}
      BY <1>2, <1>6, <1>7, <3>1, <3>2
    <3> QED
      BY <1>4, <2>2, <3>3 DEF ReadyAfter
  <2> QED
    BY <2>4, <2>5
<1>12. {d[k] : k \in 1 .. Len(d)} = Received'
  BY <1>4, <1>6, <1>7 DEF RecordInv
<1>13. {D[k] : k \in 1 .. Len(D)} = HandedOut' /\ D \in Seq(Task)
  BY <1>4, <1>7 DEF RecordInv
<1>14. pred' = g /\ received' = d /\ dispatched' = D
  BY <1>2, <1>3, <1>4
<1>15. ~Cancelled' => \A t, u \in ready' : \A i \in 0 .. Len(d) :
           t \in ReadyAfter(g, d, i) <=> u \in ReadyAfter(g, d, i)
  BY <1>11, Zenon
<1>16. received' \in Seq(Task) /\ {received'[k] : k \in 1 .. Len(received')} = Received'
  BY <1>6, <1>12, <1>14
<1>17. dispatched' \in Seq(Task) /\ {dispatched'[k] : k \in 1 .. Len(dispatched')} = HandedOut'
  BY <1>13, <1>14
<1>18. \A j \in 1 .. Len(dispatched') :
           {t \in ReadyAfter(pred', received', Len(received')) : Before(pred', received', t, dispatched'[j])}
               = {dispatched'[k] : k \in 1 .. (j - 1)}
  BY <1>10, <1>14
<1>19. ~Cancelled' => \A t, u \in ready' : \A i \in 0 .. Len(received') :
           t \in ReadyAfter(pred', received', i) <=> u \in ReadyAfter(pred', received', i)
  BY <1>14, <1>15
<1> QED
  BY <1>16, <1>17, <1>18, <1>19, Zenon DEF RecordInv

LEMMA NextRecordInv == ASSUME IInv, IInv', RecordInv, [RecordNext]_recordVars PROVE RecordInv'
<1>1. CASE RecordNext /\ \E t \in Task : Pop(t)
  BY <1>1, PopRecordInv DEF RecordNext
<1>2. CASE RecordNext /\ Receive
  BY <1>2, ReceiveRecordInv DEF RecordNext
<1>3. CASE ~Receive /\ \A t \in Task : ~Pop(t)
  <2>1. [Next]_vars
    BY DEF RecordNext, recordVars
  <2>2. /\ pred' = pred /\ ready' = ready /\ pending' = pending
        /\ Received' = Received /\ HandedOut' = HandedOut
        /\ held = NoTask => held' = NoTask
        /\ Cancelled => Cancelled'
    BY <1>3, <2>1, OtherStepsKeep
  <2>3. pending \in Nat
    BY DEF IInv, TypeOK
  <2>4. received' = received /\ dispatched' = dispatched
    BY <2>2, <2>3 DEF RecordNext, Recorded, recordVars
  <2> QED
    BY <2>2, <2>4 DEF RecordInv
<1>4. CASE UNCHANGED recordVars
  <2>1. UNCHANGED <<pred, ready, held, worker, completions, err, dispatched, received>>
    BY <1>4 DEF recordVars, vars
  <2>2. Received' = Received /\ HandedOut' = HandedOut /\ Cancelled' = Cancelled
    BY <2>1 DEF Received, HandedOut, Cancelled
  <2> QED
    BY <2>1, <2>2 DEF RecordInv
<1> QED
  BY <1>1, <1>2, <1>3, <1>4

\* The comment of execute, "dispatch order is a deterministic function of
\* completion order": for every graph, whatever the interleaving, the tasks are
\* dispatched in the order in which the completions received make them ready, by
\* name among those of one completion, and none is left out at the select.
THEOREM DispatchIsReplayHolds == RecordSpec => []DispatchIsReplay
<1>1. ASSUME IInv, RecordInv PROVE DispatchIsReplay
  <2> DEFINE all == ReadyAfter(pred, received, Len(received))
  <2>1. all = ready \cup {dispatched[k] : k \in 1 .. Len(dispatched)}
    BY <1>1, ReadyOrDispatched
  <2>2. DOMAIN dispatched = 1 .. Len(dispatched)
    BY <1>1 DEF RecordInv
  <2>3. \A j \in DOMAIN dispatched :
            /\ dispatched[j] \in all
            /\ {t \in all : Before(pred, received, t, dispatched[j])} = {dispatched[k] : k \in 1 .. (j - 1)}
    BY <1>1, <2>1, <2>2 DEF RecordInv
  <2>4. AtSelect /\ ~Cancelled => Range(dispatched) = all
    BY <2>1, <2>2 DEF AtSelect, Range
  <2> QED
    BY <2>3, <2>4, Zenon DEF DispatchIsReplay
<1>2. RecordInit /\ [][RecordNext]_recordVars => Init /\ [][Next]_vars
  <2>1. [RecordNext]_recordVars => [Next]_vars
    BY DEF RecordNext, recordVars
  <2> QED
    BY <2>1, PTL DEF RecordInit
<1>3. IInv /\ [Next]_vars => IInv'
  BY NextIInv
<1>4. IInv /\ IInv' /\ RecordInv /\ [RecordNext]_recordVars => RecordInv'
  BY NextRecordInv
<1> QED
  BY <1>1, <1>2, <1>3, <1>4, InitIInv, RecordInitInv, PTL DEF RecordSpec, RecordInit
=============================================================================
