-------------------------- MODULE ChartCacheProofs ---------------------------
(***************************************************************************)
(* Proofs about the lock of the chart cache (onceWithLock of v1beta1.go)   *)
(* for any number of Helm tasks, each of which may die at any point.       *)
(***************************************************************************)
EXTENDS ChartCache, TLAPS

\* Who is inside the lock made its directory, and the dead stay dead.
LockInv ==
    /\ \A p \in Proc : Holding(p) => lock = p
    /\ \A p \in Proc : result[p] = "killed" => pc[p] = "done"

\* The inductive invariant.
IInv == TypeOK /\ LockInv /\ StaleLockMeansKilled

-----------------------------------------------------------------------------

LEMMA InitIInv == Init => IInv
BY ProcAssumption DEF Init, IInv, TypeOK, LockInv, Holding, StaleLockMeansKilled

\* Taking the lock needs a lock nobody has, giving it back one's own.
LEMMA LockIInv == ASSUME IInv, NEW p \in Proc, Lock(p) \/ Unlock(p) PROVE IInv'
<1>1. TypeOK'
  BY DEF IInv, TypeOK, Lock, Unlock, Move
<1>2. LockInv'
  <2>1. CASE Lock(p)
    BY <2>1, ProcAssumption DEF IInv, TypeOK, LockInv, Holding, Lock, Move
  <2>2. CASE Unlock(p)
    BY <2>2, ProcAssumption DEF IInv, TypeOK, LockInv, Holding, Unlock, Move
  <2> QED
    BY <2>1, <2>2
<1>3. StaleLockMeansKilled'
  BY ProcAssumption
     DEF IInv, TypeOK, LockInv, Holding, StaleLockMeansKilled, Lock, Unlock, Move
<1> QED
  BY <1>1, <1>2, <1>3 DEF IInv

\* Within the lock a task stays within it, whether its pull succeeds or fails.
LEMMA PullIInv ==
    ASSUME IInv, NEW p \in Proc, Unpack(p) \/ Pulled(p) \/ PullFails(p)
    PROVE  IInv'
<1>1. TypeOK'
  BY DEF IInv, TypeOK, Unpack, Pulled, PullFails, Move, Return
<1>2. /\ Holding(p) /\ Holding(p)' /\ lock' = lock
      /\ \A q \in Proc \ {p} : pc'[q] = pc[q] /\ result'[q] = result[q]
      /\ result'[p] \in {result[p], "error"}
  BY DEF IInv, TypeOK, Holding, Unpack, Pulled, PullFails, Move, Return
<1>3. LockInv'
  BY <1>2 DEF IInv, LockInv, Holding
<1>4. StaleLockMeansKilled'
  BY <1>2 DEF IInv, TypeOK, LockInv, Holding, StaleLockMeansKilled
<1> QED
  BY <1>1, <1>3, <1>4 DEF IInv

\* Outside the lock a task comes no nearer to it.
LEMMA OutsideIInv ==
    ASSUME IInv, NEW p \in Proc,
           \/ Stat(p) \/ Blocked(p) \/ LockFails(p)
           \/ Unblocked(p) \/ Timeout(p) \/ Template(p)
    PROVE  IInv'
<1>1. TypeOK'
  BY DEF IInv, TypeOK, Stat, Blocked, LockFails, Unblocked, Timeout, Template, Move, Return
<1>2. /\ ~Holding(p) /\ ~Holding(p)' /\ pc[p] # "done" /\ lock' = lock
      /\ \A q \in Proc \ {p} : pc'[q] = pc[q] /\ result'[q] = result[q]
      /\ result'[p] \in {result[p], "error", "ok"}
  BY DEF IInv, TypeOK, Holding, Stat, Blocked, LockFails, Unblocked, Timeout, Template, Move, Return
<1>3. result[p] # "killed"
  BY <1>2 DEF IInv, LockInv
<1>4. LockInv'
  BY <1>2, <1>3 DEF IInv, LockInv, Holding
<1>5. StaleLockMeansKilled'
  BY <1>2, <1>3 DEF IInv, TypeOK, LockInv, Holding, StaleLockMeansKilled
<1> QED
  BY <1>1, <1>4, <1>5 DEF IInv

\* A killed task leaves the lock to nobody.
LEMMA KillIInv == ASSUME IInv, NEW p \in Proc, Kill(p) PROVE IInv'
<1>1. TypeOK'
  BY DEF IInv, TypeOK, Kill, Return
<1>2. LockInv' /\ StaleLockMeansKilled'
  BY DEF IInv, TypeOK, LockInv, Holding, StaleLockMeansKilled, Kill, Return
<1> QED
  BY <1>1, <1>2 DEF IInv

THEOREM Inductive == Spec => []IInv
<1>1. IInv /\ [Next]_vars => IInv'
  <2> SUFFICES ASSUME IInv, [Next]_vars PROVE IInv'
    OBVIOUS
  <2>1. CASE UNCHANGED vars
    BY <2>1 DEF vars, IInv, TypeOK, LockInv, Holding, StaleLockMeansKilled
  <2>2. ASSUME NEW p \in Proc, Helm(p) PROVE IInv'
    BY <2>2, LockIInv, PullIInv, OutsideIInv DEF Helm
  <2>3. ASSUME NEW p \in Proc, Kill(p) PROVE IInv'
    BY <2>3, KillIInv
  <2> QED
    BY <2>1, <2>2, <2>3 DEF Next, Terminated
<1> QED
  BY <1>1, InitIInv, PTL DEF Spec

\* No two tasks unpack into the chart directory at once (onceWithLock).
THEOREM PullsExclusiveHolds == Spec => []PullsExclusive
<1>1. IInv => PullsExclusive
  BY DEF IInv, LockInv, PullsExclusive
<1> QED
  BY <1>1, Inductive, PTL

\* Only a kill leaves a lock behind (the deferred os.RemoveAll of onceWithLock).
THEOREM StaleLockMeansKilledHolds == Spec => []StaleLockMeansKilled
<1>1. IInv => StaleLockMeansKilled
  BY DEF IInv
<1> QED
  BY <1>1, Inductive, PTL
=============================================================================
