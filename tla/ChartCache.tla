----------------------------- MODULE ChartCache -----------------------------
(***************************************************************************)
(* The cache of one Helm chart version in a component directory: the first *)
(* part of taskRunner.helm, and onceWithLock, of                           *)
(* src/internal/component/v1beta1/v1beta1.go, over PullChart of            *)
(* src/internal/helm/helm.go.  The Helm generators of v1alpha5 and         *)
(* v1alpha6 are the same code line by line, and the module models the      *)
(* three copies.                                                           *)
(*                                                                         *)
(* Helm tasks of one process, of several "render component" processes that *)
(* one "render platform" started, and of later renders meet at two         *)
(* directories: the chart and its lock.  A process may be killed at any    *)
(* point: "render platform" kills its children when one component fails.   *)
(***************************************************************************)
EXTENDS FiniteSets

CONSTANTS
    Proc,   \* the Helm tasks that want the chart, now or later
    NoProc  \* nobody

ASSUME ProcAssumption == IsFiniteSet(Proc) /\ NoProc \notin Proc

VARIABLES
    pc,      \* where each task stands
    result,  \* "none" until its caching or helm template "ok" or "error", or "killed"
    chart,   \* the directory cachePath: "absent", "partial" or "whole"
    lock,    \* who made the directory lockDir, if it exists
    used     \* the state of the chart that each task's helm template read

vars == <<pc, result, chart, lock, used>>

Init ==
    /\ pc = [p \in Proc |-> "stat"]
    /\ result = [p \in Proc |-> "none"]
    /\ chart = "absent"
    /\ lock = NoProc
    /\ used = [p \in Proc |-> "absent"]

\* A task moves from one place to another.
Move(p, from, to) == pc[p] = from /\ pc' = [pc EXCEPT ![p] = to]

Return(p, value) == result' = [result EXCEPT ![p] = value]

\* os.Stat(cachePath), outside the lock.
Stat(p) ==
    /\ Move(p, "stat", IF chart = "absent" THEN "lock" ELSE "template")
    /\ UNCHANGED <<result, chart, lock, used>>

\* BUG: os.MkdirAll in place of os.Mkdir does not fail on a directory that exists.
LockShared(p) ==
    /\ Move(p, "lock", "pull")
    /\ lock' = p
    /\ UNCHANGED <<result, chart, used>>

\* os.Mkdir(lockDir) creates the directory.
Lock(p) ==
    /\ lock = NoProc
    /\ Move(p, "lock", "pull")
    /\ lock' = p
    /\ UNCHANGED <<result, chart, used>>

\* os.IsExist: somebody else holds the lock.
Blocked(p) ==
    /\ lock # NoProc
    /\ Move(p, "lock", "wait")
    /\ UNCHANGED <<result, chart, lock, used>>

\* The vendor directory or the lock cannot be made.
LockFails(p) ==
    /\ Move(p, "lock", "done")
    /\ Return(p, "error")
    /\ UNCHANGED <<chart, lock, used>>

\* PullChart has the archive and begins to unpack it into cachePath, which helm
\* does not do over a directory that is there: the task may have found no chart
\* before another one pulled it, or found what a failed pull left.
Unpack(p) ==
    /\ chart = "absent"
    /\ Move(p, "pull", "unpack")
    /\ chart' = "partial"
    /\ UNCHANGED <<result, lock, used>>

Pulled(p) ==
    /\ Move(p, "unpack", "unlock")
    /\ chart' = "whole"
    /\ UNCHANGED <<result, lock, used>>

\* BUG: the lock is not removed with defer.
PullFailsLocked(p) ==
    /\ Move(p, "pull", "done") \/ Move(p, "unpack", "done")
    /\ Return(p, "error")
    /\ UNCHANGED <<chart, lock, used>>

\* The download or the unpacking fails, or is refused; what was unpacked stays.
PullFails(p) ==
    /\ Move(p, "pull", "unlock") \/ Move(p, "unpack", "unlock")
    /\ Return(p, "error")
    /\ UNCHANGED <<chart, lock, used>>

\* The deferred os.RemoveAll(lockDir).
Unlock(p) ==
    /\ Move(p, "unlock", IF result[p] = "error" THEN "done" ELSE "template")
    /\ lock' = NoProc
    /\ UNCHANGED <<result, chart, used>>

\* A poll finds no lock: onceWithLock returns nil, whatever the holder's result.
Unblocked(p) ==
    /\ lock = NoProc
    /\ Move(p, "wait", "template")
    /\ UNCHANGED <<result, chart, lock, used>>

\* BUG: no deadline.
NoTimeout(p) == FALSE /\ UNCHANGED vars

\* ctx.Done() while waiting: five minutes are over, or another task failed.
Timeout(p) ==
    /\ Move(p, "wait", "done")
    /\ Return(p, "error")
    /\ UNCHANGED <<chart, lock, used>>

\* helm template reads the chart; without one it fails, and it may always fail.
Template(p) ==
    /\ Move(p, "template", "done")
    /\ used' = [used EXCEPT ![p] = chart]
    /\ Return(p, "error") \/ (chart # "absent" /\ Return(p, "ok"))
    /\ UNCHANGED <<chart, lock>>

\* The process dies where it stands; its lock stays.
Kill(p) ==
    /\ pc[p] # "done"
    /\ pc' = [pc EXCEPT ![p] = "done"]
    /\ Return(p, "killed")
    /\ UNCHANGED <<chart, lock, used>>

Helm(p) ==
    \/ Stat(p) \/ Lock(p) \/ Blocked(p) \/ LockFails(p)
    \/ Unpack(p) \/ Pulled(p) \/ PullFails(p) \/ Unlock(p)
    \/ Unblocked(p) \/ Timeout(p) \/ Template(p)

Terminated == (\A p \in Proc : pc[p] = "done") /\ UNCHANGED vars

Next == (\E p \in Proc : Helm(p) \/ Kill(p)) \/ Terminated

\* A live task goes on: pulls end, and a wait ends by its deadline at the latest.
Spec == Init /\ [][Next]_vars /\ \A p \in Proc : WF_vars(Helm(p))

-----------------------------------------------------------------------------

\* Every variable keeps its type.
TypeOK ==
    /\ pc \in [Proc -> {"stat", "lock", "pull", "unpack", "unlock", "wait", "template", "done"}]
    /\ result \in [Proc -> {"none", "ok", "error", "killed"}]
    /\ chart \in {"absent", "partial", "whole"}
    /\ lock \in Proc \cup {NoProc}
    /\ used \in [Proc -> {"absent", "partial", "whole"}]

\* Where a task is inside the lock.
Holding(p) == pc[p] \in {"pull", "unpack", "unlock"}

\* onceWithLock "obtains a filesystem lock with mkdir, then executes fn": two
\* processes never unpack into the same directory, not even after a kill.
PullsExclusive == \A p, q \in Proc : Holding(p) /\ Holding(q) => p = q

\* The lock directory outlives its maker only if the maker was killed: no error
\* path of a live process blocks every later render of the component.
StaleLockMeansKilled == lock # NoProc => Holding(lock) \/ result[lock] = "killed"

\* Nobody waits forever, not even for a lock whose maker was killed.
EventuallyReturns == \A p \in Proc : <>(pc[p] = "done")

\* "The chart is cached per version per component and pulled at most once
\* guarded by a filesystem lock" (the comment on taskRunner.helm): as long as
\* nothing failed, no task reads a chart another one is still unpacking.
GuardedByLock ==
    (\A p \in Proc : result[p] \notin {"error", "killed"}) =>
        \A p \in Proc : used[p] # "partial"
=============================================================================
