------------------------ MODULE TaskSetBuildProofs -------------------------
(***************************************************************************)
(* Proofs about the graph and the build of a TaskSet of v1beta1.go, for    *)
(* every task set, every component directory and every concurrency: the    *)
(* derivation of the graph loses no data flow and invents none, the        *)
(* scheduler of the build is the one of Executor, and the store, the       *)
(* shared temporary directory and the write-to directory stay consistent.  *)
(*                                                                         *)
(* Two conditions on the declarations occur as hypotheses, and the code    *)
(* checks neither (see the README): PathsClean and InputsApart.            *)
(***************************************************************************)
EXTENDS TaskSetBuild, ExecutorProofs, SequenceTheorems, WellFoundedInduction

(***************************************************************************)
(* The graph derivation (TaskGraph), for every task set.                   *)
(***************************************************************************)

\* What an accepted graph is: the edges and files of declarations that passed
\* every check.
VerdictInv ==
    verdict = "accepted" =>
        /\ Accepted
        /\ pred = Edges
        /\ files = Files

\* The inductive invariant.
GraphInv ==
    /\ tasks \in [Task -> Declaration]
    /\ VerdictInv

-----------------------------------------------------------------------------

\* A path under another is longer and agrees with it segment by segment.
LEMMA UnderExpanded ==
    ASSUME NEW p \in Path, NEW d \in Path
    PROVE  Under(p, d) <=> /\ Len(d) < Len(p)
                           /\ \A i \in 1 .. Len(d) : p[i] = d[i]
<1>0. Len(p) \in Nat /\ Len(d) \in Nat
  BY DEF Path
<1>1. DOMAIN p = 1 .. Len(p) /\ DOMAIN d = 1 .. Len(d)
  BY DEF Path
<1>2. CASE ~(Len(d) <= Len(p))
  BY <1>0, <1>2 DEF Under, IsStrictPrefix, IsPrefix
<1>3. CASE Len(d) <= Len(p)
  <2>1. /\ SubSeq(d, 1, Len(d)) = [i \in 1 .. Len(d) |-> d[i]]
        /\ SubSeq(p, 1, Len(d)) = [i \in 1 .. Len(d) |-> p[i]]
    BY <1>0, <1>1, <1>3 DEF Path
  <2>2. IsPrefix(d, p) <=> \A i \in 1 .. Len(d) : p[i] = d[i]
    <3>1. IsPrefix(d, p) <=> [i \in 1 .. Len(d) |-> d[i]] = [i \in 1 .. Len(d) |-> p[i]]
      BY <1>3, <2>1 DEF IsPrefix
    <3> QED
      BY <3>1
  <2>3. (Len(d) = Len(p) /\ \A i \in 1 .. Len(d) : p[i] = d[i]) => p = d
    BY <1>1 DEF Path
  <2>4. p = d => Len(p) = Len(d)
    OBVIOUS
  <2>5. Under(p, d) <=> IsPrefix(d, p) /\ d # p
    BY DEF Under, IsStrictPrefix
  <2>6. Len(d) # Len(p) <=> Len(d) < Len(p)
    BY <1>0, <1>3
  <2>7. ASSUME \A i \in 1 .. Len(d) : p[i] = d[i] PROVE d # p <=> Len(d) < Len(p)
    BY <2>3, <2>4, <2>6, <2>7
  <2> QED
    BY <2>2, <2>5, <2>7
<1> QED
  BY <1>2, <1>3

\* Lying under is transitive: the only fact about paths the graph relies on.
LEMMA UnderTransitive ==
    ASSUME NEW p \in Path, NEW q \in Path, NEW r \in Path, Under(p, q), Under(q, r)
    PROVE  Under(p, r)
<1>1. Len(p) \in Nat /\ Len(q) \in Nat /\ Len(r) \in Nat
  BY DEF Path
<1> QED
  BY <1>1, UnderExpanded

\* With prefix-free outputs the three rules exclude each other, so the first
\* one to match returns every producer that overlaps the input.
LEMMA RulesMissNothing ==
    ASSUME tasks \in [Task -> Declaration], PrefixFree([t \in Producers |-> OutputOf(t)]), NEW p \in Path
    PROVE  MatchProducers(p) = {t \in Producers : Overlap(OutputOf(t), p)}
<1> DEFINE exact == {t \in Producers : OutputOf(t) = p}
           below == {t \in Producers : Under(OutputOf(t), p)}
           above == {t \in Producers : Under(p, OutputOf(t))}
<1>1. \A t \in Producers : OutputOf(t) \in Path
  BY DEF Producers, OutputOf, Declaration
<1>2. \A t, u \in Producers : ~Under(OutputOf(t), OutputOf(u))
  BY DEF PrefixFree
<1>3. exact # {} => below = {} /\ above = {}
  BY <1>2
<1>4. below # {} => above = {}
  BY <1>1, <1>2, UnderTransitive
<1>5. exact \cup below \cup above = {t \in Producers : Overlap(OutputOf(t), p)}
  BY DEF Overlap
<1>6. MatchProducers(p) = IF exact # {} THEN exact ELSE IF below # {} THEN below ELSE above
  BY DEF MatchProducers
<1> HIDE DEF exact, below, above
<1> QED
  BY <1>3, <1>4, <1>5, <1>6

-----------------------------------------------------------------------------

LEMMA GraphInductive == GraphSpec => []GraphInv
<1>1. GraphInit => GraphInv
  BY GraphAssumption DEF GraphInit, GraphInv, VerdictInv
<1>2. GraphInv /\ [GraphNext]_graphVars => GraphInv'
  <2> SUFFICES ASSUME GraphInv, [GraphNext]_graphVars PROVE GraphInv'
    OBVIOUS
  <2>1. CASE Accept
    <3>1. tasks' = tasks /\ dir' = dir
      BY <2>1 DEF Accept
    <3>2. Edges' = Edges /\ Files' = Files /\ Accepted' = Accepted
      BY <3>1 DEF Edges, InputProducers, Files, Accepted, MatchProducers, Producers, OutputOf, Exists,
                  PrefixFree, Sinks, ArtifactPath
    <3> QED
      BY <2>1, <3>1, <3>2 DEF Accept, GraphInv, VerdictInv
  <2>2. CASE Reject
    BY <2>2 DEF Reject, GraphInv, VerdictInv
  <2>3. CASE UNCHANGED graphVars
    <3>1. tasks' = tasks /\ dir' = dir /\ verdict' = verdict /\ pred' = pred /\ files' = files
      BY <2>3 DEF graphVars
    <3>2. Edges' = Edges /\ Files' = Files /\ Accepted' = Accepted
      BY <3>1 DEF Edges, InputProducers, Files, Accepted, MatchProducers, Producers, OutputOf, Exists,
                  PrefixFree, Sinks, ArtifactPath
    <3> QED
      BY <3>1, <3>2 DEF GraphInv, VerdictInv
  <2> QED
    BY <2>1, <2>2, <2>3 DEF GraphNext
<1> QED
  BY <1>1, <1>2, PTL DEF GraphSpec

\* The three properties follow from the invariant.
LEMMA EdgesFromInv == GraphInv => EdgesFollowData
<1>1. ASSUME GraphInv, verdict = "accepted", NEW t \in Task, NEW u \in Task
      PROVE  t \in pred[u] <=> \/ t \in tasks[u].dependsOn
                               \/ /\ t \in Producers
                                  /\ \E i \in tasks[u].inputs : Overlap(OutputOf(t), i)
  <2>1. \A i \in tasks[u].inputs : MatchProducers(i) = {v \in Producers : Overlap(OutputOf(v), i)}
    BY <1>1, RulesMissNothing DEF GraphInv, VerdictInv, Accepted, Declaration
  <2>2. t \in InputProducers(u) <=> \E i \in tasks[u].inputs : t \in MatchProducers(i)
    BY DEF InputProducers
  <2>3. pred[u] = InputProducers(u) \cup tasks[u].dependsOn
    BY <1>1 DEF GraphInv, VerdictInv, Edges
  <2> QED
    BY <2>1, <2>2, <2>3
<1> QED
  BY <1>1 DEF EdgesFollowData

LEMMA LoadsFromInv == GraphInv => LoadsAreDisjoint
<1>1. ASSUME GraphInv, verdict = "accepted", NEW p \in Loaded(files)
      PROVE  /\ \A q \in Loaded(files) : p # q => ~Overlap(p, q)
             /\ \A t \in Producers : ~Overlap(OutputOf(t), p)
  <2>1. p \in files /\ \A q \in files : ~Under(p, q)
    BY DEF Loaded
  <2>2. ASSUME NEW q \in Loaded(files), p # q PROVE ~Overlap(p, q)
    BY <2>1, <2>2 DEF Loaded, Overlap
  <2>3. MatchProducers(p) = {} /\ p \in Path
    BY <1>1, <2>1 DEF GraphInv, VerdictInv, Files, Declaration
  <2>4. ASSUME NEW t \in Producers PROVE ~Overlap(OutputOf(t), p)
    BY <1>1, <2>3, RulesMissNothing DEF GraphInv, VerdictInv, Accepted
  <2> QED
    BY <2>2, <2>4
<1> QED
  BY <1>1 DEF LoadsAreDisjoint

LEMMA SourcesFromInv == GraphInv => InputsSourced
<1>1. ASSUME GraphInv, verdict = "accepted", NEW u \in Task, NEW i \in tasks[u].inputs
      PROVE  /\ i \in files \/ \E t \in pred[u] : Overlap(OutputOf(t), i)
             /\ u \in Producers => ~Overlap(OutputOf(u), i)
  <2>1. MatchProducers(i) = {v \in Producers : Overlap(OutputOf(v), i)}
    BY <1>1, RulesMissNothing DEF GraphInv, VerdictInv, Accepted, Declaration
  <2>2. MatchProducers(i) \subseteq pred[u]
    BY <1>1 DEF GraphInv, VerdictInv, Edges, InputProducers
  <2>3. MatchProducers(i) = {} => i \in files
    BY <1>1 DEF GraphInv, VerdictInv, Files
  <2>4. u \notin pred[u]
    BY <1>1 DEF GraphInv, VerdictInv, Accepted
  <2> QED
    BY <2>1, <2>2, <2>3, <2>4
<1> QED
  BY <1>1 DEF InputsSourced

\* Schema.md D1: the matching rules lose no data flow and invent none.
THEOREM EdgesFollowDataHolds == GraphSpec => []EdgesFollowData
  BY EdgesFromInv, GraphInductive, PTL

\* What Build loads from the component directory never collides with a loaded
\* path or with an output: the write-once store accepts every task's result.
THEOREM LoadsAreDisjointHolds == GraphSpec => []LoadsAreDisjoint
  BY LoadsFromInv, GraphInductive, PTL

\* Every input has one source or several, never none, and no task reads what it
\* writes.
THEOREM InputsSourcedHolds == GraphSpec => []InputsSourced
  BY SourcesFromInv, GraphInductive, PTL

-----------------------------------------------------------------------------
(***************************************************************************)
(* The build (TaskSetBuild).                                               *)
(***************************************************************************)

\* The body of t was entered.
Begun(t) == worker[t] \in {"running", "succeeded", "sent", "failed", "recorded"}

\* The body of t returned nil.
Finished(t) == worker[t] \in {"succeeded", "sent"}

\* What was accepted, once and for all.
DeclInv == GraphInv /\ verdict = "accepted" /\ dir \in Listings

BodyTypeOK ==
    /\ phase \in {"load", "run", "failed"}
    /\ store \in SUBSET Path
    /\ body \in [Task -> [at : {"none", "inputs", "exec", "set", "remove", "write"}, todo : SUBSET Path]]
    /\ seen \in [Task -> SUBSET File]
    /\ saveMu \in Task \cup {NoTask}
    /\ saved \in SUBSET Path
    /\ broken \in SUBSET Path
    /\ saving \in [path : Path, keys : SUBSET Path, open : Path]
    /\ tmp \in SUBSET File
    /\ torn \in SUBSET Path
    /\ deploy \in SUBSET File

\* Where a body may stand, for its kind and for the state of its worker.
PlaceInv ==
    /\ phase # "run" => store = {} /\ \A t \in Task : ~Begun(t)
    /\ \A t \in Task :
          /\ body[t].at = "none" <=> ~Begun(t)
          /\ body[t].at = "inputs" =>
                Kind(t) \in {"Kustomize", "Join", "Command"} /\ body[t].todo \subseteq Inputs(t)
          /\ body[t].at = "exec" => Kind(t) = "Command" /\ body[t].todo = {}
          /\ body[t].at = "set" =>
                t \in Producers /\ \A p \in body[t].todo : AtOrUnder(p, OutputOf(t))
          /\ body[t].at \in {"remove", "write"} => t \in Sinks
          /\ Finished(t) =>
                \/ body[t].at = "set" /\ body[t].todo = {}
                \/ body[t].at = "exec" /\ t \notin Producers
                \/ body[t].at = "write"

\* k is in the store, or is about to be set.
Coming(k) == k \in store \/ \E t \in Task : body[t].at = "set" /\ k \in body[t].todo

\* Each such path was loaded from the component directory, or belongs to the
\* output of a task; none lies below another, and none is set twice.
StoreInv ==
    /\ \A k \in Path : Coming(k) =>
          \/ \E p \in Loaded(files) : AtOrUnder(k, p)
          \/ \E t \in Producers : body[t].at = "set" /\ AtOrUnder(k, OutputOf(t))
    /\ \A k, l \in Path : Coming(k) /\ Coming(l) => ~Under(k, l)
    /\ \A t \in Task : body[t].at = "set" => body[t].todo \cap store = {}

FilesInv == BodyTypeOK /\ PlaceInv /\ StoreInv

\* The inductive invariant of any build.
BuildInv == IInv /\ DeclInv /\ FilesInv

\* The remaining parts hold of builds with PathsClean.  A clean path is the path
\* of its own file, and the files of a plain tree are the keys they are named by.
CleanKey(k) == k # NoPath /\ ValidFSPath(k)
Plain(files_) == \A f \in files_ : f.content = f.path

KeysInv == \A k \in Path : Coming(k) => CleanKey(k)

\* What a body has read of its inputs, on the way and when it is done.
SeenInv ==
    \A t \in Task :
        /\ body[t].at = "none" => seen[t] = {}
        /\ body[t].at = "inputs" /\ Kind(t) # "Command" =>
              seen[t] = SavedFiles({k \in store : \E p \in Inputs(t) \ body[t].todo : AtOrUnder(k, p)})
        /\ body[t].at \in {"exec", "set"} \/ (body[t].at = "write" /\ Finished(t)) =>
              seen[t] = SavedFiles(InputFiles(t))

\* sharedSave is at work on path p.
Saving(p) == saveMu # NoTask /\ saving.path = p

\* The paths of the files of the shared directory.
Present == {f.path : f \in tmp}

\* Who holds saveMu, which paths were saved for whom, and what of them is in the
\* shared directory.
SaveInv ==
    /\ saveMu # NoTask =>
          /\ worker[saveMu] = "running" /\ body[saveMu].at = "inputs" /\ Kind(saveMu) = "Command"
          /\ saving.path \in saved \ broken
          /\ saving.keys \subseteq Matched(saving.path)
    /\ saving.open # NoPath => saving.open \in saving.keys \cap torn
    /\ broken \subseteq saved
    /\ \A p \in saved : \E t \in Task : Kind(t) = "Command" /\ p \in Inputs(t) /\ Begun(t)
    /\ \A p \in saved \ broken : \A k \in Matched(p) : k \in Present \/ (Saving(p) /\ k \in saving.keys)
    /\ \A t \in Task : worker[t] = "running" /\ Kind(t) = "Command" /\ body[t].at \in {"inputs", "exec"} =>
          \A p \in Inputs(t) \ body[t].todo : p \in saved \ broken /\ (Saving(p) => saveMu = t)

\* Where the files of the shared directory, and the truncated ones, come from.
TmpInv ==
    /\ Plain(tmp)
    /\ torn \subseteq Present /\ \A p \in Present : Coming(p)
    /\ \A p \in Present : ToolWrote(p) \/ \E q \in saved : /\ AtOrUnder(p, q)
                                                           /\ Saving(q) => p \notin saving.keys \ torn
    /\ \A p \in torn : \E q \in saved : /\ AtOrUnder(p, q)
                                        /\ q \in broken \/ (Saving(q) /\ p \in saving.keys)

\* No input of a command lies below an input of another.
InputsApart ==
    \A t, u \in Task : Kind(t) = "Command" /\ Kind(u) = "Command" =>
        \A p \in Inputs(t), q \in Inputs(u) : ~Under(p, q)

\* What lies at the destination of t, now and after the previous render.
At(t) == {f \in deploy : AtOrUnder(f.path, Dest(t))}
PreviousAt(t) == {[path |-> p, content |-> NoPath] : p \in {q \in Previous : AtOrUnder(q, Dest(t))}}

\* A destination is as it was until its sink begins, empty before it is written,
\* and then what was written.
DeployInv ==
    \A t \in Sinks :
        /\ ~Begun(t) => At(t) = PreviousAt(t)
        /\ worker[t] = "running" /\ body[t].at = "write" => At(t) = {}
        /\ Finished(t) => At(t) = Artifacts(t)

\* The inductive invariant of a build with clean paths.
CleanInv == PathsClean /\ KeysInv /\ SeenInv /\ SaveInv /\ TmpInv /\ DeployInv

-----------------------------------------------------------------------------
(***************************************************************************)
(* Paths.                                                                  *)
(***************************************************************************)

LEMMA NotUnderItself == ASSUME NEW p \in Path PROVE ~Under(p, p)
BY DEF Under, IsStrictPrefix

LEMMA AtOrUnderTransitive ==
    ASSUME NEW p \in Path, NEW q \in Path, NEW r \in Path, AtOrUnder(p, q), AtOrUnder(q, r)
    PROVE  AtOrUnder(p, r)
BY UnderTransitive DEF AtOrUnder

\* Two paths with a file in common overlap.
LEMMA CommonFile ==
    ASSUME NEW f \in Path, NEW p \in Path, NEW q \in Path, AtOrUnder(f, p), AtOrUnder(f, q)
    PROVE  Overlap(p, q)
<1>1. Len(f) \in Nat /\ Len(p) \in Nat /\ Len(q) \in Nat
  BY DEF Path
<1>2. /\ Len(p) <= Len(f) /\ \A i \in 1 .. Len(p) : f[i] = p[i]
      /\ Len(q) <= Len(f) /\ \A i \in 1 .. Len(q) : f[i] = q[i]
  BY <1>1, UnderExpanded DEF AtOrUnder
<1>3. CASE Len(p) < Len(q)
  <2>1. \A i \in 1 .. Len(p) : q[i] = p[i]
    BY <1>1, <1>2, <1>3
  <2> QED
    BY <1>3, <2>1, UnderExpanded DEF Overlap
<1>4. CASE Len(q) < Len(p)
  <2>1. \A i \in 1 .. Len(q) : p[i] = q[i]
    BY <1>1, <1>2, <1>4
  <2> QED
    BY <1>4, <2>1, UnderExpanded DEF Overlap
<1>5. CASE Len(p) = Len(q)
  <2>1. \A i \in 1 .. Len(p) : q[i] = p[i]
    BY <1>1, <1>2, <1>5
  <2>2. p = q
    BY <1>5, <2>1 DEF Path
  <2> QED
    BY <2>2 DEF Overlap
<1> QED
  BY <1>1, <1>3, <1>4, <1>5

\* A file below one path and a file below another that is not above or below it
\* do not lie below one another.
LEMMA ApartFiles ==
    ASSUME NEW f \in Path, NEW g \in Path, NEW p \in Path, NEW q \in Path,
           AtOrUnder(f, p), AtOrUnder(g, q), ~Overlap(p, q)
    PROVE  f # g /\ ~Under(f, g) /\ ~Under(g, f)
<1>1. AtOrUnder(f, g) => AtOrUnder(f, q)
  BY AtOrUnderTransitive
<1>2. AtOrUnder(g, f) => AtOrUnder(g, p)
  BY AtOrUnderTransitive
<1> QED
  BY <1>1, <1>2, CommonFile DEF AtOrUnder

LEMMA OverlapSymmetric == ASSUME NEW p, NEW q PROVE Overlap(p, q) <=> Overlap(q, p)
BY DEF Overlap

\* A path continued by another.
LEMMA Continued ==
    ASSUME NEW p \in Path, NEW r \in Path
    PROVE  /\ p \o r \in Path /\ Len(p \o r) = Len(p) + Len(r)
           /\ AtOrUnder(p \o r, p)
           /\ r # <<>> => Under(p \o r, p)
<1>1. Len(p) \in Nat /\ Len(r) \in Nat /\ (r # <<>> => Len(r) > 0)
  BY DEF Path
<1>2. /\ p \o r \in Path
      /\ Len(p \o r) = Len(p) + Len(r)
      /\ \A i \in 1 .. Len(p) + Len(r) : (p \o r)[i] = IF i <= Len(p) THEN p[i] ELSE r[i - Len(p)]
  BY ConcatProperties, Zenon DEF Path
<1>3. \A i \in 1 .. Len(p) : (p \o r)[i] = p[i]
  BY <1>1, <1>2
<1>4. r # <<>> => Under(p \o r, p)
  <2> DEFINE x == p \o r
  <2>1. x \in Path /\ Len(x) = Len(p) + Len(r) /\ \A i \in 1 .. Len(p) : x[i] = p[i]
    BY <1>2, <1>3
  <2> HIDE DEF x
  <2>2. r # <<>> => Under(x, p)
    BY <1>1, <2>1, UnderExpanded
  <2> QED
    BY <2>2 DEF x
<1>5. r = <<>> => p \o r = p
  BY ConcatEmptySeq, Zenon DEF Path
<1> QED
  BY <1>2, <1>4, <1>5 DEF AtOrUnder

LEMMA Singleton ==
    ASSUME NEW S, NEW e \in S
    PROVE  <<e>> \in Seq(S) /\ Len(<<e>>) = 1 /\ <<e>> # <<>>
OBVIOUS

\* The files a command writes into its directory output are siblings.
LEMMA Siblings ==
    ASSUME NEW p \in Path, NEW m \in STRING, NEW n \in STRING
    PROVE  p \o <<m>> \in Path /\ Under(p \o <<m>>, p) /\ ~Under(p \o <<m>>, p \o <<n>>)
<1>1. /\ <<m>> \in Path /\ Len(<<m>>) = 1 /\ <<m>> # <<>>
      /\ <<n>> \in Path /\ Len(<<n>>) = 1
  BY Singleton, Zenon DEF Path
<1>2. /\ p \o <<m>> \in Path /\ Under(p \o <<m>>, p) /\ Len(p \o <<m>>) = Len(p) + 1
      /\ p \o <<n>> \in Path /\ Len(p \o <<n>>) = Len(p) + 1
  <2> DEFINE a == <<m>>
             b == <<n>>
  <2>1. a \in Path /\ Len(a) = 1 /\ a # <<>> /\ b \in Path /\ Len(b) = 1
    BY <1>1
  <2> HIDE DEF a, b
  <2>2. /\ p \o a \in Path /\ Under(p \o a, p) /\ Len(p \o a) = Len(p) + 1
        /\ p \o b \in Path /\ Len(p \o b) = Len(p) + 1
    BY <2>1, Continued
  <2> QED
    BY <2>2 DEF a, b
<1> DEFINE x == p \o <<m>>
           y == p \o <<n>>
<1>3. x \in Path /\ y \in Path /\ Len(x) = Len(p) + 1 /\ Len(y) = Len(p) + 1
  BY <1>2
<1> HIDE DEF x, y
<1>4. ~Under(x, y)
  <2>1. Len(p) \in Nat
    BY DEF Path
  <2> QED
    BY <1>3, <2>1, UnderExpanded
<1> QED
  BY <1>2, <1>4 DEF x, y

\* A file of the store that a sink moves below its destination.
LEMMA Moved ==
    ASSUME NEW d \in Path, NEW k \in Path, NEW p \in Path, AtOrUnder(k, p)
    PROVE  d \o Rest(k, p) \in Path /\ AtOrUnder(d \o Rest(k, p), d)
<1>1. Len(k) \in Nat /\ Len(p) \in Nat
  BY DEF Path
<1>2. \A i \in Len(p) + 1 .. Len(k) : k[i] \in STRING
  BY <1>1, ElementOfSeq DEF Path
<1>3. Rest(k, p) \in Path
  BY <1>1, <1>2, SubSeqProperties DEF Rest, Path
<1> QED
  BY <1>3, Continued

-----------------------------------------------------------------------------
(***************************************************************************)
(* Cleaned paths and the files on a disk.                                  *)
(***************************************************************************)

LEMMA LeastNumber ==
    ASSUME NEW S \in SUBSET Nat, S # {}
    PROVE  \E m \in S : \A k \in S : m <= k
<1>1. PICK m \in S : \A k \in S : <<k, m>> \notin OpToRel(<, Nat)
  BY NatLessThanWellFounded, WFMin
<1>2. \A k \in S : ~(k < m)
  BY <1>1 DEF OpToRel
<1> QED
  BY <1>2

\* Induction, with the predicate as a set.
LEMMA NumbersByInduction ==
    ASSUME NEW S, 0 \in S, \A n \in Nat : n \in S => n + 1 \in S
    PROVE  Nat \subseteq S
<1> SUFFICES ASSUME ~(Nat \subseteq S) PROVE FALSE
  OBVIOUS
<1>1. PICK m \in Nat \ S : \A k \in Nat \ S : m <= k
  BY LeastNumber
<1>2. m # 0 /\ m - 1 \in Nat /\ m - 1 \in S
  BY <1>1
<1> QED
  BY <1>1, <1>2

\* One segment more leaves a path, and the same path with it when it is clean.
LEMMA StepTyped ==
    ASSUME NEW c \in Path, NEW seg \in STRING
    PROVE  /\ CleanStep(c, seg) \in Path
           /\ seg \notin DotSegment => CleanStep(c, seg) = Append(c, seg)
<1>1. c # <<>> => Front(c) \in Path
  <2>1. c # <<>> => Front(c) = SubSeq(c, 1, Len(c) - 1) /\ Len(c) \in Nat /\ Len(c) > 0
    BY DEF Front, Path
  <2>2. \A i \in 1 .. Len(c) : c[i] \in STRING
    BY DEF Path
  <2> QED
    BY <2>1, <2>2, SubSeqProperties DEF Path
<1>2. Append(c, seg) \in Path
  BY AppendProperties DEF Path
<1> QED
  BY <1>1, <1>2 DEF CleanStep, DotSegment

\* What is made of the first n segments of a path.
Cleaned(p) == CHOOSE g : g = [n \in 0 .. Len(p) |-> IF n = 0 THEN <<>> ELSE CleanStep(g[n - 1], p[n])]

LEMMA CleanedDefined ==
    ASSUME NEW p \in Path
    PROVE  Cleaned(p) = [n \in 0 .. Len(p) |-> IF n = 0 THEN <<>> ELSE CleanStep(Cleaned(p)[n - 1], p[n])]
<1> DEFINE Good == {m \in Nat : \E g : g = [n \in 0 .. m |-> IF n = 0 THEN <<>> ELSE CleanStep(g[n - 1], p[n])]}
<1>1. 0 \in Good
  <2> DEFINE g == [n \in 0 .. 0 |-> <<>>]
  <2>1. g = [n \in 0 .. 0 |-> IF n = 0 THEN <<>> ELSE CleanStep(g[n - 1], p[n])]
    OBVIOUS
  <2> QED
    BY <2>1
<1>2. ASSUME NEW m \in Nat, m \in Good PROVE m + 1 \in Good
  <2>1. PICK g : g = [n \in 0 .. m |-> IF n = 0 THEN <<>> ELSE CleanStep(g[n - 1], p[n])]
    BY <1>2
  <2> DEFINE h == [n \in 0 .. (m + 1) |-> IF n = 0 THEN <<>> ELSE CleanStep(g[n - 1], p[n])]
  <2>2. \A n \in 0 .. m : h[n] = g[n]
    BY <2>1
  <2>3. \A n \in 0 .. (m + 1) : n # 0 => h[n - 1] = g[n - 1]
    <3> HIDE DEF h
    <3>1. \A n \in 0 .. (m + 1) : n # 0 => n - 1 \in 0 .. m
      OBVIOUS
    <3> QED
      BY <2>2, <3>1
  <2>4. h = [n \in 0 .. (m + 1) |-> IF n = 0 THEN <<>> ELSE CleanStep(h[n - 1], p[n])]
    BY <2>3
  <2> HIDE DEF h
  <2>5. \E x : x = [n \in 0 .. (m + 1) |-> IF n = 0 THEN <<>> ELSE CleanStep(x[n - 1], p[n])]
    BY <2>4
  <2> QED
    BY <2>5
<1>3. Len(p) \in Nat
  BY DEF Path
<1>4. Len(p) \in Good
  <2> HIDE DEF Good
  <2> QED
    BY <1>1, <1>2, <1>3, NumbersByInduction
<1>5. \E g : g = [n \in 0 .. Len(p) |-> IF n = 0 THEN <<>> ELSE CleanStep(g[n - 1], p[n])]
  BY <1>4
<1> QED
  BY <1>5 DEF Cleaned

\* Cleaning makes a path of a path, and nothing else of one without dots.
LEMMA CleanPath ==
    ASSUME NEW p \in Path
    PROVE  Clean(p) \in Path /\ (ValidFSPath(p) => Clean(p) = p)
<1> DEFINE c == Cleaned(p)
           Part(n) == [i \in 1 .. n |-> p[i]]
           Good == {n \in Nat : n \in 0 .. Len(p) => c[n] \in Path /\ (ValidFSPath(p) => c[n] = Part(n))}
<1>1. Len(p) \in Nat /\ \A i \in 1 .. Len(p) : p[i] \in STRING /\ i \in DOMAIN p
  BY DEF Path
<1>2. \A n \in 0 .. Len(p) : c[n] = IF n = 0 THEN <<>> ELSE CleanStep(c[n - 1], p[n])
  BY CleanedDefined
<1>3. Clean(p) = c[Len(p)]
  BY DEF Clean, Cleaned
<1> HIDE DEF c
<1>4. 0 \in Good
  <2>1. c[0] = <<>> /\ <<>> \in Path
    BY <1>1, <1>2 DEF Path
  <2>2. Part(0) = <<>>
    OBVIOUS
  <2> QED
    BY <2>1, <2>2
<1>5. ASSUME NEW n \in Nat, n \in Good PROVE n + 1 \in Good
  <2> SUFFICES ASSUME n + 1 \in 0 .. Len(p)
               PROVE  c[n + 1] \in Path /\ (ValidFSPath(p) => c[n + 1] = Part(n + 1))
    OBVIOUS
  <2>1. n \in 0 .. Len(p) /\ n + 1 \in 1 .. Len(p) /\ n + 1 # 0 /\ (n + 1) - 1 = n
    BY <1>1
  <2>2. c[n + 1] = CleanStep(c[n], p[n + 1]) /\ c[n] \in Path /\ p[n + 1] \in STRING
    BY <1>1, <1>2, <1>5, <2>1
  <2>3. c[n + 1] \in Path
    BY <2>2, StepTyped
  <2>4. ASSUME ValidFSPath(p) PROVE c[n + 1] = Part(n + 1)
    <3>1. p[n + 1] \notin DotSegment
      BY <1>1, <2>1, <2>4 DEF ValidFSPath
    <3>2. c[n + 1] = Append(Part(n), p[n + 1])
      BY <1>5, <2>1, <2>2, <2>4, <3>1, StepTyped
    <3>3. Part(n) \in Seq(STRING) /\ Len(Part(n)) = n
      BY <1>1, <2>1
    <3>4. Append(Part(n), p[n + 1]) = Part(n + 1)
      <4> DEFINE a == Part(n)
                 s == p[n + 1]
      <4>1. a \in Seq(STRING) /\ Len(a) = n /\ s \in STRING
        BY <2>2, <3>3
      <4>2. \A i \in 1 .. n : a[i] = p[i]
        OBVIOUS
      <4> HIDE DEF a
      <4>3. Append(a, s) = [i \in 1 .. (n + 1) |-> IF i <= n THEN a[i] ELSE s]
        BY <4>1
      <4>4. \A i \in 1 .. (n + 1) : (IF i <= n THEN a[i] ELSE s) = p[i]
        BY <4>2
      <4>5. Append(a, s) = [i \in 1 .. (n + 1) |-> p[i]]
        BY <4>3, <4>4
      <4> QED
        BY <4>5 DEF a
    <3> QED
      BY <3>2, <3>4
  <2> QED
    BY <2>3, <2>4
<1>6. Len(p) \in Good
  <2> HIDE DEF Good
  <2> QED
    BY <1>1, <1>4, <1>5, NumbersByInduction
<1>7. Part(Len(p)) = p
  BY <1>1 DEF Path
<1> QED
  BY <1>1, <1>3, <1>6, <1>7

\* The file of a key, and that of a clean one.
LEMMA SavedTyped ==
    ASSUME NEW k \in Path
    PROVE  /\ SavedFile(k) \in File /\ SavedFile(k).path = Clean(k) /\ Clean(k) \in Path
           /\ ValidFSPath(k) => SavedFile(k) = [path |-> k, content |-> k] /\ Clean(k) = k
<1>1. Clean(k) \in Path /\ (ValidFSPath(k) => Clean(k) = k)
  BY CleanPath
<1> QED
  BY <1>1 DEF SavedFile, File

\* The files of clean keys.
LEMMA SavedPlain ==
    ASSUME NEW S \in SUBSET Path, \A k \in S : ValidFSPath(k)
    PROVE  /\ SavedFiles(S) \in SUBSET File /\ Plain(SavedFiles(S))
           /\ SavedFiles(S) = {[path |-> k, content |-> k] : k \in S}
<1>1. \A k \in S : SavedFile(k) = [path |-> k, content |-> k] /\ SavedFile(k) \in File
  BY SavedTyped
<1>2. \A f \in SavedFiles(S) : \E k \in S : f = SavedFile(k)
  BY DEF SavedFiles
<1>3. SavedFiles(S) = {[path |-> k, content |-> k] : k \in S}
  BY <1>1 DEF SavedFiles
<1>4. Plain(SavedFiles(S))
  BY <1>1, <1>2 DEF Plain
<1> QED
  BY <1>1, <1>2, <1>3, <1>4

LEMMA SavedFilesTyped ==
    ASSUME NEW S \in SUBSET Path
    PROVE  SavedFiles(S) \in SUBSET File
BY SavedTyped DEF SavedFiles

\* Plain files are the same when they have the same path, so nothing is written
\* over and there is one outcome.
LEMMA PlainTrees ==
    ASSUME NEW tree \in SUBSET File, NEW new \in SUBSET File, Plain(new)
    PROVE  /\ Outcomes(new) = {new}
           /\ Plain(tree) => Overwrite(tree, new) = tree \cup new /\ Plain(tree \cup new)
<1>1. \A f, g \in new : f.path = g.path => f = g
  BY DEF Plain, File
<1>2. new \in Outcomes(new)
  BY <1>1 DEF Outcomes, OnePerPath
<1>3. ASSUME NEW S \in Outcomes(new) PROVE S = new
  BY <1>1, <1>3 DEF Outcomes
<1>4. ASSUME Plain(tree) PROVE Overwrite(tree, new) = tree \cup new /\ Plain(tree \cup new)
  <2>1. \A f \in tree, g \in new : f.path = g.path => f = g
    BY <1>4 DEF Plain, File
  <2> QED
    BY <1>4, <2>1 DEF Overwrite, Plain
<1> QED
  BY <1>2, <1>3, <1>4

LEMMA TreesTyped ==
    ASSUME NEW tree \in SUBSET File, NEW new \in SUBSET File
    PROVE  /\ Overwrite(tree, new) \in SUBSET File
           /\ \A S \in Outcomes(new) : S \in SUBSET new /\ Overwrite(tree, S) \in SUBSET File
           /\ \A f \in Overwrite(tree, new) : f \in tree \cup new
BY DEF Overwrite, Outcomes

\* What fits lies apart.
LEMMA FitsApart ==
    ASSUME NEW tree, NEW new, Fits(tree, new)
    PROVE  \A f, g \in Overwrite(tree, new) : ~Under(f.path, g.path)
BY DEF Fits, Overwrite

-----------------------------------------------------------------------------
(***************************************************************************)
(* The scheduler of the build is the one of Executor.                      *)
(***************************************************************************)

\* A step within a body leaves the scheduler and the declarations alone.
LEMMA StepsStutter ==
    ASSUME NEW t \in Task,
           \/ \E p \in body[t].todo :
                  SaveInput(t, p) \/ GetInput(t, p) \/ SkipSave(t, p) \/ LockSave(t, p) \/ SetPath(t, p)
           \/ \E k \in saving.keys : Truncate(t, k) \/ Rewrite(t, k)
           \/ UnlockSave(t) \/ RunKustomize(t) \/ WriteJoined(t) \/ StartCommand(t) \/ CommandWrote(t) \/ Replace(t)
    PROVE  UNCHANGED vars /\ UNCHANGED declVars
<1>1. ASSUME NEW p \in body[t].todo,
             SaveInput(t, p) \/ GetInput(t, p) \/ SkipSave(t, p) \/ LockSave(t, p) \/ SetPath(t, p)
      PROVE  UNCHANGED vars /\ UNCHANGED declVars
  BY <1>1 DEF SaveInput, GetInput, SkipSave, LockSave, SetPath, Step, declVars
<1>2. ASSUME NEW k \in saving.keys, Truncate(t, k) \/ Rewrite(t, k)
      PROVE  UNCHANGED vars /\ UNCHANGED declVars
  BY <1>2 DEF Truncate, Rewrite, Step, declVars
<1>3. CASE UnlockSave(t) \/ RunKustomize(t) \/ WriteJoined(t) \/ StartCommand(t)
  BY <1>3 DEF UnlockSave, RunKustomize, WriteJoined, StartCommand, Step, declVars
<1>4. CASE CommandWrote(t) \/ Replace(t)
  BY <1>4 DEF CommandWrote, Replace, Step, declVars
<1> QED
  BY <1>1, <1>2, <1>3, <1>4

\* Every other step is one of the scheduler.
LEMMA NextImplements == [BuildNext]_buildVars => [Next]_vars
<1> SUFFICES ASSUME [BuildNext]_buildVars PROVE [Next]_vars
  OBVIOUS
<1>1. CASE Load \/ LoadFails \/ BuildTerminated \/ UNCHANGED buildVars
  BY <1>1 DEF Load, LoadFails, BuildTerminated, buildVars
<1>2. CASE Schedule
  BY <1>2 DEF Schedule, Next, Worker
<1>3. ASSUME NEW t \in Task, Proceed(t) PROVE [Next]_vars
  <2>1. CASE BeginBody(t)
    BY <2>1 DEF BeginBody, Next, Worker
  <2>2. CASE Write(t) \/ BodySucceeds(t)
    BY <2>2 DEF Write, BodySucceeds, Next, Worker
  <2> QED
    BY <1>3, <2>1, <2>2, StepsStutter DEF Proceed
<1>4. ASSUME NEW t \in Task, BodyFails(t) PROVE [Next]_vars
  BY <1>4 DEF BodyFails, Next, Worker
<1> QED
  BY <1>1, <1>2, <1>3, <1>4 DEF BuildNext

\* The bodies move the scheduler of v1beta1.go only through what a worker
\* goroutine does (begin, return nil, return an error), so every run of Build is
\* one of Executor and what is proved of execute holds of Build.
THEOREM BuildImplementsExecutor == BuildSpec => ImplementsExecutor
<1>1. BuildInit => Init
  BY DEF BuildInit
<1> QED
  BY <1>1, NextImplements, PTL DEF BuildSpec, ImplementsExecutor

LEMMA SchedulerInductive == BuildSpec => []IInv
  BY InitIInv, NextIInv, BuildImplementsExecutor, PTL DEF ImplementsExecutor

-----------------------------------------------------------------------------
(***************************************************************************)
(* The declarations of an accepted task set.                               *)
(***************************************************************************)

\* The types of the declared paths, and what the table of validateTask says of
\* each kind.
LEMMA Declared ==
    ASSUME DeclInv, NEW t \in Task
    PROVE  /\ Inputs(t) \in SUBSET Path /\ OutputOf(t) \in Path
           /\ Kind(t) \in {"Resources", "Helm", "File", "Kustomize", "Join", "Command", "Artifact"}
           /\ Kind(t) \in {"Resources", "Helm", "File"} => Inputs(t) = {}
           /\ Kind(t) \notin {"Command", "Artifact"} => t \in Producers
           /\ t \in Producers <=> OutputOf(t) # NoPath
           /\ t \in Sinks <=> Kind(t) = "Artifact"
           /\ t \in Sinks => t \notin Producers
<1>1. tasks[t] \in Declaration /\ ValidTask(tasks[t])
  BY DEF DeclInv, GraphInv, VerdictInv, Accepted
<1> QED
  BY <1>1 DEF Declaration, ValidTask, Inputs, OutputOf, Kind, Producers, Sinks

\* A sink has one input and a final path.
LEMMA SinkDeclared ==
    ASSUME DeclInv, NEW t \in Sinks
    PROVE  /\ Input(t) \in Path /\ Inputs(t) = {Input(t)}
           /\ ArtifactPath(t) \in Path
<1>1. t \in Task /\ tasks[t] \in Declaration /\ ValidTask(tasks[t]) /\ tasks[t].kind = "Artifact"
  BY DEF DeclInv, GraphInv, VerdictInv, Accepted, Sinks
<1>2. PICK i \in Inputs(t) : Inputs(t) = {i}
  BY <1>1 DEF ValidTask, Inputs
<1>3. Input(t) = i /\ i \in Path
  BY <1>1, <1>2 DEF Declaration, Input, Inputs
<1>4. ArtifactPath(t) = IF tasks[t].sink # NoPath THEN tasks[t].sink ELSE Input(t)
  BY DEF ArtifactPath, Input, Inputs
<1> QED
  BY <1>1, <1>2, <1>3, <1>4 DEF Declaration

\* Outputs, loaded paths and final paths do not overlap.
LEMMA OutputsApart ==
    ASSUME DeclInv, NEW t \in Producers, NEW u \in Producers, t # u
    PROVE  ~Overlap(OutputOf(t), OutputOf(u))
<1>1. PrefixFree([v \in Producers |-> OutputOf(v)])
  BY DEF DeclInv, GraphInv, VerdictInv, Accepted
<1> QED
  BY <1>1 DEF PrefixFree, Overlap

\* What PathsClean says of the inputs, the outputs and the final paths.
LEMMA CleanDeclared ==
    ASSUME DeclInv, PathsClean, NEW t \in Task
    PROVE  /\ \A p \in Inputs(t) : CleanKey(p) /\ Clean(p) = p /\ ~Refused(p)
           /\ t \in Producers => CleanKey(OutputOf(t)) /\ Clean(OutputOf(t)) = OutputOf(t)
           /\ t \in Sinks => /\ Dest(t) = ArtifactPath(t) /\ Dest(t) \in Path
                            /\ CleanKey(Input(t)) /\ Clean(Input(t)) = Input(t) /\ ~Refused(Input(t))
<1>1. /\ \A p \in Inputs(t) : p \in DeclaredPaths /\ p \in Path
      /\ t \in Producers => OutputOf(t) \in DeclaredPaths /\ OutputOf(t) \in Path
      /\ t \in Sinks => ArtifactPath(t) \in DeclaredPaths /\ ArtifactPath(t) \in Path /\ Input(t) \in Inputs(t)
  BY Declared, SinkDeclared DEF DeclaredPaths
<1>2. \A p \in Path : CleanKey(p) => Clean(p) = p /\ ~Refused(p)
  <2> SUFFICES ASSUME NEW p \in Path, CleanKey(p) PROVE Clean(p) = p /\ ~Refused(p)
    OBVIOUS
  <2>1. Clean(p) = p
    BY CleanPath DEF CleanKey
  <2>2. Len(p) > 1 => Len(p) \in DOMAIN p /\ Last(p) = p[Len(p)]
    BY DEF Path, Last
  <2>3. \A i \in DOMAIN p : p[i] # ""
    BY DEF CleanKey, ValidFSPath, DotSegment
  <2> QED
    BY <2>1, <2>2, <2>3 DEF Refused
<1>3. \A p \in DeclaredPaths : CleanKey(p)
  BY DEF PathsClean, CleanKey
<1> QED
  BY <1>1, <1>2, <1>3 DEF Dest

LEMMA SinksApart ==
    ASSUME DeclInv, PathsClean, NEW t \in Sinks, NEW u \in Sinks, t # u
    PROVE  ~Overlap(Dest(t), Dest(u))
<1>1. PrefixFree([v \in Sinks |-> ArtifactPath(v)])
  BY DEF DeclInv, GraphInv, VerdictInv, Accepted
<1>2. ~Overlap(ArtifactPath(t), ArtifactPath(u))
  BY <1>1 DEF PrefixFree, Overlap
<1>3. t \in Task /\ u \in Task
  BY DEF Sinks
<1> QED
  BY <1>2, <1>3, CleanDeclared

LEMMA LoadedApart ==
    ASSUME DeclInv, NEW p \in Loaded(files)
    PROVE  p \in Path /\ \A t \in Producers : ~Overlap(OutputOf(t), p)
<1>1. p \in files /\ files = Files
  BY DEF DeclInv, GraphInv, VerdictInv, Loaded
<1>2. p \in Path
  BY <1>1 DEF DeclInv, GraphInv, Declaration, Files
<1> QED
  BY <1>2, LoadsFromInv DEF DeclInv, LoadsAreDisjoint

\* A task that has begun waited for every producer of its inputs.
LEMMA Quiet ==
    ASSUME IInv, DeclInv, NEW t \in Task, Begun(t), NEW i \in Inputs(t),
           NEW u \in Producers, Overlap(OutputOf(u), i)
    PROVE  worker[u] = "sent"
<1>1. u \in Task
  BY DEF Producers
<1>2. u \in pred[t]
  BY <1>1, EdgesFromInv DEF DeclInv, EdgesFollowData, Inputs
<1>3. worker[t] # "idle"
  BY DEF Begun
<1> QED
  BY <1>2, <1>3, OrderFromInv DEF TopologicalOrder

-----------------------------------------------------------------------------
(***************************************************************************)
(* The store.                                                              *)
(***************************************************************************)

\* What a task has yet to set is no input of a task that has begun.
LEMMA Settled ==
    ASSUME IInv, DeclInv, BodyTypeOK, PlaceInv,
           NEW t \in Task, Begun(t), NEW i \in Inputs(t),
           NEW u \in Task, body[u].at = "set", NEW p \in body[u].todo
    PROVE  ~AtOrUnder(p, i)
<1>1. u \in Producers /\ AtOrUnder(p, OutputOf(u))
  BY DEF PlaceInv
<1>2. p \in Path /\ i \in Path /\ OutputOf(u) \in Path
  BY Declared DEF BodyTypeOK
<1>3. worker[u] # "sent"
  BY DEF PlaceInv, Finished
<1> QED
  BY <1>1, <1>2, <1>3, CommonFile, Quiet

\* No store path lies below another, so Save finds everything at or under p.
LEMMA MatchedAll ==
    ASSUME BodyTypeOK, StoreInv, NEW p \in Path, ~Refused(p)
    PROVE  Matched(p) = {k \in store : AtOrUnder(k, p)}
<1>1. \A k, l \in store : ~Under(k, l)
  BY DEF StoreInv, Coming, BodyTypeOK
<1> QED
  BY <1>1 DEF Matched, AtOrUnder

\* A path of an output nobody has begun to set is new.
LEMMA NewOutput ==
    ASSUME DeclInv, BodyTypeOK, StoreInv,
           NEW t \in Producers, body[t].at # "set", NEW k \in Path, AtOrUnder(k, OutputOf(t)),
           NEW l \in Path, Coming(l)
    PROVE  k # l /\ ~Under(k, l) /\ ~Under(l, k)
<1>0. t \in Task /\ OutputOf(t) \in Path
  BY Declared DEF Producers
<1>1. CASE \E p \in Loaded(files) : AtOrUnder(l, p)
  BY <1>0, <1>1, LoadedApart, ApartFiles
<1>2. CASE \E u \in Producers : body[u].at = "set" /\ AtOrUnder(l, OutputOf(u))
  <2>1. PICK u \in Producers : body[u].at = "set" /\ AtOrUnder(l, OutputOf(u))
    BY <1>2
  <2>2. u \in Task /\ OutputOf(u) \in Path /\ t # u
    BY <2>1, Declared DEF Producers
  <2> QED
    BY <1>0, <2>1, <2>2, OutputsApart, ApartFiles
<1> QED
  BY <1>1, <1>2 DEF StoreInv

\* The steps that set nothing and start setting nothing.
LEMMA StoreKept ==
    ASSUME StoreInv, UNCHANGED <<declVars, store>>,
           \A u \in Task : /\ body'[u].at = "set" <=> body[u].at = "set"
                           /\ body[u].at = "set" => body'[u].todo \subseteq body[u].todo
    PROVE  StoreInv'
<1>1. Producers' = Producers /\ Loaded(files)' = Loaded(files) /\ \A u \in Task : OutputOf(u)' = OutputOf(u)
  BY DEF declVars, Producers, OutputOf
<1>2. \A k : Coming(k)' => Coming(k)
  BY DEF Coming
<1>3. \A u \in Producers : u \in Task
  BY DEF Producers
<1> QED
  BY <1>1, <1>2, <1>3 DEF StoreInv

\* The steps after which a task has an output to set.
LEMMA StoreStarts ==
    ASSUME DeclInv, BodyTypeOK, StoreInv, UNCHANGED <<declVars, store>>,
           NEW t \in Producers, body[t].at # "set",
           NEW out \in SUBSET Path, \A k \in out : AtOrUnder(k, OutputOf(t)), \A k, l \in out : ~Under(k, l),
           body' = [body EXCEPT ![t] = [at |-> "set", todo |-> out]]
    PROVE  StoreInv'
<1>1. Producers' = Producers /\ Loaded(files)' = Loaded(files) /\ \A u \in Task : OutputOf(u)' = OutputOf(u)
  BY DEF declVars, Producers, OutputOf
<1>2. t \in Task /\ body'[t] = [at |-> "set", todo |-> out] /\ \A u \in Task \ {t} : body'[u] = body[u]
  BY DEF BodyTypeOK, Producers
<1>3. \A k : Coming(k)' => Coming(k) \/ k \in out
  BY <1>2 DEF Coming
<1>4. \A u \in Producers : u \in Task
  BY DEF Producers
<1>5. \A k \in out, l \in Path : Coming(l) => k # l /\ ~Under(k, l) /\ ~Under(l, k)
  BY NewOutput
<1>6. \A k \in Path : Coming(k)' =>
          \/ \E p \in Loaded(files) : AtOrUnder(k, p)
          \/ \E u \in Producers : body'[u].at = "set" /\ AtOrUnder(k, OutputOf(u))
  BY <1>2, <1>3, <1>4 DEF StoreInv
<1>7. \A k, l \in Path : Coming(k)' /\ Coming(l)' => ~Under(k, l)
  BY <1>3, <1>5 DEF StoreInv
<1>8. \A u \in Task : body'[u].at = "set" => body'[u].todo \cap store = {}
  <2>1. out \cap store = {}
    BY <1>5 DEF Coming, BodyTypeOK
  <2> QED
    BY <1>2, <2>1 DEF StoreInv
<1> QED
  BY <1>1, <1>4, <1>6, <1>7, <1>8 DEF StoreInv

-----------------------------------------------------------------------------
(***************************************************************************)
(* What a step keeps.                                                      *)
(***************************************************************************)

\* The declarations never change.
LEMMA DeclSame ==
    ASSUME UNCHANGED declVars
    PROVE  /\ Producers' = Producers /\ Sinks' = Sinks /\ Loaded(files)' = Loaded(files)
           /\ \A t \in Task : /\ Inputs(t)' = Inputs(t) /\ Kind(t)' = Kind(t) /\ OutputOf(t)' = OutputOf(t)
                              /\ Input(t)' = Input(t) /\ ArtifactPath(t)' = ArtifactPath(t)
                              /\ Dest(t)' = Dest(t)
           /\ PathsClean' <=> PathsClean
           /\ \A p : ToolWrote(p)' <=> ToolWrote(p)
<1>1. /\ Producers' = Producers /\ Sinks' = Sinks /\ Loaded(files)' = Loaded(files)
      /\ \A t \in Task : /\ Inputs(t)' = Inputs(t) /\ Kind(t)' = Kind(t) /\ OutputOf(t)' = OutputOf(t)
                         /\ Input(t)' = Input(t) /\ ArtifactPath(t)' = ArtifactPath(t)
  BY DEF declVars, Producers, Sinks, Inputs, Kind, OutputOf, Input, ArtifactPath
<1>2. \A t \in Task : Dest(t)' = Dest(t)
  BY <1>1 DEF Dest
<1>3. \A t \in Sinks : t \in Task
  BY DEF Sinks
<1>4. \A t \in Producers : t \in Task
  BY DEF Producers
<1>5. DeclaredPaths' = DeclaredPaths
  BY <1>1, <1>3, <1>4 DEF DeclaredPaths
<1> QED
  BY <1>1, <1>2, <1>3, <1>4, <1>5 DEF PathsClean, ToolWrote

LEMMA NextKeepsDecl == [BuildNext]_buildVars => UNCHANGED <<declVars, pred>>
<1> SUFFICES ASSUME [BuildNext]_buildVars PROVE UNCHANGED <<declVars, pred>>
  OBVIOUS
<1>1. pred' = pred
  <2>1. CASE Dispatcher
    BY <2>1 DEF Dispatcher, Pop, Go, Receive, Stop, Drain, Return
  <2>2. ASSUME NEW t \in Task, Worker(t) PROVE pred' = pred
    BY <2>2 DEF Worker, Begin, Refuse, Succeed, Fail, Send, Record, Exit, Move
  <2> QED
    BY <2>1, <2>2, NextImplements DEF Next, Terminated, vars
<1>2. UNCHANGED declVars
  <2>1. CASE Load \/ LoadFails \/ Schedule \/ BuildTerminated \/ UNCHANGED buildVars
    BY <2>1 DEF Load, LoadFails, Schedule, BuildTerminated, buildVars
  <2>2. ASSUME NEW t \in Task, Proceed(t) \/ BodyFails(t) PROVE UNCHANGED declVars
    <3>1. CASE BeginBody(t) \/ Write(t) \/ BodySucceeds(t) \/ BodyFails(t)
      BY <3>1 DEF BeginBody, Write, BodySucceeds, BodyFails, declVars
    <3> QED
      BY <2>2, <3>1, StepsStutter DEF Proceed
  <2> QED
    BY <2>1, <2>2 DEF BuildNext
<1> QED
  BY <1>1, <1>2

LEMMA DeclKept == DeclInv /\ UNCHANGED <<declVars, pred>> => DeclInv'
<1> SUFFICES ASSUME DeclInv, UNCHANGED <<declVars, pred>> PROVE DeclInv'
  OBVIOUS
<1>1. tasks' = tasks /\ dir' = dir /\ verdict' = verdict /\ pred' = pred /\ files' = files
  BY DEF declVars
<1>2. Edges' = Edges /\ Files' = Files /\ Accepted' = Accepted
  BY <1>1 DEF Edges, InputProducers, Files, Accepted, MatchProducers, Producers, OutputOf, Exists,
              PrefixFree, Sinks, ArtifactPath
<1> QED
  BY <1>1, <1>2 DEF DeclInv, GraphInv, VerdictInv

-----------------------------------------------------------------------------
(***************************************************************************)
(* Any build: the initial states, the loads, and the scheduler.            *)
(***************************************************************************)

LEMMA InitBuildInv == BuildInit => BuildInv
<1> SUFFICES ASSUME BuildInit PROVE BuildInv
  OBVIOUS
<1>1. IInv
  BY InitIInv DEF BuildInit
<1>2. DeclInv
  BY GraphAssumption DEF BuildInit, DeclInv, GraphInv, VerdictInv
<1>3. /\ worker = [t \in Task |-> "idle"] /\ body = [t \in Task |-> [at |-> "none", todo |-> {}]]
      /\ seen = [t \in Task |-> {}] /\ phase = "load" /\ store = {}
      /\ saveMu = NoTask /\ saved = {} /\ broken = {} /\ tmp = {} /\ torn = {}
      /\ saving = [path |-> NoPath, keys |-> {}, open |-> NoPath] /\ NoPath \in Path
  BY EmptySeq, Zenon DEF BuildInit, Init, Path, NoPath
<1>4. deploy \in SUBSET File
  <2>1. \A p \in Previous : [path |-> p, content |-> NoPath] \in File
    BY <1>3, BuildAssumption DEF File
  <2> QED
    BY <2>1 DEF BuildInit
<1>5. BodyTypeOK
  BY <1>3, <1>4 DEF BodyTypeOK
<1>6. \A t \in Task : ~Begun(t) /\ ~Finished(t) /\ body[t].at = "none"
  BY <1>3 DEF Begun, Finished
<1>7. PlaceInv
  BY <1>3, <1>6 DEF PlaceInv
<1>8. StoreInv
  BY <1>3, <1>6 DEF StoreInv, Coming
<1> QED
  BY <1>1, <1>2, <1>5, <1>7, <1>8 DEF BuildInv, FilesInv

\* A step that moves no body, as far as the bodies can see.
LEMMA UnmovedTyped ==
    ASSUME BuildInv, UNCHANGED <<declVars, bodyVars>>,
           \A t \in Task : /\ Begun(t)' <=> Begun(t)
                           /\ worker'[t] = "running" <=> worker[t] = "running"
                           /\ Finished(t)' <=> Finished(t)
    PROVE  FilesInv'
<1> USE DEF BuildInv, FilesInv
<1>1. UNCHANGED <<phase, store, body, seen, saveMu, saved, broken, saving, torn, tmp, deploy>>
  BY DEF bodyVars, saveVars
<1>2. BodyTypeOK'
  BY <1>1 DEF BodyTypeOK
<1>3. PlaceInv'
  BY <1>1, DeclSame DEF PlaceInv
<1>4. StoreInv'
  BY <1>1, StoreKept
<1> QED
  BY <1>2, <1>3, <1>4

\* The scheduler alone neither begins nor ends a body.
LEMMA ScheduleMoves ==
    ASSUME BuildInv, Schedule
    PROVE  /\ UNCHANGED <<declVars, bodyVars>>
           /\ \A t \in Task : /\ Begun(t)' <=> Begun(t)
                              /\ worker'[t] = "running" <=> worker[t] = "running"
                              /\ Finished(t)' <=> Finished(t)
<1>1. worker \in [Task -> WorkerState]
  BY DEF BuildInv, IInv, TypeOK
<1>2. \A t \in Task : \/ worker'[t] = worker[t]
                      \/ worker[t] = "idle" /\ worker'[t] = "spawned"
                      \/ worker[t] = "spawned" /\ worker'[t] = "refused"
                      \/ worker[t] = "succeeded" /\ worker'[t] = "sent"
                      \/ worker[t] = "failed" /\ worker'[t] = "recorded"
                      \/ worker[t] = "refused" /\ worker'[t] = "dropped"
  <2>1. CASE Receive \/ Stop \/ Drain \/ Return
    BY <2>1 DEF Receive, Stop, Drain, Return
  <2>2. ASSUME NEW t \in Task, Pop(t) \/ Exit(t) PROVE worker' = worker
    BY <2>2 DEF Pop, Exit
  <2>3. ASSUME NEW t \in Task, Go(t)
        PROVE  worker[t] = "idle" /\ worker' = [worker EXCEPT ![t] = "spawned"]
    BY <2>3 DEF Go, BuildInv, IInv, DispatchedOnce
  <2>4. ASSUME NEW t \in Task, Refuse(t) \/ Send(t) \/ Record(t)
        PROVE  \/ worker[t] = "spawned" /\ worker' = [worker EXCEPT ![t] = "refused"]
               \/ worker[t] = "succeeded" /\ worker' = [worker EXCEPT ![t] = "sent"]
               \/ worker[t] = "failed" /\ worker' = [worker EXCEPT ![t] = "recorded"]
               \/ worker[t] = "refused" /\ worker' = [worker EXCEPT ![t] = "dropped"]
    BY <2>4 DEF Refuse, Send, Record, Move
  <2> QED
    BY <1>1, <2>1, <2>2, <2>3, <2>4 DEF Schedule, Dispatcher
<1>3. UNCHANGED <<declVars, bodyVars>>
  BY DEF Schedule
<1> QED
  BY <1>2, <1>3 DEF Begun, Finished

\* Build loads the component files before anything runs.
LEMMA LoadTyped == ASSUME BuildInv, Load \/ LoadFails PROVE FilesInv'
<1> USE DEF BuildInv, FilesInv
<1>0. /\ phase = "load" /\ phase' \in {"run", "failed"}
      /\ UNCHANGED <<body, seen, saveMu, saved, broken, saving, torn, tmp, deploy, worker>>
      /\ UNCHANGED declVars
  BY DEF Load, LoadFails, saveVars, vars
<1>1. store = {} /\ \A t \in Task : ~Begun(t) /\ body[t].at = "none"
  BY <1>0 DEF PlaceInv
<1>2. \A t \in Task : worker[t] # "running" /\ ~Finished(t) /\ ~Begun(t)' /\ ~Finished(t)'
  BY <1>0, <1>1 DEF Begun, Finished
<1>3. \/ phase' = "run" /\ store' = UNION {Found(p) : p \in Loaded(files)}
      \/ phase' = "failed" /\ store' = store
  BY DEF Load, LoadFails
<1>4. \A k \in store' : k \in dir /\ \E p \in Loaded(files) : AtOrUnder(k, p)
  BY <1>1, <1>3 DEF Found
<1>5. dir \subseteq Path /\ \A k, l \in dir : ~Under(k, l)
  BY GraphAssumption, BuildAssumption DEF DeclInv
<1>6. BodyTypeOK'
  BY <1>0, <1>4, <1>5 DEF BodyTypeOK
<1>7. PlaceInv'
  BY <1>0, <1>1, <1>2, <1>3 DEF PlaceInv
<1>8. StoreInv'
  BY <1>0, <1>1, <1>4, <1>5, DeclSame DEF StoreInv, Coming
<1> QED
  BY <1>6, <1>7, <1>8

-----------------------------------------------------------------------------
(***************************************************************************)
(* Any build: the bodies.                                                  *)
(***************************************************************************)

\* Only the body of t, and its worker, move.
Only(t) == \A u \in Task \ {t} : body'[u] = body[u] /\ worker'[u] = worker[u]

LEMMA PlaceKept ==
    ASSUME PlaceInv, UNCHANGED declVars, phase = "run", phase' = "run", NEW t \in Task, Only(t),
           Begun(t)', body'[t].at # "none",
           body'[t].at = "inputs" =>
               Kind(t) \in {"Kustomize", "Join", "Command"} /\ body'[t].todo \subseteq Inputs(t),
           body'[t].at = "exec" => Kind(t) = "Command" /\ body'[t].todo = {},
           body'[t].at = "set" => t \in Producers /\ \A p \in body'[t].todo : AtOrUnder(p, OutputOf(t)),
           body'[t].at \in {"remove", "write"} => t \in Sinks,
           Finished(t)' => \/ body'[t].at = "set" /\ body'[t].todo = {}
                           \/ body'[t].at = "exec" /\ t \notin Producers
                           \/ body'[t].at = "write"
    PROVE  PlaceInv'
<1>1. ASSUME NEW u \in Task
      PROVE  /\ body'[u].at = "none" <=> ~Begun(u)'
             /\ body'[u].at = "inputs" =>
                   Kind(u) \in {"Kustomize", "Join", "Command"} /\ body'[u].todo \subseteq Inputs(u)
             /\ body'[u].at = "exec" => Kind(u) = "Command" /\ body'[u].todo = {}
             /\ body'[u].at = "set" =>
                   u \in Producers /\ \A p \in body'[u].todo : AtOrUnder(p, OutputOf(u))
             /\ body'[u].at \in {"remove", "write"} => u \in Sinks
             /\ Finished(u)' =>
                   \/ body'[u].at = "set" /\ body'[u].todo = {}
                   \/ body'[u].at = "exec" /\ u \notin Producers
                   \/ body'[u].at = "write"
  <2>1. CASE u # t
    <3>1. (Begun(u)' <=> Begun(u)) /\ (Finished(u)' <=> Finished(u)) /\ body'[u] = body[u]
      BY <2>1 DEF Only, Begun, Finished
    <3> QED
      BY <3>1 DEF PlaceInv
  <2> QED
    BY <2>1
<1> QED
  BY <1>1, DeclSame DEF PlaceInv

\* What all steps within a body have in common.
LEMMA Stepped ==
    ASSUME BuildInv, NEW t \in Task, worker[t] = "running", NEW next, Step(t, next)
    PROVE  /\ phase = "run" /\ phase' = "run"
           /\ UNCHANGED <<declVars, deploy, worker>>
           /\ body' = [body EXCEPT ![t] = next] /\ body'[t] = next /\ Only(t)
           /\ body[t].at # "none" /\ worker'[t] = "running"
           /\ Begun(t) /\ Begun(t)' /\ ~Finished(t) /\ ~Finished(t)'
<1>1. /\ UNCHANGED <<declVars, deploy, worker, phase>> /\ body' = [body EXCEPT ![t] = next]
  BY DEF Step, vars
<1>2. Begun(t) /\ Begun(t)' /\ ~Finished(t) /\ ~Finished(t)'
  BY <1>1 DEF Begun, Finished
<1> QED
  BY <1>1, <1>2 DEF BuildInv, FilesInv, PlaceInv, BodyTypeOK, Only

LEMMA Dropped ==
    ASSUME BodyTypeOK, NEW t \in Task, NEW p
    PROVE  /\ Drop(t, p).at = body[t].at /\ Drop(t, p).todo = body[t].todo \ {p}
           /\ Drop(t, p) \in [at : {"none", "inputs", "exec", "set", "remove", "write"}, todo : SUBSET Path]
BY DEF BodyTypeOK, Drop

\* A body begins with an output of its own, with its inputs or with its
\* destination.
LEMMA StartTyped ==
    ASSUME DeclInv, NEW t \in Task
    PROVE  \/ Kind(t) = "Artifact" /\ Start(t) = [at |-> "remove", todo |-> {}]
           \/ /\ Kind(t) \in {"Kustomize", "Join", "Command"}
              /\ Start(t) = [at |-> "inputs", todo |-> Inputs(t)]
           \/ /\ Inputs(t) = {} /\ t \in Producers
              /\ Start(t) = [at |-> "set", todo |-> {OutputOf(t)}]
<1>1. CASE Kind(t) = "Artifact"
  BY <1>1 DEF Start
<1>2. CASE Kind(t) \in {"Kustomize", "Join", "Command"}
  BY <1>2 DEF Start
<1>3. CASE Kind(t) \in {"Resources", "Helm", "File"}
  BY <1>3, Declared DEF Start, OutputOf
<1> QED
  BY <1>1, <1>2, <1>3, Declared

LEMMA BeginTyped == ASSUME BuildInv, NEW t \in Task, BeginBody(t) PROVE FilesInv'
<1> USE DEF BuildInv, FilesInv
<1>0. /\ phase = "run"
      /\ UNCHANGED <<phase, store, seen, saveMu, saved, broken, saving, torn, tmp, deploy>>
      /\ UNCHANGED <<declVars, saveVars>>
      /\ worker[t] = "spawned" /\ worker' = [worker EXCEPT ![t] = "running"]
      /\ body' = [body EXCEPT ![t] = Start(t)]
      /\ worker \in [Task -> WorkerState]
  BY DEF BeginBody, Begin, Move, saveVars, IInv, TypeOK
<1>1. ~Begun(t) /\ ~Finished(t) /\ body[t].at = "none" /\ Begun(t)' /\ ~Finished(t)'
  BY <1>0 DEF Begun, Finished, PlaceInv
<1>2. body'[t] = Start(t) /\ worker'[t] = "running" /\ Only(t)
  BY <1>0 DEF BodyTypeOK, Only
<1>3. Inputs(t) \in SUBSET Path /\ OutputOf(t) \in Path
  BY Declared
<1>4. Start(t) \in [at : {"none", "inputs", "exec", "set", "remove", "write"}, todo : SUBSET Path]
  BY <1>3, StartTyped
<1>5. BodyTypeOK'
  BY <1>0, <1>4 DEF BodyTypeOK
<1>6. PlaceInv'
  BY <1>0, <1>1, <1>2, StartTyped, Declared, PlaceKept DEF AtOrUnder
<1>7. StoreInv'
  <2>1. CASE Start(t).at = "set"
    <3> DEFINE out == {OutputOf(t)}
    <3>1. t \in Producers /\ Start(t) = [at |-> "set", todo |-> out]
      BY <2>1, StartTyped
    <3>2. out \in SUBSET Path /\ (\A k \in out : AtOrUnder(k, OutputOf(t))) /\ \A k, l \in out : ~Under(k, l)
      BY <1>3, NotUnderItself DEF AtOrUnder
    <3> HIDE DEF out
    <3> QED
      BY <1>0, <1>1, <3>1, <3>2, StoreStarts
  <2>2. CASE Start(t).at # "set"
    BY <1>0, <1>1, <1>2, <2>2, StoreKept DEF Only
  <2> QED
    BY <2>1, <2>2
<1> QED
  BY <1>5, <1>6, <1>7

\* A body that stays where it stands, with no more to do than before.
LEMMA StaysTyped ==
    ASSUME BuildInv, NEW t \in Task, worker[t] = "running",
           NEW next, Step(t, next), next.at = body[t].at, next.todo \subseteq body[t].todo, body[t].at # "set",
           next \in [at : {"none", "inputs", "exec", "set", "remove", "write"}, todo : SUBSET Path],
           store' = store, seen' \in [Task -> SUBSET File],
           saveMu' \in Task \cup {NoTask}, saved' \in SUBSET Path, broken' \in SUBSET Path,
           saving' \in [path : Path, keys : SUBSET Path, open : Path],
           tmp' \in SUBSET File, torn' \in SUBSET Path
    PROVE  FilesInv'
<1> USE DEF BuildInv, FilesInv
<1>1. /\ phase = "run" /\ phase' = "run"
      /\ UNCHANGED <<declVars, deploy, worker>>
      /\ body' = [body EXCEPT ![t] = next] /\ body'[t] = next /\ Only(t)
      /\ Begun(t)' /\ ~Finished(t)' /\ body[t].at # "none"
  BY Stepped
<1>2. BodyTypeOK'
  BY <1>1 DEF BodyTypeOK
<1>3. PlaceInv'
  BY <1>1, PlaceKept DEF PlaceInv
<1>4. StoreInv'
  BY <1>1, StoreKept DEF Only
<1> QED
  BY <1>2, <1>3, <1>4

\* The keys Save writes for a path are in the store, at or below it.
LEMMA MatchedTyped ==
    ASSUME BodyTypeOK, NEW p
    PROVE  /\ Matched(p) \in SUBSET Path /\ \A k \in Matched(p) : k \in store /\ AtOrUnder(k, p)
           /\ SavedFiles(Matched(p)) \in SUBSET File
<1>1. Matched(p) \in SUBSET Path /\ \A k \in Matched(p) : k \in store /\ AtOrUnder(k, p)
  BY DEF Matched, BodyTypeOK, AtOrUnder
<1> QED
  BY <1>1, SavedFilesTyped

\* kustomize and join read the inputs one by one.
LEMMA ReadInputTyped ==
    ASSUME BuildInv, NEW t \in Task, NEW p \in body[t].todo, SaveInput(t, p) \/ GetInput(t, p)
    PROVE  FilesInv'
<1> USE DEF BuildInv, FilesInv
<1>1. /\ worker[t] = "running" /\ body[t].at = "inputs" /\ Step(t, Drop(t, p))
      /\ UNCHANGED <<store, saveMu, saved, broken, saving, torn, tmp>>
  BY DEF SaveInput, GetInput, In, saveVars
<1>2. seen' \in [Task -> SUBSET File]
  <2>1. CASE SaveInput(t, p)
    <3>1. PICK saves \in Outcomes(SavedFiles(Matched(p))) : seen' = [seen EXCEPT ![t] = Overwrite(@, saves)]
      BY <2>1 DEF SaveInput
    <3>2. Overwrite(seen[t], saves) \in SUBSET File
      <4>1. SavedFiles(Matched(p)) \in SUBSET File /\ seen[t] \in SUBSET File
        BY MatchedTyped DEF BodyTypeOK
      <4> QED
        BY <4>1, TreesTyped
    <3> QED
      BY <3>1, <3>2 DEF BodyTypeOK
  <2>2. CASE GetInput(t, p)
    <3>1. seen' = [seen EXCEPT ![t] = @ \cup {SavedFile(p)}] /\ p \in Path
      BY <2>2 DEF GetInput, BodyTypeOK
    <3>2. SavedFile(p) \in File
      BY <3>1, SavedTyped
    <3> QED
      BY <3>1, <3>2 DEF BodyTypeOK
  <2> QED
    BY <2>1, <2>2
<1> QED
  BY <1>1, <1>2, Dropped, StaysTyped DEF BodyTypeOK

\* What sharedSave does, the mutex in hand or not.
LEMMA SharedSaveTyped ==
    ASSUME BuildInv, NEW t \in Task,
           \/ \E p \in body[t].todo : SkipSave(t, p) \/ LockSave(t, p)
           \/ \E k \in saving.keys : Truncate(t, k) \/ Rewrite(t, k)
           \/ UnlockSave(t)
    PROVE  FilesInv'
<1> USE DEF BuildInv, FilesInv
<1>1. body[t] \in [at : {"none", "inputs", "exec", "set", "remove", "write"}, todo : SUBSET Path]
  BY DEF BodyTypeOK
<1>2. ASSUME NEW p \in body[t].todo, SkipSave(t, p) \/ LockSave(t, p) PROVE FilesInv'
  <2>1. /\ worker[t] = "running" /\ body[t].at = "inputs" /\ Step(t, Drop(t, p))
        /\ UNCHANGED <<store, seen, broken, tmp, torn>>
    BY <1>2 DEF SkipSave, LockSave, In, saveVars
  <2>2. \/ UNCHANGED <<saveMu, saved, saving>>
        \/ /\ saveMu' = t /\ saved' = saved \cup {p}
           /\ saving' = [path |-> p, keys |-> Matched(p), open |-> NoPath]
    BY <1>2 DEF SkipSave, LockSave, saveVars
  <2>3. p \in Path /\ NoPath \in Path
    BY <1>1, EmptySeq DEF Path, NoPath
  <2> QED
    BY <2>1, <2>2, <2>3, Dropped, MatchedTyped, StaysTyped DEF BodyTypeOK
<1>3. ASSUME NEW k \in saving.keys, Truncate(t, k) \/ Rewrite(t, k) PROVE FilesInv'
  <2>1. /\ worker[t] = "running" /\ body[t].at = "inputs" /\ Step(t, body[t])
        /\ UNCHANGED <<store, seen, saveMu, saved, broken>>
    BY <1>3 DEF Truncate, Rewrite, In
  <2>2. \/ tmp' = Overwrite(tmp, {SavedFile(k)}) /\ torn' = torn \cup {Clean(k)} /\ saving' = [saving EXCEPT !.open = k]
        \/ tmp' = tmp /\ torn' = torn \ {Clean(k)} /\ saving' = [saving EXCEPT !.keys = @ \ {k}, !.open = NoPath]
    BY <1>3 DEF Truncate, Rewrite
  <2>3. k \in Path /\ SavedFile(k) \in File /\ Clean(k) \in Path /\ NoPath \in Path
    BY SavedTyped, EmptySeq DEF BodyTypeOK, Path, NoPath
  <2>4. Overwrite(tmp, {SavedFile(k)}) \in SUBSET File
    BY <2>3, TreesTyped DEF BodyTypeOK
  <2>5. saving' \in [path : Path, keys : SUBSET Path, open : Path]
    <3>1. saving \in [path : Path, keys : SUBSET Path, open : Path]
      BY DEF BodyTypeOK
    <3>2. [saving EXCEPT !.open = k] \in [path : Path, keys : SUBSET Path, open : Path]
      BY <2>3, <3>1
    <3>3. [saving EXCEPT !.keys = @ \ {k}, !.open = NoPath] \in [path : Path, keys : SUBSET Path, open : Path]
      <4>1. saving.keys \ {k} \in SUBSET Path
        BY <3>1
      <4> QED
        BY <2>3, <3>1, <4>1
    <3> QED
      BY <2>2, <3>1, <3>2, <3>3
  <2> QED
    BY <1>1, <2>1, <2>2, <2>3, <2>4, <2>5, StaysTyped DEF BodyTypeOK
<1>4. ASSUME UnlockSave(t) PROVE FilesInv'
  BY <1>1, <1>4, StaysTyped DEF UnlockSave, In, BodyTypeOK
<1> QED
  BY <1>2, <1>3, <1>4

\* A body that goes on to set its output.
LEMMA SetsTyped ==
    ASSUME BuildInv, NEW t \in Producers, worker[t] = "running", body[t].at # "set",
           NEW out \in SUBSET Path, \A k \in out : AtOrUnder(k, OutputOf(t)), \A k, l \in out : ~Under(k, l),
           Step(t, [at |-> "set", todo |-> out]),
           UNCHANGED <<store, seen, saveVars>>, tmp' \in SUBSET File
    PROVE  FilesInv'
<1> USE DEF BuildInv, FilesInv
<1>0. t \in Task
  BY DEF Producers
<1>1. /\ phase = "run" /\ phase' = "run"
      /\ UNCHANGED <<declVars, deploy, worker>>
      /\ body' = [body EXCEPT ![t] = [at |-> "set", todo |-> out]]
      /\ body'[t] = [at |-> "set", todo |-> out] /\ Only(t)
      /\ Begun(t)' /\ ~Finished(t)'
  BY <1>0, Stepped
<1>2. BodyTypeOK'
  BY <1>0, <1>1 DEF BodyTypeOK, saveVars
<1>3. PlaceInv'
  BY <1>0, <1>1, PlaceKept
<1>4. StoreInv'
  BY <1>1, StoreStarts
<1> QED
  BY <1>2, <1>3, <1>4

\* kustomize and join go on to their output.
LEMMA InputsReadTyped ==
    ASSUME BuildInv, NEW t \in Task, RunKustomize(t) \/ WriteJoined(t)
    PROVE  FilesInv'
<1> USE DEF BuildInv, FilesInv
<1> DEFINE out == {OutputOf(t)}
<1>1. /\ worker[t] = "running" /\ body[t].at = "inputs" /\ Kind(t) \in {"Kustomize", "Join"}
      /\ Step(t, [at |-> "set", todo |-> out])
      /\ UNCHANGED <<store, seen, saveVars>>
      /\ tmp' = tmp \/ tmp' = Overwrite(tmp, {SavedFile(OutputOf(t))})
  BY DEF RunKustomize, WriteJoined, In, OutputOf
<1>2. t \in Producers /\ OutputOf(t) \in Path
  BY <1>1, Declared
<1>3. tmp' \in SUBSET File
  BY <1>1, <1>2, SavedTyped, TreesTyped DEF BodyTypeOK
<1>4. out \in SUBSET Path /\ (\A k \in out : AtOrUnder(k, OutputOf(t))) /\ \A k, l \in out : ~Under(k, l)
  BY <1>2, NotUnderItself DEF AtOrUnder
<1> HIDE DEF out
<1> QED
  BY <1>1, <1>2, <1>3, <1>4, SetsTyped

\* A command starts.
LEMMA CommandStartsTyped ==
    ASSUME BuildInv, NEW t \in Task, StartCommand(t)
    PROVE  FilesInv'
<1> USE DEF BuildInv, FilesInv
<1>1. /\ worker[t] = "running" /\ body[t].at = "inputs" /\ Kind(t) = "Command"
      /\ seen' = [seen EXCEPT ![t] = UNION {OnDisk(tmp, p) : p \in Inputs(t)}]
      /\ Step(t, [at |-> "exec", todo |-> {}])
      /\ UNCHANGED <<store, tmp, saveVars>>
  BY DEF StartCommand, In
<1>2. /\ phase = "run" /\ phase' = "run"
      /\ UNCHANGED <<declVars, deploy, worker>>
      /\ body' = [body EXCEPT ![t] = [at |-> "exec", todo |-> {}]]
      /\ body'[t] = [at |-> "exec", todo |-> {}] /\ Only(t)
      /\ Begun(t)' /\ ~Finished(t)'
  BY <1>1, Stepped
<1>3. UNION {OnDisk(tmp, p) : p \in Inputs(t)} \in SUBSET File
  BY DEF OnDisk, BodyTypeOK
<1>4. BodyTypeOK'
  BY <1>1, <1>2, <1>3 DEF BodyTypeOK, saveVars
<1>5. PlaceInv'
  BY <1>1, <1>2, PlaceKept
<1>6. StoreInv'
  BY <1>1, <1>2, StoreKept DEF Only
<1> QED
  BY <1>4, <1>5, <1>6

\* What a command leaves at its output: a file, or siblings below it.
LEMMA WrittenTyped ==
    ASSUME DeclInv, NEW t \in Task, NEW out \in Written(t)
    PROVE  /\ out = {OutputOf(t)} \/ out = {OutputOf(t) \o <<n>> : n \in Leaf}
           /\ out \in SUBSET Path /\ \A k \in out : AtOrUnder(k, OutputOf(t))
           /\ SavedFiles(out) \in SUBSET File
<1>1. out = {OutputOf(t)} \/ out = {OutputOf(t) \o <<n>> : n \in Leaf}
  BY DEF Written, OutputOf
<1>2. OutputOf(t) \in Path
  BY Declared
<1>3. \A n \in Leaf : OutputOf(t) \o <<n>> \in Path /\ Under(OutputOf(t) \o <<n>>, OutputOf(t))
  BY <1>2, Siblings, BuildAssumption
<1>4. out \in SUBSET Path /\ \A k \in out : AtOrUnder(k, OutputOf(t))
  BY <1>1, <1>2, <1>3 DEF AtOrUnder
<1> QED
  BY <1>1, <1>4, SavedFilesTyped

\* A command has written its output, and all that lies there is loaded.
LEMMA CommandWroteTyped ==
    ASSUME BuildInv, NEW t \in Task, CommandWrote(t)
    PROVE  FilesInv'
<1> USE DEF BuildInv, FilesInv
<1>1. PICK out \in Written(t) :
          /\ worker[t] = "running" /\ body[t].at = "exec" /\ t \in Producers
          /\ Fits(tmp, SavedFiles(out))
          /\ tmp' = Overwrite(tmp, SavedFiles(out))
          /\ Step(t, [at |-> "set", todo |-> FoundAt(tmp', OutputOf(t))])
          /\ UNCHANGED <<store, seen, saveVars>>
  BY DEF CommandWrote, In, Producers, OutputOf
<1> DEFINE todo == FoundAt(tmp', OutputOf(t))
<1>2. OutputOf(t) \in Path /\ SavedFiles(out) \in SUBSET File
  BY Declared, WrittenTyped
<1>3. tmp' \in SUBSET File
  BY <1>1, <1>2, TreesTyped DEF BodyTypeOK
<1>4. \A f, g \in tmp' : ~Under(f.path, g.path)
  BY <1>1, FitsApart
<1>5. todo \in SUBSET Path /\ (\A k \in todo : AtOrUnder(k, OutputOf(t))) /\ \A k, l \in todo : ~Under(k, l)
  <2>1. CASE ValidFSPath(OutputOf(t))
    <3>1. Clean(OutputOf(t)) = OutputOf(t)
      BY <1>2, <2>1, CleanPath
    <3>2. todo = {f.path : f \in {g \in tmp' : AtOrUnder(g.path, OutputOf(t))}}
      BY <2>1, <3>1 DEF FoundAt, OnDisk
    <3>3. \A f \in tmp' : f.path \in Path
      BY <1>3 DEF File
    <3> QED
      BY <1>4, <3>2, <3>3
  <2>2. CASE ~ValidFSPath(OutputOf(t))
    BY <1>2, <2>2, NotUnderItself DEF FoundAt, AtOrUnder
  <2> QED
    BY <2>1, <2>2
<1> HIDE DEF todo
<1>6. Step(t, [at |-> "set", todo |-> todo])
  BY <1>1 DEF todo
<1> QED
  BY <1>1, <1>3, <1>5, <1>6, SetsTyped

\* A path is set into the store.
LEMMA SetPathTyped ==
    ASSUME BuildInv, NEW t \in Task, NEW p \in body[t].todo, SetPath(t, p)
    PROVE  FilesInv'
<1> USE DEF BuildInv, FilesInv
<1>0. /\ worker[t] = "running" /\ body[t].at = "set"
      /\ store' = store \cup {p}
      /\ Step(t, Drop(t, p))
      /\ UNCHANGED <<seen, saveVars, tmp>>
  BY DEF SetPath, In
<1>1. /\ phase = "run" /\ phase' = "run"
      /\ UNCHANGED <<declVars, deploy, worker>>
      /\ body' = [body EXCEPT ![t] = Drop(t, p)] /\ body'[t] = Drop(t, p) /\ Only(t)
      /\ Begun(t)' /\ ~Finished(t) /\ ~Finished(t)'
  BY <1>0, Stepped
<1>2. body'[t].at = "set" /\ body'[t].todo = body[t].todo \ {p}
  BY <1>0, <1>1, Dropped
<1>3. t \in Producers /\ AtOrUnder(p, OutputOf(t)) /\ p \in Path /\ p \notin store /\ OutputOf(t) \in Path
  BY <1>0, Declared DEF PlaceInv, BodyTypeOK, StoreInv
<1>4. BodyTypeOK'
  BY <1>0, <1>1, <1>3, Dropped DEF BodyTypeOK, saveVars
<1>5. PlaceInv'
  BY <1>0, <1>1, <1>2, PlaceKept DEF PlaceInv
<1>6. StoreInv'
  <2>1. \A k : Coming(k)' => Coming(k)
    BY <1>0, <1>1, <1>2 DEF Coming, Only
  <2>2. ASSUME NEW u \in Task \ {t}, body[u].at = "set" PROVE p \notin body[u].todo
    <3>1. u \in Producers /\ OutputOf(u) \in Path /\ \A k \in body[u].todo : AtOrUnder(k, OutputOf(u))
      BY <2>2, Declared DEF PlaceInv
    <3> QED
      BY <1>3, <3>1, CommonFile, OutputsApart
  <2>3. \A u \in Task : body'[u].at = "set" => body'[u].todo \cap store' = {}
    BY <1>0, <1>1, <1>2, <2>2 DEF StoreInv, Only
  <2>4. \A u \in Task : body'[u].at = "set" <=> body[u].at = "set"
    BY <1>0, <1>1, <1>2 DEF Only
  <2>5. \A u \in Producers : u \in Task
    BY DEF Producers
  <2> QED
    BY <1>1, <2>1, <2>3, <2>4, <2>5, DeclSame DEF StoreInv
<1> QED
  BY <1>4, <1>5, <1>6

\* What a sink writes, wherever it lies.
LEMMA ArtifactsTyped ==
    ASSUME DeclInv, BodyTypeOK, NEW t \in Sinks
    PROVE  Dest(t) \in Path /\ Artifacts(t) \in SUBSET File
<1> DEFINE saves == SavedFiles(Matched(Input(t)))
           root  == Clean(Input(t))
<1>1. Dest(t) \in Path /\ Input(t) \in Path /\ root \in Path
  BY SinkDeclared, CleanPath DEF Dest
<1>2. saves \in SUBSET File
  BY MatchedTyped
<1>3. ASSUME NEW f \in saves, Under(f.path, root)
      PROVE  [path |-> Dest(t) \o Rest(f.path, root), content |-> f.content] \in File
  <2>1. f.path \in Path /\ f.content \in Path
    BY <1>2 DEF File
  <2>2. Dest(t) \o Rest(f.path, root) \in Path
    BY <1>1, <1>3, <2>1, Moved DEF AtOrUnder
  <2> QED
    BY <2>1, <2>2 DEF File
<1>4. [path |-> Dest(t), content |-> Input(t)] \in File
  BY <1>1 DEF File
<1> QED
  BY <1>1, <1>2, <1>3, <1>4 DEF Artifacts

\* A sink has removed its destination.
LEMMA ReplaceTyped ==
    ASSUME BuildInv, NEW t \in Task, Replace(t)
    PROVE  FilesInv'
<1> USE DEF BuildInv, FilesInv
<1>0. /\ worker[t] = "running" /\ body[t].at = "remove"
      /\ deploy' = {f \in deploy : ~AtOrUnder(f.path, Dest(t))}
      /\ body' = [body EXCEPT ![t].at = "write"]
      /\ UNCHANGED <<declVars, worker, phase, store, seen, saveVars, tmp>>
  BY DEF Replace, In, vars
<1>1. /\ Begun(t) /\ Begun(t)' /\ ~Finished(t) /\ ~Finished(t)' /\ phase = "run" /\ phase' = "run"
      /\ body'[t].at = "write" /\ Only(t) /\ t \in Sinks /\ Kind(t) = "Artifact"
  BY <1>0, Declared DEF Begun, Finished, PlaceInv, BodyTypeOK, Only
<1>2. BodyTypeOK'
  <2>1. body[t] \in [at : {"none", "inputs", "exec", "set", "remove", "write"}, todo : SUBSET Path]
    BY DEF BodyTypeOK
  <2>2. [body[t] EXCEPT !.at = "write"] \in
            [at : {"none", "inputs", "exec", "set", "remove", "write"}, todo : SUBSET Path]
    BY <2>1
  <2> QED
    BY <1>0, <2>2 DEF BodyTypeOK, saveVars
<1>3. PlaceInv'
  BY <1>0, <1>1, PlaceKept
<1>4. StoreInv'
  BY <1>0, <1>1, StoreKept DEF Only
<1> QED
  BY <1>2, <1>3, <1>4

\* A body returns nil.
LEMMA SucceedsTyped ==
    ASSUME BuildInv, NEW t \in Task, Write(t) \/ BodySucceeds(t)
    PROVE  FilesInv'
<1> USE DEF BuildInv, FilesInv
<1>0. /\ worker[t] = "running" /\ worker' = [worker EXCEPT ![t] = "succeeded"]
      /\ worker \in [Task -> WorkerState]
      /\ UNCHANGED <<declVars, phase, store, body, saveVars, tmp>>
  BY DEF Write, BodySucceeds, Succeed, Move, IInv, TypeOK, bodyVars
<1>1. \/ /\ body[t].at = "write"
         /\ \E out \in Outcomes(Artifacts(t)) : deploy' = Overwrite(deploy, out)
         /\ seen' = [seen EXCEPT ![t] = SavedFiles(Matched(Input(t)))]
      \/ /\ \/ body[t].at = "set" /\ body[t].todo = {}
            \/ body[t].at = "exec" /\ t \notin Producers
         /\ UNCHANGED <<deploy, seen>>
  BY DEF Write, BodySucceeds, In, bodyVars, Producers
<1>2. /\ Begun(t) /\ Begun(t)' /\ phase = "run" /\ phase' = "run"
      /\ worker'[t] = "succeeded" /\ Only(t) /\ body[t].at \notin {"inputs", "none"}
  BY <1>0, <1>1 DEF Begun, PlaceInv, Only
<1>3. body[t].at = "write" => Artifacts(t) \in SUBSET File /\ SavedFiles(Matched(Input(t))) \in SUBSET File
  BY ArtifactsTyped, MatchedTyped DEF PlaceInv
<1>4. deploy' \in SUBSET File /\ seen' \in [Task -> SUBSET File]
  <2>1. deploy \in SUBSET File /\ seen \in [Task -> SUBSET File]
    BY DEF BodyTypeOK
  <2>2. CASE body[t].at = "write" /\ seen' = [seen EXCEPT ![t] = SavedFiles(Matched(Input(t)))]
    <3>1. seen' \in [Task -> SUBSET File]
      BY <1>3, <2>1, <2>2
    <3>2. CASE \E out \in Outcomes(Artifacts(t)) : deploy' = Overwrite(deploy, out)
      <4>1. PICK out \in Outcomes(Artifacts(t)) : deploy' = Overwrite(deploy, out)
        BY <3>2
      <4>2. Artifacts(t) \in SUBSET File
        BY <1>3, <2>2
      <4>3. Overwrite(deploy, out) \in SUBSET File
        BY <2>1, <4>2, TreesTyped
      <4> QED
        BY <3>1, <4>1, <4>3
    <3> QED
      BY <1>1, <2>1, <3>1, <3>2
  <2> QED
    BY <1>1, <2>1, <2>2
<1>5. BodyTypeOK'
  BY <1>0, <1>4 DEF BodyTypeOK, saveVars
<1>6. PlaceInv'
  BY <1>0, <1>1, <1>2, PlaceKept DEF PlaceInv
<1>7. StoreInv'
  BY <1>0, StoreKept
<1> QED
  BY <1>5, <1>6, <1>7

\* A body returns an error.
LEMMA FailsTyped ==
    ASSUME BuildInv, NEW t \in Task, BodyFails(t)
    PROVE  FilesInv'
<1> USE DEF BuildInv, FilesInv
<1>0. /\ worker[t] = "running" /\ worker' = [worker EXCEPT ![t] = "failed"]
      /\ worker \in [Task -> WorkerState]
      /\ UNCHANGED <<declVars, phase, store, body, seen, saved, tmp, torn>>
  BY DEF BodyFails, Fail, Move, IInv, TypeOK
<1>1. \/ /\ saveMu' = NoTask
         /\ broken' = broken \cup {saving.path}
         /\ saving' = [saving EXCEPT !.keys = {}, !.open = NoPath]
      \/ UNCHANGED <<saveMu, broken, saving>>
  BY DEF BodyFails
<1>2. /\ Begun(t)' /\ ~Finished(t)' /\ phase = "run" /\ phase' = "run" /\ Only(t) /\ body[t].at # "none"
  BY <1>0 DEF Begun, Finished, PlaceInv, Only
<1>3. deploy' \in SUBSET File
  <2>1. deploy \in SUBSET File /\ deploy' \in Partial(t)
    BY DEF BodyFails, BodyTypeOK
  <2>2. CASE In(t, "remove")
    <3>1. Partial(t) = {deploy \ S : S \in SUBSET {f \in deploy : AtOrUnder(f.path, Dest(t))}}
      BY <2>2 DEF Partial, In
    <3> QED
      BY <2>1, <3>1
  <2>3. CASE In(t, "write") /\ ~In(t, "remove")
    <3>1. Artifacts(t) \in SUBSET File
      BY <2>3, ArtifactsTyped DEF In, PlaceInv
    <3> QED
      BY <2>1, <2>3, <3>1, TreesTyped DEF Partial, In
  <2>4. CASE ~In(t, "remove") /\ ~In(t, "write")
    BY <2>1, <2>4 DEF Partial
  <2> QED
    BY <2>2, <2>3, <2>4
<1>4. broken' \in SUBSET Path /\ saveMu' \in Task \cup {NoTask} /\ saving' \in [path : Path, keys : SUBSET Path, open : Path]
  <2>1. NoPath \in Path
    BY EmptySeq DEF Path, NoPath
  <2>2. saving \in [path : Path, keys : SUBSET Path, open : Path]
    BY DEF BodyTypeOK
  <2>3. [saving EXCEPT !.keys = {}, !.open = NoPath] \in [path : Path, keys : SUBSET Path, open : Path]
    BY <2>1, <2>2
  <2> QED
    BY <1>1, <2>2, <2>3 DEF BodyTypeOK
<1>5. BodyTypeOK'
  BY <1>0, <1>3, <1>4 DEF BodyTypeOK
<1>6. PlaceInv'
  BY <1>0, <1>2, PlaceKept DEF PlaceInv
<1>7. StoreInv'
  BY <1>0, StoreKept
<1> QED
  BY <1>5, <1>6, <1>7

LEMMA NextBuildInv == BuildInv /\ [BuildNext]_buildVars => BuildInv'
<1> SUFFICES ASSUME BuildInv, [BuildNext]_buildVars PROVE BuildInv'
  OBVIOUS
<1>1. IInv' /\ DeclInv'
  BY NextImplements, NextIInv, NextKeepsDecl, DeclKept DEF BuildInv
<1>2. CASE Load \/ LoadFails \/ Schedule
  BY <1>1, <1>2, LoadTyped, ScheduleMoves, UnmovedTyped DEF BuildInv
<1>3. CASE BuildTerminated \/ UNCHANGED buildVars
  <2>1. UNCHANGED <<declVars, bodyVars, worker>>
    BY <1>3 DEF BuildTerminated, buildVars, vars
  <2> QED
    BY <1>1, <2>1, UnmovedTyped DEF BuildInv, Begun, Finished
<1>4. ASSUME NEW t \in Task, Proceed(t) \/ BodyFails(t) PROVE FilesInv'
  <2>1. CASE BeginBody(t) \/ Replace(t) \/ Write(t) \/ BodySucceeds(t) \/ BodyFails(t)
    BY <2>1, BeginTyped, ReplaceTyped, SucceedsTyped, FailsTyped
  <2>2. CASE \E p \in body[t].todo : SaveInput(t, p) \/ GetInput(t, p) \/ SetPath(t, p)
    BY <2>2, ReadInputTyped, SetPathTyped
  <2>3. CASE \/ \E p \in body[t].todo : SkipSave(t, p) \/ LockSave(t, p)
             \/ \E k \in saving.keys : Truncate(t, k) \/ Rewrite(t, k)
             \/ UnlockSave(t)
    BY <2>3, SharedSaveTyped
  <2>4. CASE RunKustomize(t) \/ WriteJoined(t) \/ StartCommand(t) \/ CommandWrote(t)
    BY <2>4, InputsReadTyped, CommandStartsTyped, CommandWroteTyped
  <2> QED
    BY <1>4, <2>1, <2>2, <2>3, <2>4 DEF Proceed
<1> QED
  BY <1>1, <1>2, <1>3, <1>4 DEF BuildNext, BuildInv

\* In every reachable state of Build each body stands where its kind and its
\* worker allow, and the store grows by what the tasks declare, for any task sets,
\* however their paths are spelled, any listings and any concurrency.
THEOREM BuildInductive == BuildSpec => []BuildInv
  BY InitBuildInv, NextBuildInv, PTL DEF BuildSpec

\* No Set of the write-once store ever fails because its path is taken, however
\* the paths are spelled.
THEOREM OutputsNeverClashHolds == BuildSpec => []OutputsNeverClash
<1>1. BuildInv => OutputsNeverClash
  BY DEF BuildInv, FilesInv, StoreInv, OutputsNeverClash
<1> QED
  BY <1>1, BuildInductive, PTL

-----------------------------------------------------------------------------
(***************************************************************************)
(* Builds with clean paths: files and keys are the same.                   *)
(***************************************************************************)

\* A clean key has its own file.
LEMMA CleanFile ==
    ASSUME NEW k \in Path, CleanKey(k)
    PROVE  /\ Clean(k) = k /\ SavedFile(k) = [path |-> k, content |-> k]
           /\ SavedFile(k).path = k /\ SavedFile(k).content = k /\ SavedFile(k) \in File
<1>1. SavedFile(k) = [path |-> k, content |-> k] /\ Clean(k) = k /\ SavedFile(k) \in File
  BY SavedTyped DEF CleanKey
<1> QED
  BY <1>1

\* The keys of the store are clean, and their files are a plain tree.
LEMMA StoreClean ==
    ASSUME BodyTypeOK, KeysInv
    PROVE  /\ store \in SUBSET Path /\ \A k \in store : CleanKey(k)
           /\ \A S \in SUBSET store : SavedFiles(S) \in SUBSET File /\ Plain(SavedFiles(S))
<1>1. store \in SUBSET Path /\ \A k \in store : CleanKey(k)
  BY DEF BodyTypeOK, KeysInv, Coming
<1>2. ASSUME NEW S \in SUBSET store PROVE SavedFiles(S) \in SUBSET File /\ Plain(SavedFiles(S))
  BY <1>1, SavedPlain DEF CleanKey
<1> QED
  BY <1>1, <1>2

LEMMA SavedTogether ==
    ASSUME NEW A, NEW B
    PROVE  SavedFiles(A \cup B) = SavedFiles(A) \cup SavedFiles(B)
BY DEF SavedFiles

\* A file of a plain tree, and the files it has below a clean path.
LEMMA PlainFiles ==
    ASSUME NEW tree \in SUBSET File, Plain(tree), NEW P, P = {f.path : f \in tree},
           \A k \in P : k \in Path /\ CleanKey(k)
    PROVE  /\ tree = SavedFiles(P)
           /\ \A p \in Path : CleanKey(p) => OnDisk(tree, p) = SavedFiles({k \in P : AtOrUnder(k, p)})
<1>1. \A f \in tree : f = SavedFile(f.path) /\ f.path \in P
  <2> SUFFICES ASSUME NEW f \in tree PROVE f = SavedFile(f.path) /\ f.path \in P
    OBVIOUS
  <2>1. f.path \in P /\ f \in File /\ f.content = f.path
    BY DEF Plain
  <2>2. SavedFile(f.path) = [path |-> f.path, content |-> f.path]
    BY <2>1, CleanFile
  <2> QED
    BY <2>1, <2>2 DEF File
<1>2. \A k \in P : SavedFile(k) \in tree /\ SavedFile(k).path = k
  <2> SUFFICES ASSUME NEW k \in P PROVE SavedFile(k) \in tree /\ SavedFile(k).path = k
    OBVIOUS
  <2>1. PICK f \in tree : k = f.path
    OBVIOUS
  <2> QED
    BY <1>1, <2>1
<1>3. tree = SavedFiles(P)
  BY <1>1, <1>2 DEF SavedFiles
<1>4. ASSUME NEW p \in Path, CleanKey(p)
      PROVE  OnDisk(tree, p) = SavedFiles({k \in P : AtOrUnder(k, p)})
  <2>1. OnDisk(tree, p) = {f \in tree : AtOrUnder(f.path, p)}
    BY <1>4, CleanFile DEF OnDisk
  <2> QED
    BY <1>1, <1>2, <2>1 DEF SavedFiles
<1> QED
  BY <1>3, <1>4

LEMMA PresentClean ==
    ASSUME BodyTypeOK, KeysInv, TmpInv
    PROVE  /\ Plain(tmp) /\ \A k \in Present : k \in Path /\ CleanKey(k) /\ Coming(k)
           /\ \A p \in Path : CleanKey(p) => OnDisk(tmp, p) = SavedFiles({k \in Present : AtOrUnder(k, p)})
<1>1. Plain(tmp) /\ tmp \in SUBSET File
  BY DEF TmpInv, BodyTypeOK
<1>2. \A k \in Present : k \in Path /\ CleanKey(k) /\ Coming(k)
  <2>1. \A k \in Present : k \in Path
    BY <1>1 DEF Present, File
  <2> QED
    BY <2>1 DEF TmpInv, KeysInv
<1> QED
  BY <1>1, <1>2, PlainFiles DEF Present

\* Clean files that are added to the shared directory.
LEMMA PresentGrows ==
    ASSUME BodyTypeOK, TmpInv, NEW out \in SUBSET Path, \A k \in out : CleanKey(k),
           tmp' = Overwrite(tmp, SavedFiles(out))
    PROVE  Plain(tmp)' /\ Present' = Present \cup out
<1>1. SavedFiles(out) \in SUBSET File /\ Plain(SavedFiles(out))
  BY SavedPlain DEF CleanKey
<1>2. Plain(tmp) /\ tmp \in SUBSET File
  BY DEF TmpInv, BodyTypeOK
<1>3. tmp' = tmp \cup SavedFiles(out) /\ Plain(tmp \cup SavedFiles(out))
  BY <1>1, <1>2, PlainTrees
<1>4. \A k \in out : SavedFile(k).path = k
  BY CleanFile
<1>5. \A f \in SavedFiles(out) : f.path \in out
  BY <1>4 DEF SavedFiles
<1>6. \A k \in out : \E f \in SavedFiles(out) : f.path = k
  BY <1>4 DEF SavedFiles
<1>7. Present' = Present \cup out
  BY <1>3, <1>5, <1>6 DEF Present
<1>8. Plain(tmp')
  BY <1>3
<1> QED
  BY <1>7, <1>8 DEF Plain

\* The concatenation of two paths, its length and its segments.
LEMMA Concatenated ==
    ASSUME NEW p \in Path, NEW r \in Path
    PROVE  /\ Len(p) \in Nat /\ Len(r) \in Nat /\ p \o r \in Path /\ Len(p \o r) = Len(p) + Len(r)
           /\ DOMAIN (p \o r) = 1 .. (Len(p) + Len(r)) /\ DOMAIN p = 1 .. Len(p)
           /\ \A i \in 1 .. Len(p) : (p \o r)[i] = p[i]
           /\ \A i \in 1 .. Len(r) : (p \o r)[Len(p) + i] = r[i]
<1> DEFINE m == Len(p)
           n == Len(r)
<1>1. Len(p) \in Nat /\ Len(r) \in Nat /\ DOMAIN p = 1 .. Len(p) /\ DOMAIN r = 1 .. Len(r)
  BY DEF Path
<1>2. /\ p \o r \in Path
      /\ Len(p \o r) = Len(p) + Len(r)
      /\ \A i \in 1 .. Len(p) + Len(r) : (p \o r)[i] = IF i <= Len(p) THEN p[i] ELSE r[i - Len(p)]
  BY ConcatProperties, Zenon DEF Path
<1> DEFINE x == p \o r
<1>3. x \in Path /\ Len(x) = m + n /\ \A i \in 1 .. (m + n) : x[i] = IF i <= m THEN p[i] ELSE r[i - m]
  BY <1>2
<1>4. m \in Nat /\ n \in Nat
  BY <1>1
<1> HIDE DEF x, m, n
<1>5. DOMAIN x = 1 .. (m + n)
  <2>1. DOMAIN x = 1 .. Len(x)
    BY <1>3 DEF Path
  <2> QED
    BY <1>3, <2>1
<1>6. \A i \in 1 .. m : x[i] = p[i]
  BY <1>3, <1>4
<1>7. \A i \in 1 .. n : x[m + i] = r[i]
  <2> SUFFICES ASSUME NEW i \in 1 .. n PROVE x[m + i] = r[i]
    OBVIOUS
  <2>1. m + i \in 1 .. (m + n) /\ ~(m + i <= m) /\ (m + i) - m = i
    BY <1>4
  <2> QED
    BY <1>3, <2>1
<1> QED
  BY <1>1, <1>3, <1>5, <1>6, <1>7 DEF x, m, n

\* What a command writes into its directory output is clean.
LEMMA CleanBelow ==
    ASSUME NEW p \in Path, CleanKey(p), NEW n \in STRING \ DotSegment
    PROVE  p \o <<n>> \in Path /\ CleanKey(p \o <<n>>)
<1> DEFINE b == <<n>>
           x == p \o b
           m == Len(p)
<1>1. b \in Path /\ Len(b) = 1
  BY Singleton, Zenon DEF Path
<1>2. b[1] = n
  OBVIOUS
<1>3. m \in Nat
  BY DEF Path
<1> HIDE DEF b
<1>4. /\ x \in Path /\ DOMAIN x = 1 .. (m + 1) /\ DOMAIN p = 1 .. m
      /\ \A i \in 1 .. m : x[i] = p[i]
      /\ x[m + 1] = b[1]
  <2>1. /\ x \in Path /\ DOMAIN x = 1 .. (m + Len(b)) /\ DOMAIN p = 1 .. m
        /\ \A i \in 1 .. m : x[i] = p[i]
        /\ \A i \in 1 .. Len(b) : x[m + i] = b[i]
    BY <1>1, Concatenated
  <2> HIDE DEF x, m
  <2> QED
    BY <1>1, <2>1
<1> HIDE DEF x, m
<1>5. \A i \in 1 .. m : p[i] \notin DotSegment
  BY <1>4 DEF CleanKey, ValidFSPath
<1>6. m + 1 \in 1 .. (m + 1) /\ \A i \in 1 .. (m + 1) : i \in 1 .. m \/ i = m + 1
  BY <1>3
<1>7. \A i \in 1 .. (m + 1) : x[i] \notin DotSegment
  BY <1>2, <1>4, <1>5, <1>6
<1>8. x # <<>>
  BY <1>4, <1>6
<1>9. x \in Path /\ CleanKey(x)
  BY <1>4, <1>7, <1>8 DEF CleanKey, ValidFSPath, NoPath
<1> QED
  BY <1>9 DEF x, b

\* Two paths are the same when their segments are.
LEMMA SamePath ==
    ASSUME NEW p \in Path, NEW q \in Path, Len(p) = Len(q), \A i \in 1 .. Len(p) : p[i] = q[i]
    PROVE  p = q
BY DEF Path

\* Moving files keeps them apart.
LEMMA MovedApart ==
    ASSUME NEW d \in Path, NEW p \in Path, NEW k \in Path, NEW l \in Path, Under(k, p), Under(l, p),
           d \o Rest(k, p) = d \o Rest(l, p)
    PROVE  k = l
<1>1. /\ Len(k) \in Nat /\ Len(p) \in Nat /\ Len(l) \in Nat /\ Len(d) \in Nat
      /\ Len(p) < Len(k) /\ Len(p) < Len(l)
      /\ \A i \in 1 .. Len(p) : k[i] = p[i] /\ l[i] = p[i]
  BY UnderExpanded DEF Path
<1>2. ASSUME NEW m \in Path, Len(p) < Len(m)
      PROVE  /\ Rest(m, p) \in Path /\ Len(Rest(m, p)) = Len(m) - Len(p)
             /\ \A i \in 1 .. Len(m) - Len(p) : Rest(m, p)[i] = m[Len(p) + i]
  <2>1. Len(m) \in Nat /\ \A i \in Len(p) + 1 .. Len(m) : m[i] \in STRING
    BY <1>1, ElementOfSeq DEF Path
  <2> QED
    BY <1>1, <1>2, <2>1, SubSeqProperties DEF Rest, Path
<1> DEFINE a == Rest(k, p)
           b == Rest(l, p)
<1>3. /\ a \in Path /\ Len(a) = Len(k) - Len(p) /\ \A i \in 1 .. Len(k) - Len(p) : a[i] = k[Len(p) + i]
      /\ b \in Path /\ Len(b) = Len(l) - Len(p) /\ \A i \in 1 .. Len(l) - Len(p) : b[i] = l[Len(p) + i]
      /\ d \o a = d \o b
  BY <1>1, <1>2
<1> HIDE DEF a, b
<1>4. a = b
  <2> DEFINE m == Len(d)
             n == Len(a)
             o == Len(b)
  <2>0. m \in Nat /\ n \in Nat /\ o \in Nat
    BY <1>3 DEF Path
  <2>1. /\ Len(d \o a) = m + n /\ \A i \in 1 .. n : (d \o a)[m + i] = a[i]
        /\ Len(d \o b) = m + o /\ \A i \in 1 .. o : (d \o b)[m + i] = b[i]
    <3>1. a \in Path /\ b \in Path
      BY <1>3
    <3> QED
      BY <3>1, Concatenated
  <2> HIDE DEF m, n, o
  <2>2. n = o
    BY <1>3, <2>0, <2>1
  <2>3. \A i \in 1 .. n : a[i] = b[i]
    BY <1>3, <2>1, <2>2
  <2> QED
    BY <1>3, <2>2, <2>3, SamePath DEF n, o
<1> DEFINE m == Len(p)
           n == Len(k)
           o == Len(l)
<1>5. /\ m \in Nat /\ n \in Nat /\ o \in Nat /\ m < n /\ m < o
      /\ Len(a) = n - m /\ Len(b) = o - m
      /\ \A i \in 1 .. m : k[i] = p[i] /\ l[i] = p[i]
      /\ \A i \in 1 .. (n - m) : a[i] = k[m + i]
      /\ \A i \in 1 .. (o - m) : b[i] = l[m + i]
  BY <1>1, <1>3
<1> HIDE DEF m, n, o
<1>6. n = o
  BY <1>4, <1>5
<1>7. ASSUME NEW i \in 1 .. n PROVE k[i] = l[i]
  <2>1. CASE i \in 1 .. m
    BY <1>5, <2>1
  <2>2. CASE i \notin 1 .. m
    <3>1. i - m \in 1 .. (n - m) /\ m + (i - m) = i
      BY <1>5, <2>2
    <3> QED
      BY <1>4, <1>5, <1>6, <3>1
  <2> QED
    BY <2>1, <2>2
<1> QED
  BY <1>6, <1>7, SamePath DEF n, o

-----------------------------------------------------------------------------
(***************************************************************************)
(* Builds with clean paths: what a step shows, and what follows.           *)
(***************************************************************************)

LEMMA InitCleanInv ==
    ASSUME BuildInit, PathsClean
    PROVE  CleanInv
<1>1. /\ worker = [t \in Task |-> "idle"] /\ body = [t \in Task |-> [at |-> "none", todo |-> {}]]
      /\ seen = [t \in Task |-> {}] /\ store = {}
      /\ saveMu = NoTask /\ saved = {} /\ broken = {} /\ tmp = {} /\ torn = {} /\ saving.open = NoPath
      /\ deploy = {[path |-> p, content |-> NoPath] : p \in Previous}
  BY DEF BuildInit, Init
<1>2. \A t \in Task : ~Begun(t) /\ ~Finished(t) /\ body[t].at = "none" /\ seen[t] = {} /\ worker[t] # "running"
  BY <1>1 DEF Begun, Finished
<1>3. KeysInv
  BY <1>1, <1>2 DEF KeysInv, Coming
<1>4. SeenInv
  BY <1>2 DEF SeenInv
<1>5. SaveInv
  BY <1>1, <1>2 DEF SaveInv
<1>6. TmpInv
  <2>1. Present = {}
    BY <1>1 DEF Present
  <2> QED
    BY <1>1, <2>1 DEF TmpInv, Plain
<1>7. DeployInv
  <2>1. ASSUME NEW t \in Sinks PROVE At(t) = PreviousAt(t) /\ t \in Task
    BY <1>1, <2>1 DEF At, PreviousAt, Sinks
  <2> QED
    BY <1>2, <2>1 DEF DeployInv
<1> QED
  BY <1>3, <1>4, <1>5, <1>6, <1>7 DEF CleanInv

\* Which keys a path stands for changes with the store alone.
LEMMA MatchedSame ==
    ASSUME store' = store
    PROVE  \A p : Matched(p)' = Matched(p)
BY DEF Matched

LEMMA SeenKept ==
    ASSUME SeenInv, PlaceInv, UNCHANGED declVars, NEW t \in Task, Only(t),
           \A u \in Task \ {t} : seen'[u] = seen[u],
           \A u \in Task \ {t} : Begun(u) => \A i \in Inputs(u) : {k \in store' : AtOrUnder(k, i)} = {k \in store : AtOrUnder(k, i)},
           body'[t].at # "none",
           body'[t].at = "inputs" /\ Kind(t) # "Command" =>
               seen'[t] = SavedFiles({k \in store' : \E p \in Inputs(t) \ body'[t].todo : AtOrUnder(k, p)}),
           body'[t].at \in {"exec", "set"} \/ (body'[t].at = "write" /\ Finished(t)') =>
               seen'[t] = SavedFiles({k \in store' : \E p \in Inputs(t) : AtOrUnder(k, p)})
    PROVE  SeenInv'
<1>1. ASSUME NEW u \in Task
      PROVE  /\ body'[u].at = "none" => seen'[u] = {}
             /\ body'[u].at = "inputs" /\ Kind(u) # "Command" =>
                   seen'[u] = SavedFiles({k \in store' : \E p \in Inputs(u) \ body'[u].todo : AtOrUnder(k, p)})
             /\ body'[u].at \in {"exec", "set"} \/ (body'[u].at = "write" /\ Finished(u)') =>
                   seen'[u] = SavedFiles({k \in store' : \E p \in Inputs(u) : AtOrUnder(k, p)})
  <2>1. CASE u # t
    <3>1. (Finished(u)' <=> Finished(u)) /\ body'[u] = body[u] /\ seen'[u] = seen[u]
      BY <2>1 DEF Only, Finished
    <3>2. CASE ~Begun(u)
      BY <3>1, <3>2 DEF PlaceInv, SeenInv
    <3>3. CASE Begun(u)
      <4>1. /\ {k \in store' : \E p \in Inputs(u) : AtOrUnder(k, p)} =
                   {k \in store : \E p \in Inputs(u) : AtOrUnder(k, p)}
            /\ {k \in store' : \E p \in Inputs(u) \ body[u].todo : AtOrUnder(k, p)} =
                   {k \in store : \E p \in Inputs(u) \ body[u].todo : AtOrUnder(k, p)}
        BY <2>1, <3>3
      <4> QED
        BY <3>1, <4>1 DEF SeenInv, PlaceInv, InputFiles
    <3> QED
      BY <3>2, <3>3
  <2> QED
    BY <2>1
<1>2. ASSUME NEW u \in Task
      PROVE  /\ InputFiles(u)' = {k \in store' : \E p \in Inputs(u) : AtOrUnder(k, p)}
             /\ {k \in store : \E p \in Inputs(u) \ body[u].todo : AtOrUnder(k, p)}' =
                    {k \in store' : \E p \in Inputs(u) \ body'[u].todo : AtOrUnder(k, p)}
             /\ Kind(u)' = Kind(u)
  <2>1. Inputs(u)' = Inputs(u) /\ Kind(u)' = Kind(u)
    BY DeclSame
  <2> QED
    BY <2>1 DEF InputFiles
<1>3. ASSUME NEW u \in Task
      PROVE  /\ body'[u].at = "none" => seen'[u] = {}
             /\ body'[u].at = "inputs" /\ Kind(u)' # "Command" =>
                   seen'[u] = SavedFiles({k \in store : \E p \in Inputs(u) \ body[u].todo : AtOrUnder(k, p)}')
             /\ body'[u].at \in {"exec", "set"} \/ (body'[u].at = "write" /\ Finished(u)') =>
                   seen'[u] = SavedFiles(InputFiles(u)')
  BY <1>1, <1>2
<1> QED
  BY <1>3 DEF SeenInv

\* ... when the store stays as it is.
LEMMA SeenMoves ==
    ASSUME SeenInv, PlaceInv, UNCHANGED declVars, NEW t \in Task, Only(t), store' = store,
           \A u \in Task \ {t} : seen'[u] = seen[u], NEW next, body'[t] = next, next.at # "none",
           next.at = "inputs" /\ Kind(t) # "Command" =>
               seen'[t] = SavedFiles({k \in store : \E p \in Inputs(t) \ next.todo : AtOrUnder(k, p)}),
           next.at \in {"exec", "set"} \/ (next.at = "write" /\ Finished(t)') => seen'[t] = SavedFiles(InputFiles(t))
    PROVE  SeenInv'
<1>1. /\ {k \in store' : \E p \in Inputs(t) \ next.todo : AtOrUnder(k, p)} =
             {k \in store : \E p \in Inputs(t) \ next.todo : AtOrUnder(k, p)}
      /\ {k \in store' : \E p \in Inputs(t) : AtOrUnder(k, p)} = InputFiles(t)
      /\ \A i : {k \in store' : AtOrUnder(k, i)} = {k \in store : AtOrUnder(k, i)}
  BY DEF InputFiles
<1> QED
  BY <1>1, SeenKept

LEMMA SaveKept ==
    ASSUME SaveInv, BodyTypeOK, UNCHANGED <<declVars, saveVars>>, NEW t \in Task, Only(t), saveMu # t,
           Present \subseteq Present', \A p \in saved : Matched(p)' = Matched(p),
           Begun(t)',
           worker'[t] = "running" /\ Kind(t) = "Command" /\ body'[t].at \in {"inputs", "exec"} =>
               \A p \in Inputs(t) \ body'[t].todo : p \in saved \ broken /\ ~Saving(p)
    PROVE  SaveInv'
<1>0. UNCHANGED <<saveMu, saved, broken, saving, torn, tasks>>
  BY DEF saveVars, declVars
<1>1. saveMu # NoTask => saveMu \in Task \ {t}
  BY DEF BodyTypeOK
<1>2. \A p : Saving(p)' <=> Saving(p)
  BY <1>0 DEF Saving
<1>3. saveMu # NoTask => /\ worker'[saveMu] = "running" /\ body'[saveMu].at = "inputs" /\ Kind(saveMu)' = "Command"
                         /\ saving.path \in saved \ broken
                         /\ saving.keys \subseteq Matched(saving.path)
  BY <1>0, <1>1 DEF SaveInv, Only, Kind
<1>4. \A p \in saved : \E u \in Task : Kind(u) = "Command" /\ p \in Inputs(u) /\ Begun(u)'
  <2>1. \A u \in Task : Begun(u) => Begun(u)'
    BY DEF Only, Begun
  <2> QED
    BY <2>1 DEF SaveInv
<1>5. ASSUME NEW u \in Task, worker'[u] = "running", Kind(u) = "Command", body'[u].at \in {"inputs", "exec"}
      PROVE  \A p \in Inputs(u) \ body'[u].todo : p \in saved \ broken /\ (Saving(p) => saveMu = u)
  BY <1>5 DEF SaveInv, Only
<1>6. \A p \in saved \ broken : \A k \in Matched(p) : k \in Present' \/ (Saving(p) /\ k \in saving.keys)
  BY DEF SaveInv
<1>7. saving.open # NoPath => saving.open \in saving.keys \cap torn
  BY DEF SaveInv
<1>8. saving.path \in saved => Matched(saving.path)' = Matched(saving.path)
  BY <1>0
<1> QED
  BY <1>0, <1>2, <1>3, <1>4, <1>5, <1>6, <1>7, <1>8, DeclSame DEF SaveInv

LEMMA TmpKept ==
    ASSUME TmpInv, UNCHANGED <<declVars, saveVars>>,
           Plain(tmp)', Present \subseteq Present', \A k \in Present : Coming(k) => Coming(k)',
           \A k \in Present' \ Present : Coming(k)' /\ ToolWrote(k)
    PROVE  TmpInv'
<1>1. UNCHANGED <<saveMu, saved, broken, saving, torn>>
  BY DEF saveVars
<1>2. \A p : Saving(p)' <=> Saving(p)
  BY <1>1 DEF Saving
<1> QED
  BY <1>1, <1>2, DeclSame DEF TmpInv

\* ... when the shared directory stays as it is.
LEMMA TmpSame ==
    ASSUME TmpInv, UNCHANGED <<declVars, saveVars, tmp>>, \A k \in Present : Coming(k) => Coming(k)'
    PROVE  TmpInv' /\ Present' = Present
<1>1. Present' = Present /\ Plain(tmp)'
  BY DEF Present, TmpInv, Plain
<1> QED
  BY <1>1, TmpKept

LEMMA DeployKept ==
    ASSUME DeployInv, DeclInv, UNCHANGED <<declVars, deploy>>, NEW t \in Task, Only(t),
           \A u \in Sinks : Begun(u) => \A i \in Inputs(u) : Matched(i)' = Matched(i) /\ (i \in store' <=> i \in store),
           Begun(t)', worker'[t] = "running" /\ body'[t].at = "write" => worker[t] = "running" /\ body[t].at = "write",
           t \in Sinks /\ Finished(t)' => Finished(t)
    PROVE  DeployInv'
<1>1. \A u \in Sinks : u \in Task
  BY DEF Sinks
<1>2. \A u \in Task : At(u)' = At(u) /\ PreviousAt(u)' = PreviousAt(u)
  BY DeclSame DEF At, PreviousAt
<1>3. ASSUME NEW u \in Sinks, Finished(u) PROVE Artifacts(u)' = Artifacts(u)
  <2>1. Begun(u)
    BY <1>3 DEF Begun, Finished
  <2>2. Input(u)' = Input(u) /\ Dest(u)' = Dest(u) /\ ArtifactPath(u)' = ArtifactPath(u)
    BY <1>1, DeclSame
  <2>3. Matched(Input(u))' = Matched(Input(u)) /\ (Input(u) \in store' <=> Input(u) \in store)
    BY <2>1, <2>2, SinkDeclared
  <2> QED
    BY <2>2, <2>3 DEF Artifacts
<1>4. ASSUME NEW u \in Sinks
      PROVE  /\ ~Begun(u)' => At(u) = PreviousAt(u)
             /\ worker'[u] = "running" /\ body'[u].at = "write" => At(u) = {}
             /\ Finished(u)' => At(u) = Artifacts(u) /\ Finished(u)
  <2>1. CASE u = t
    BY <1>4, <2>1 DEF DeployInv
  <2>2. CASE u # t
    <3>1. (Begun(u)' <=> Begun(u)) /\ (Finished(u)' <=> Finished(u)) /\ body'[u] = body[u] /\ worker'[u] = worker[u]
      BY <1>1, <2>2 DEF Only, Begun, Finished
    <3> QED
      BY <3>1 DEF DeployInv
  <2> QED
    BY <2>1, <2>2
<1> QED
  BY <1>1, <1>2, <1>3, <1>4, DeclSame DEF DeployInv

-----------------------------------------------------------------------------
(***************************************************************************)
(* Builds with clean paths: the loads, the scheduler, and the start of a   *)
(* body.                                                                   *)
(***************************************************************************)

LEMMA LoadKeeps ==
    ASSUME BuildInv, BuildInv', CleanInv, Load \/ LoadFails
    PROVE  CleanInv'
<1> USE DEF BuildInv, FilesInv, CleanInv
<1>0. /\ phase = "load"
      /\ UNCHANGED <<body, seen, saveMu, saved, broken, saving, torn, tmp, deploy, worker>>
      /\ UNCHANGED declVars
  BY DEF Load, LoadFails, saveVars, vars
<1>1. store = {} /\ \A t \in Task : ~Begun(t) /\ body[t].at = "none"
  BY <1>0 DEF PlaceInv
<1>2. \A t \in Task : worker[t] # "running" /\ ~Finished(t) /\ ~Begun(t)' /\ ~Finished(t)'
  BY <1>0, <1>1 DEF Begun, Finished
<1>3. saved = {} /\ saveMu = NoTask
  BY <1>0, <1>1, <1>2 DEF SaveInv, BodyTypeOK
<1>4. KeysInv'
  <2>1. \A k \in store' : k \in dir
    BY <1>1 DEF Load, LoadFails, Found
  <2>2. \A k \in dir : CleanKey(k)
    BY BuildAssumption DEF DeclInv, CleanKey, NoPath
  <2> QED
    BY <1>0, <1>1, <2>1, <2>2 DEF KeysInv, Coming
<1>5. SeenInv'
  BY <1>0, <1>1 DEF SeenInv
<1>6. Present = {} /\ tmp = {} /\ torn = {}
  BY <1>0, <1>1, <1>3 DEF TmpInv, Coming, Present
<1>7. SaveInv' /\ TmpInv'
  <2>1. Present' = {} /\ Plain(tmp)'
    BY <1>0, <1>6 DEF Present, Plain
  <2>2. saving.open = NoPath
    BY <1>6 DEF SaveInv
  <2> QED
    BY <1>0, <1>2, <1>3, <1>6, <2>1, <2>2 DEF SaveInv, TmpInv
<1>8. DeployInv'
  <2>1. \A t \in Sinks : t \in Task
    BY DEF Sinks
  <2>2. \A t \in Task : At(t)' = At(t) /\ PreviousAt(t)' = PreviousAt(t)
    BY <1>0, DeclSame DEF At, PreviousAt
  <2> QED
    BY <1>0, <1>1, <1>2, <2>1, <2>2, DeclSame DEF DeployInv
<1> QED
  BY <1>0, <1>4, <1>5, <1>7, <1>8, DeclSame

\* A step that moves no body, as far as the bodies can see.
LEMMA Unmoved ==
    ASSUME BuildInv, CleanInv, UNCHANGED <<declVars, bodyVars>>,
           \A t \in Task : /\ Begun(t)' <=> Begun(t)
                           /\ worker'[t] = "running" <=> worker[t] = "running"
                           /\ Finished(t)' <=> Finished(t)
    PROVE  CleanInv'
<1> USE DEF BuildInv, FilesInv, CleanInv
<1>0. /\ UNCHANGED <<phase, store, body, seen, saveMu, saved, broken, saving, torn, tmp, deploy>>
      /\ UNCHANGED <<tasks, dir, verdict, files>> /\ UNCHANGED <<declVars, saveVars>>
  BY DEF bodyVars, saveVars, declVars
<1>1. KeysInv'
  BY <1>0 DEF KeysInv, Coming
<1>2. SeenInv'
  BY <1>0 DEF SeenInv, InputFiles, Inputs, Kind
<1>3. \A p : (Saving(p)' <=> Saving(p)) /\ Matched(p)' = Matched(p)
  BY <1>0, MatchedSame DEF Saving
<1>4. TmpInv' /\ Present' = Present
  BY <1>0, TmpSame DEF Coming
<1>5. SaveInv'
  <2>1. saveMu # NoTask => saveMu \in Task
    BY DEF BodyTypeOK
  <2> QED
    BY <1>0, <1>3, <1>4, <2>1 DEF SaveInv, Inputs, Kind
<1>6. DeployInv'
  <2>1. \A t \in Sinks : t \in Task
    BY DEF Sinks
  <2>2. \A t \in Task : At(t)' = At(t) /\ PreviousAt(t)' = PreviousAt(t) /\ Artifacts(t)' = Artifacts(t)
    BY <1>0, <1>3, DeclSame DEF At, PreviousAt, Artifacts
  <2> QED
    BY <1>0, <2>1, <2>2, DeclSame DEF DeployInv
<1> QED
  BY <1>0, <1>1, <1>2, <1>4, <1>5, <1>6, DeclSame

LEMMA BeginKeeps ==
    ASSUME BuildInv, CleanInv, NEW t \in Task, BeginBody(t)
    PROVE  CleanInv'
<1> USE DEF BuildInv, FilesInv, CleanInv
<1>0. /\ UNCHANGED <<phase, store, seen, saveMu, saved, broken, saving, torn, tmp, deploy>>
      /\ UNCHANGED <<declVars, saveVars>>
      /\ worker[t] = "spawned" /\ worker' = [worker EXCEPT ![t] = "running"]
      /\ body' = [body EXCEPT ![t] = Start(t)]
      /\ worker \in [Task -> WorkerState]
  BY DEF BeginBody, Begin, Move, saveVars, IInv, TypeOK
<1>1. ~Begun(t) /\ ~Finished(t) /\ body[t].at = "none" /\ Begun(t)' /\ ~Finished(t)'
  BY <1>0 DEF Begun, Finished, PlaceInv
<1>2. body'[t] = Start(t) /\ worker'[t] = "running" /\ Only(t)
  BY <1>0 DEF BodyTypeOK, Only
<1>3. \A k : Coming(k) => Coming(k)'
  BY <1>0, <1>1, <1>2 DEF Coming, Only
<1>4. KeysInv'
  <2>1. Start(t).at = "set" => t \in Producers /\ Start(t).todo = {OutputOf(t)}
    BY StartTyped
  <2>2. t \in Producers => CleanKey(OutputOf(t))
    BY CleanDeclared
  <2>3. \A k : Coming(k)' => Coming(k) \/ (Start(t).at = "set" /\ k \in Start(t).todo)
    BY <1>0, <1>2 DEF Coming, Only
  <2> QED
    BY <2>1, <2>2, <2>3 DEF KeysInv
<1>5. SeenInv'
  <2>1. seen'[t] = {} /\ \A u \in Task : seen'[u] = seen[u]
    BY <1>0, <1>1 DEF SeenInv
  <2>2. SavedFiles({}) = {}
    BY DEF SavedFiles
  <2>3. CASE Inputs(t) = {}
    <3>1. /\ {k \in store' : \E p \in Inputs(t) : AtOrUnder(k, p)} = {}
          /\ {k \in store' : \E p \in Inputs(t) \ body'[t].todo : AtOrUnder(k, p)} = {}
      BY <2>3
    <3>2. body'[t].at # "none"
      BY <1>2, StartTyped
    <3> QED
      BY <1>0, <1>2, <2>1, <2>2, <3>1, <3>2, SeenKept
  <2>4. CASE Inputs(t) # {}
    <3>1. \/ body'[t].at = "remove"
          \/ body'[t].at = "inputs" /\ body'[t].todo = Inputs(t)
      BY <1>2, <2>4, StartTyped
    <3>2. body'[t].at = "inputs" => {k \in store' : \E p \in Inputs(t) \ body'[t].todo : AtOrUnder(k, p)} = {}
      BY <3>1
    <3> QED
      BY <1>0, <1>2, <2>1, <2>2, <3>1, <3>2, SeenKept
  <2> QED
    BY <2>3, <2>4
<1>6. TmpInv' /\ Present' = Present
  BY <1>0, <1>3, TmpSame
<1>7. SaveInv'
  <2>1. saveMu # t /\ \A p : Matched(p)' = Matched(p)
    BY <1>0, TaskAssumption, MatchedSame DEF SaveInv
  <2> QED
    BY <1>0, <1>1, <1>2, <1>6, <2>1, StartTyped, SaveKept
<1>8. DeployInv'
  <2>1. \A p : Matched(p)' = Matched(p)
    BY <1>0, MatchedSame
  <2> QED
    BY <1>0, <1>1, <1>2, <2>1, StartTyped, DeployKept
<1> QED
  BY <1>0, <1>4, <1>5, <1>6, <1>7, <1>8, DeclSame

-----------------------------------------------------------------------------
(***************************************************************************)
(* Builds with clean paths: the bodies.                                    *)
(***************************************************************************)

\* A body moves on, and its tool may have left files in the shared directory.
LEMMA MovesOn ==
    ASSUME BuildInv, CleanInv, NEW t \in Task, worker[t] = "running", NEW next, Step(t, next),
           UNCHANGED <<store, saveVars>>, saveMu # t,
           NEW out \in SUBSET Path, \A k \in out : CleanKey(k) /\ ToolWrote(k) /\ Coming(k)',
           tmp' = Overwrite(tmp, SavedFiles(out)),
           body[t].at # "set", next.at # "write",
           next.at = "set" => \A k \in next.todo : CleanKey(k),
           Kind(t) = "Command" /\ next.at \in {"inputs", "exec"} =>
               \A p \in Inputs(t) \ next.todo : p \in saved \ broken /\ ~Saving(p),
           SeenInv'
    PROVE  CleanInv'
<1> USE DEF BuildInv, FilesInv, CleanInv
<1>1. /\ UNCHANGED <<declVars, deploy, worker>>
      /\ body' = [body EXCEPT ![t] = next] /\ body'[t] = next /\ Only(t)
      /\ Begun(t)' /\ ~Finished(t) /\ ~Finished(t)'
  BY Stepped
<1>2. \A k : Coming(k) => Coming(k)'
  BY <1>1 DEF Coming, Only
<1>3. KeysInv'
  <2>1. \A k : Coming(k)' => Coming(k) \/ (next.at = "set" /\ k \in next.todo)
    BY <1>1 DEF Coming, Only
  <2> QED
    BY <2>1 DEF KeysInv
<1>4. Plain(tmp)' /\ Present' = Present \cup out
  BY PresentGrows
<1>5. TmpInv'
  BY <1>1, <1>2, <1>4, TmpKept
<1>6. \A p : Matched(p)' = Matched(p)
  BY MatchedSame
<1>7. SaveInv'
  BY <1>1, <1>4, <1>6, SaveKept
<1>8. DeployInv'
  BY <1>1, <1>6, DeployKept
<1> QED
  BY <1>1, <1>3, <1>5, <1>7, <1>8, DeclSame

LEMMA WritesNothing == tmp = Overwrite(tmp, SavedFiles({}))
BY DEF Overwrite, SavedFiles

\* kustomize saves its inputs, and join gets them, one by one.
LEMMA ReadInputKeeps ==
    ASSUME BuildInv, CleanInv, NEW t \in Task, NEW p \in body[t].todo, SaveInput(t, p) \/ GetInput(t, p)
    PROVE  CleanInv'
<1> USE DEF BuildInv, FilesInv, CleanInv
<1>0. /\ worker[t] = "running" /\ body[t].at = "inputs" /\ Kind(t) \in {"Kustomize", "Join"}
      /\ Step(t, Drop(t, p))
      /\ UNCHANGED <<store, saveVars, tmp>>
      /\ seen \in [Task -> SUBSET File]
  BY DEF SaveInput, GetInput, In, BodyTypeOK
<1>1. /\ UNCHANGED <<declVars, worker>> /\ body'[t] = Drop(t, p) /\ Only(t)
      /\ ~Finished(t)'
  BY <1>0, Stepped
<1>2. body'[t].at = "inputs" /\ body'[t].todo = body[t].todo \ {p} /\ Drop(t, p) = body'[t]
  BY <1>0, <1>1, Dropped
<1>3. p \in Inputs(t) /\ p \in Path /\ body[t].todo \subseteq Inputs(t) /\ ~Refused(p)
  BY <1>0, CleanDeclared DEF PlaceInv, BodyTypeOK
<1>4. Matched(p) = {k \in store : AtOrUnder(k, p)}
  BY <1>3, MatchedAll
<1> DEFINE old == {k \in store : \E i \in Inputs(t) \ body[t].todo : AtOrUnder(k, i)}
           new == {k \in store : \E i \in Inputs(t) \ body'[t].todo : AtOrUnder(k, i)}
<1>5. new = old \cup Matched(p)
  <2>1. Inputs(t) \ body'[t].todo = (Inputs(t) \ body[t].todo) \cup {p}
    BY <1>2, <1>3
  <2> QED
    BY <1>4, <2>1
<1>6. seen[t] = SavedFiles(old) /\ old \in SUBSET store /\ Matched(p) \in SUBSET store
  BY <1>0, <1>4 DEF SeenInv
<1> HIDE DEF old, new
<1>7. /\ seen[t] \in SUBSET File /\ Plain(seen[t])
      /\ SavedFiles(Matched(p)) \in SUBSET File /\ Plain(SavedFiles(Matched(p)))
  BY <1>6, StoreClean
<1>8. seen' = [seen EXCEPT ![t] = SavedFiles(new)]
  <2>1. CASE SaveInput(t, p)
    <3>1. PICK saves \in Outcomes(SavedFiles(Matched(p))) : seen' = [seen EXCEPT ![t] = Overwrite(@, saves)]
      BY <2>1 DEF SaveInput
    <3> DEFINE files_ == SavedFiles(Matched(p))
    <3>2. saves = files_ /\ Overwrite(seen[t], saves) = seen[t] \cup saves
      <4>1. files_ \in SUBSET File /\ Plain(files_) /\ seen[t] \in SUBSET File /\ Plain(seen[t])
        BY <1>7
      <4>2. saves \in Outcomes(files_)
        OBVIOUS
      <4> HIDE DEF files_
      <4>3. Outcomes(files_) = {files_} /\ Overwrite(seen[t], files_) = seen[t] \cup files_
        BY <4>1, PlainTrees
      <4> QED
        BY <4>2, <4>3
    <3>3. Overwrite(seen[t], saves) = SavedFiles(new)
      BY <1>5, <1>6, <3>2, SavedTogether
    <3> QED
      BY <3>1, <3>3
  <2>2. CASE GetInput(t, p)
    <3>1. seen' = [seen EXCEPT ![t] = @ \cup {SavedFile(p)}] /\ p \in store
      BY <2>2 DEF GetInput
    <3>2. Matched(p) = {p}
      BY <1>3, <3>1 DEF Matched
    <3>3. SavedFiles({p}) = {SavedFile(p)}
      BY DEF SavedFiles
    <3>4. seen[t] \cup {SavedFile(p)} = SavedFiles(new)
      BY <1>5, <1>6, <3>2, <3>3, SavedTogether
    <3> QED
      BY <3>1, <3>4
  <2> QED
    BY <2>1, <2>2
<1>9. SeenInv'
  <2>1. seen'[t] = SavedFiles(new) /\ \A u \in Task \ {t} : seen'[u] = seen[u]
    BY <1>0, <1>8
  <2> DEFINE next == Drop(t, p)
  <2>2. next.at = "inputs" /\ body'[t] = next /\ store' = store
    BY <1>0, <1>1, <1>2
  <2>3. seen'[t] = SavedFiles({k \in store : \E i \in Inputs(t) \ next.todo : AtOrUnder(k, i)})
    BY <1>2, <2>1 DEF new
  <2> HIDE DEF next
  <2> QED
    BY <1>1, <2>1, <2>2, <2>3, SeenMoves
<1>10. saveMu # t
  BY <1>0, TaskAssumption DEF SaveInv
<1>11. tmp' = Overwrite(tmp, SavedFiles({}))
  BY <1>0, WritesNothing
<1> QED
  BY <1>0, <1>2, <1>9, <1>10, <1>11, MovesOn

\* kustomize and join go on to their output.
LEMMA InputsReadKeeps ==
    ASSUME BuildInv, CleanInv, NEW t \in Task, RunKustomize(t) \/ WriteJoined(t)
    PROVE  CleanInv'
<1> USE DEF BuildInv, FilesInv, CleanInv
<1> DEFINE out == {OutputOf(t)}
           next == [at |-> "set", todo |-> out]
<1>0. /\ worker[t] = "running" /\ body[t].at = "inputs" /\ body[t].todo = {}
      /\ Kind(t) \in {"Kustomize", "Join"} /\ Step(t, next)
      /\ UNCHANGED <<store, seen, saveVars>>
      /\ \/ tmp' = tmp
         \/ Kind(t) = "Join" /\ tmp' = Overwrite(tmp, {SavedFile(OutputOf(t))})
  BY DEF RunKustomize, WriteJoined, In, OutputOf
<1>1. /\ UNCHANGED <<declVars, worker>> /\ body'[t] = next /\ Only(t) /\ ~Finished(t)'
  BY <1>0, Stepped
<1>2. t \in Producers /\ out \in SUBSET Path /\ CleanKey(OutputOf(t)) /\ Clean(OutputOf(t)) = OutputOf(t)
  BY <1>0, Declared, CleanDeclared
<1>3. SeenInv'
  <2>1. seen[t] = SavedFiles({k \in store : \E i \in Inputs(t) \ body[t].todo : AtOrUnder(k, i)})
    BY <1>0 DEF SeenInv
  <2>2. Inputs(t) \ body[t].todo = Inputs(t)
    BY <1>0
  <2>3. seen'[t] = SavedFiles(InputFiles(t)) /\ seen' = seen /\ store' = store
    BY <1>0, <2>1, <2>2 DEF InputFiles
  <2>4. next.at = "set" /\ body'[t] = next
    BY <1>1
  <2> HIDE DEF next
  <2> QED
    BY <1>1, <2>3, <2>4, SeenMoves
<1>4. saveMu # t
  BY <1>0, TaskAssumption DEF SaveInv
<1>5. CASE tmp' = tmp
  <2>1. tmp' = Overwrite(tmp, SavedFiles({}))
    BY <1>5, WritesNothing
  <2> QED
    BY <1>0, <1>2, <1>3, <1>4, <2>1, MovesOn
<1>6. CASE Kind(t) = "Join" /\ tmp' = Overwrite(tmp, {SavedFile(OutputOf(t))})
  <2>1. SavedFiles(out) = {SavedFile(OutputOf(t))}
    BY DEF SavedFiles
  <2>2. \A k \in out : ToolWrote(k) /\ Coming(k)' /\ CleanKey(k)
    BY <1>1, <1>2, <1>6 DEF ToolWrote, Coming, AtOrUnder
  <2>3. tmp' = Overwrite(tmp, SavedFiles(out))
    BY <1>6, <2>1
  <2> HIDE DEF out
  <2> QED
    BY <1>0, <1>2, <1>3, <1>4, <2>2, <2>3, MovesOn
<1> QED
  BY <1>0, <1>5, <1>6

\* A command that has its inputs in the shared directory finds there what the
\* store holds of them, no more and no less.
LEMMA SharedIsStore ==
    ASSUME BuildInv, CleanInv, NEW t \in Task, worker[t] = "running", Kind(t) = "Command",
           body[t].at \in {"inputs", "exec"}, body[t].todo \cap Inputs(t) = {}, saveMu # t
    PROVE  UNION {OnDisk(tmp, p) : p \in Inputs(t)} = SavedFiles(InputFiles(t))
<1> USE DEF BuildInv, FilesInv, CleanInv
<1>1. Begun(t) /\ \A p \in Inputs(t) : p \in Path /\ CleanKey(p) /\ ~Refused(p)
  BY Declared, CleanDeclared DEF Begun
<1>2. ASSUME NEW k \in Present, NEW p \in Inputs(t), AtOrUnder(k, p) PROVE k \in store
  BY <1>1, <1>2, Settled DEF TmpInv, Coming
<1>3. ASSUME NEW k \in store, NEW p \in Inputs(t), AtOrUnder(k, p) PROVE k \in Present
  <2>1. p \in saved \ broken /\ ~Saving(p)
    BY <1>3 DEF SaveInv
  <2>2. k \in Matched(p)
    BY <1>1, <1>3, MatchedAll
  <2> QED
    BY <2>1, <2>2 DEF SaveInv
<1>4. \A p \in Inputs(t) : OnDisk(tmp, p) = SavedFiles({k \in store : AtOrUnder(k, p)})
  <2> SUFFICES ASSUME NEW p \in Inputs(t)
               PROVE  OnDisk(tmp, p) = SavedFiles({k \in store : AtOrUnder(k, p)})
    OBVIOUS
  <2>1. OnDisk(tmp, p) = SavedFiles({k \in Present : AtOrUnder(k, p)})
    BY <1>1, PresentClean
  <2>2. {k \in Present : AtOrUnder(k, p)} = {k \in store : AtOrUnder(k, p)}
    BY <1>2, <1>3
  <2> QED
    BY <2>1, <2>2
<1>5. \A f : f \in SavedFiles(InputFiles(t)) <=> \E p \in Inputs(t) : f \in OnDisk(tmp, p)
  BY <1>4 DEF SavedFiles, InputFiles
<1> QED
  BY <1>5

\* A command starts.
LEMMA CommandStartsKeeps ==
    ASSUME BuildInv, CleanInv, NEW t \in Task, StartCommand(t)
    PROVE  CleanInv'
<1> USE DEF BuildInv, FilesInv, CleanInv
<1> DEFINE next == [at |-> "exec", todo |-> {}]
<1>0. /\ worker[t] = "running" /\ body[t].at = "inputs" /\ body[t].todo = {} /\ saveMu # t
      /\ Kind(t) = "Command"
      /\ seen' = [seen EXCEPT ![t] = UNION {OnDisk(tmp, p) : p \in Inputs(t)}]
      /\ Step(t, next)
      /\ UNCHANGED <<store, tmp, saveVars>>
  BY DEF StartCommand, In
<1>1. /\ UNCHANGED <<declVars, worker>> /\ body'[t] = next /\ Only(t) /\ ~Finished(t)'
  BY <1>0, Stepped
<1>2. SeenInv'
  <2>1. /\ \A u \in Task \ {t} : seen'[u] = seen[u]
        /\ seen'[t] = SavedFiles(InputFiles(t))
    BY <1>0, SharedIsStore DEF BodyTypeOK
  <2>2. next.at = "exec" /\ body'[t] = next /\ store' = store
    BY <1>0, <1>1
  <2> HIDE DEF next
  <2> QED
    BY <1>1, <2>1, <2>2, SeenMoves
<1>3. \A p \in Inputs(t) : p \in saved \ broken /\ ~Saving(p)
  BY <1>0 DEF SaveInv
<1>4. tmp' = Overwrite(tmp, SavedFiles({}))
  BY <1>0, WritesNothing
<1> QED
  BY <1>0, <1>2, <1>3, <1>4, MovesOn

\* A command has written its output.
LEMMA CommandWroteKeeps ==
    ASSUME BuildInv, CleanInv, NEW t \in Task, CommandWrote(t)
    PROVE  CleanInv'
<1> USE DEF BuildInv, FilesInv, CleanInv
<1>0. PICK out \in Written(t) :
          /\ worker[t] = "running" /\ body[t].at = "exec" /\ t \in Producers
          /\ tmp' = Overwrite(tmp, SavedFiles(out))
          /\ Step(t, [at |-> "set", todo |-> FoundAt(tmp', OutputOf(t))])
          /\ UNCHANGED <<store, seen, saveVars>>
  BY DEF CommandWrote, In, Producers, OutputOf
<1> DEFINE todo == FoundAt(tmp', OutputOf(t))
           next == [at |-> "set", todo |-> todo]
<1>1. /\ UNCHANGED <<declVars, worker>> /\ body'[t] = next /\ Only(t) /\ ~Finished(t)'
  BY <1>0, Stepped
<1>2. /\ Kind(t) = "Command" /\ OutputOf(t) \in Path /\ CleanKey(OutputOf(t))
      /\ Clean(OutputOf(t)) = OutputOf(t)
  BY <1>0, Declared, CleanDeclared DEF PlaceInv
<1>3. out \in SUBSET Path /\ \A k \in out : CleanKey(k) /\ AtOrUnder(k, OutputOf(t))
  <2>1. \A n \in Leaf : CleanKey(OutputOf(t) \o <<n>>)
    BY <1>2, CleanBelow, BuildAssumption
  <2>2. out = {OutputOf(t)} \/ out = {OutputOf(t) \o <<n>> : n \in Leaf}
    BY DEF Written, OutputOf
  <2>3. \A k \in out : CleanKey(k)
    <3> DEFINE o == OutputOf(t)
    <3>1. CleanKey(o) /\ (out = {o} \/ out = {o \o <<n>> : n \in Leaf}) /\ \A n \in Leaf : CleanKey(o \o <<n>>)
      BY <1>2, <2>1, <2>2
    <3> HIDE DEF o
    <3> QED
      BY <3>1, Zenon
  <2>4. out \in SUBSET Path /\ \A k \in out : AtOrUnder(k, OutputOf(t))
    BY WrittenTyped
  <2> QED
    BY <2>3, <2>4
<1>4. Present' = Present \cup out
  BY <1>0, <1>3, PresentGrows
<1>5. todo = {k \in Present' : AtOrUnder(k, OutputOf(t))}
  BY <1>2 DEF FoundAt, OnDisk, CleanKey, Present
<1>6. \A k \in todo : CleanKey(k)
  BY <1>3, <1>4, <1>5, PresentClean
<1>7. \A k \in out : ToolWrote(k) /\ Coming(k)'
  BY <1>0, <1>1, <1>2, <1>3, <1>4, <1>5 DEF Coming, ToolWrote
<1> HIDE DEF todo
<1>8. SeenInv'
  <2>1. seen[t] = SavedFiles(InputFiles(t))
    BY <1>0 DEF SeenInv
  <2>2. seen'[t] = SavedFiles(InputFiles(t)) /\ seen' = seen /\ store' = store
    BY <1>0, <2>1
  <2>3. next.at = "set" /\ body'[t] = next
    BY <1>1
  <2> HIDE DEF next
  <2> QED
    BY <1>1, <2>2, <2>3, SeenMoves
<1>9. saveMu # t
  BY <1>0, TaskAssumption DEF SaveInv
<1>10. Step(t, next)
  BY <1>0 DEF todo
<1> QED
  BY <1>0, <1>3, <1>6, <1>7, <1>8, <1>9, <1>10, MovesOn

\* A path that is set into the store is no input of a task that has begun.
LEMMA SetPathKeeps ==
    ASSUME BuildInv, CleanInv, NEW t \in Task, NEW p \in body[t].todo, SetPath(t, p)
    PROVE  CleanInv'
<1> USE DEF BuildInv, FilesInv, CleanInv
<1>0. /\ worker[t] = "running" /\ body[t].at = "set"
      /\ store' = store \cup {p}
      /\ Step(t, Drop(t, p))
      /\ UNCHANGED <<seen, saveVars, tmp>>
  BY DEF SetPath, In
<1>1. /\ UNCHANGED <<declVars, deploy, worker>>
      /\ body' = [body EXCEPT ![t] = Drop(t, p)] /\ body'[t] = Drop(t, p) /\ Only(t)
      /\ Begun(t) /\ Begun(t)' /\ ~Finished(t) /\ ~Finished(t)'
  BY <1>0, Stepped
<1>2. body'[t].at = "set" /\ body'[t].todo = body[t].todo \ {p}
  BY <1>0, <1>1, Dropped
<1>3. ASSUME NEW u \in Task, Begun(u), NEW i \in Inputs(u) PROVE ~AtOrUnder(p, i)
  BY <1>0, <1>3, Settled
<1>4. ASSUME NEW u \in Task, Begun(u), NEW i \in Inputs(u)
      PROVE  /\ {k \in store' : AtOrUnder(k, i)} = {k \in store : AtOrUnder(k, i)}
             /\ Matched(i)' = Matched(i) /\ (i \in store' <=> i \in store)
  BY <1>0, <1>3, <1>4 DEF Matched, AtOrUnder
<1>5. \A k : Coming(k) <=> Coming(k)'
  BY <1>0, <1>1, <1>2 DEF Coming, Only
<1>6. KeysInv'
  BY <1>5 DEF KeysInv
<1>7. SeenInv'
  <2>1. seen[t] = SavedFiles({k \in store : \E i \in Inputs(t) : AtOrUnder(k, i)})
    BY <1>0 DEF SeenInv, InputFiles
  <2>2. {k \in store' : \E i \in Inputs(t) : AtOrUnder(k, i)} = {k \in store : \E i \in Inputs(t) : AtOrUnder(k, i)}
    BY <1>0, <1>1, <1>3
  <2>3. seen'[t] = SavedFiles({k \in store' : \E i \in Inputs(t) : AtOrUnder(k, i)})
    BY <1>0, <2>1, <2>2
  <2> QED
    BY <1>0, <1>1, <1>2, <1>4, <2>3, SeenKept
<1>8. TmpInv' /\ Present' = Present
  BY <1>0, <1>1, <1>5, TmpSame
<1>9. SaveInv'
  <2>1. saveMu # t
    BY <1>0, TaskAssumption DEF SaveInv
  <2>2. \A q \in saved : Matched(q)' = Matched(q)
    BY <1>4 DEF SaveInv
  <2> QED
    BY <1>0, <1>1, <1>2, <1>8, <2>1, <2>2, SaveKept
<1>10. DeployInv'
  <2>1. \A u \in Sinks : u \in Task
    BY DEF Sinks
  <2> QED
    BY <1>1, <1>2, <1>4, <2>1, DeployKept
<1> QED
  BY <1>1, <1>6, <1>7, <1>8, <1>9, <1>10, DeclSame

-----------------------------------------------------------------------------
(***************************************************************************)
(* Builds with clean paths: the sinks, and how bodies end.                 *)
(***************************************************************************)

LEMMA OneOutcome ==
    ASSUME NEW new, OnePerPath(new)
    PROVE  Outcomes(new) = {new}
<1>1. new \in Outcomes(new)
  BY DEF Outcomes
<1>2. ASSUME NEW S \in Outcomes(new) PROVE S = new
  BY <1>2 DEF Outcomes, OnePerPath
<1> QED
  BY <1>1, <1>2

\* What is written below a directory leaves the rest alone.
LEMMA WrittenBelow ==
    ASSUME NEW tree, NEW new, NEW d, \A f \in new : AtOrUnder(f.path, d)
    PROVE  \A f : ~AtOrUnder(f.path, d) => (f \in Overwrite(tree, new) <=> f \in tree)
BY DEF Overwrite

\* A sink writes one file per path, and each at or below its destination.
LEMMA ArtifactsBelow ==
    ASSUME BuildInv, CleanInv, NEW t \in Sinks
    PROVE  /\ Artifacts(t) \in SUBSET File /\ Outcomes(Artifacts(t)) = {Artifacts(t)}
           /\ \A f \in Artifacts(t) : AtOrUnder(f.path, Dest(t))
<1> USE DEF BuildInv, FilesInv, CleanInv
<1> DEFINE p     == Input(t)
           d     == Dest(t)
           saves == SavedFiles(Matched(p))
           moved == {[path |-> d \o Rest(f.path, p), content |-> f.content] : f \in {g \in saves : Under(g.path, p)}}
<1>1. t \in Task
  BY DEF Sinks
<1>2. p \in Path /\ Clean(p) = p /\ d \in Path /\ d = ArtifactPath(t)
  BY <1>1, SinkDeclared, CleanDeclared
<1>3. Matched(p) \in SUBSET store /\ \A k \in Matched(p) : AtOrUnder(k, p)
  BY MatchedTyped
<1>4. saves \in SUBSET File /\ Plain(saves)
  BY <1>3, StoreClean
<1>5. \A f \in saves : f.path \in Path /\ AtOrUnder(f.path, p)
  <2>1. \A k \in Matched(p) : SavedFile(k).path = k /\ k \in Path
    BY <1>3, StoreClean, CleanFile
  <2> QED
    BY <1>3, <2>1 DEF SavedFiles
<1>6. Artifacts(t) \in SUBSET File
  BY ArtifactsTyped
<1>7. Artifacts(t) = IF d = p THEN saves ELSE IF p \in store THEN {[path |-> d, content |-> p]} ELSE moved
  BY <1>2 DEF Artifacts
<1> HIDE DEF p, d, saves
<1>8. CASE Artifacts(t) = saves /\ d = p
  <2>1. OnePerPath(saves)
    BY <1>4 DEF OnePerPath, Plain, File
  <2> QED
    BY <1>4, <1>5, <1>8, <2>1, OneOutcome DEF d
<1>9. CASE Artifacts(t) = {[path |-> d, content |-> p]}
  <2>1. OnePerPath({[path |-> d, content |-> p]})
    BY DEF OnePerPath
  <2> QED
    BY <1>6, <1>9, <2>1, OneOutcome DEF d, AtOrUnder
<1>10. CASE Artifacts(t) = moved
  <2>1. \A a \in moved : \E f \in saves : /\ Under(f.path, p) /\ a.path = d \o Rest(f.path, p)
                                          /\ a.content = f.content /\ a \in File
    <3>1. \A a \in moved : \E f \in saves : /\ Under(f.path, p) /\ a.path = d \o Rest(f.path, p)
                                            /\ a.content = f.content
      OBVIOUS
    <3> HIDE DEF moved
    <3> QED
      BY <1>6, <1>10, <3>1
  <2> HIDE DEF moved
  <2>2. \A a \in moved : AtOrUnder(a.path, d)
    <3>1. \A f \in saves : AtOrUnder(d \o Rest(f.path, p), d)
      BY <1>2, <1>5, Moved
    <3> QED
      BY <2>1, <3>1
  <2>4. ASSUME NEW a \in moved, NEW b \in moved, a.path = b.path PROVE a = b
    <3>1. PICK f \in saves : Under(f.path, p) /\ a.path = d \o Rest(f.path, p) /\ a.content = f.content
      BY <2>1
    <3>2. PICK g \in saves : Under(g.path, p) /\ b.path = d \o Rest(g.path, p) /\ b.content = g.content
      BY <2>1
    <3>3. f.path = g.path
      BY <1>2, <1>5, <2>4, <3>1, <3>2, MovedApart
    <3>4. a.content = b.content
      BY <1>4, <3>1, <3>2, <3>3 DEF Plain
    <3> QED
      BY <2>1, <2>4, <3>4 DEF File
  <2>5. Outcomes(moved) = {moved}
    BY <2>4, OneOutcome DEF OnePerPath
  <2> QED
    BY <1>6, <1>10, <2>2, <2>5 DEF d
<1> QED
  BY <1>7, <1>8, <1>9, <1>10

\* A sink changes its own destination only.
LEMMA DeployMoves ==
    ASSUME BuildInv, CleanInv, UNCHANGED <<declVars, store>>, NEW t \in Sinks, Only(t),
           deploy' \in SUBSET File,
           \A f \in File : ~AtOrUnder(f.path, Dest(t)) => (f \in deploy' <=> f \in deploy),
           Begun(t)', worker'[t] = "running" /\ body'[t].at = "write" => At(t)' = {},
           Finished(t)' => At(t)' = Artifacts(t)'
    PROVE  DeployInv'
<1> USE DEF BuildInv, FilesInv, CleanInv
<1>1. \A u \in Sinks : u \in Task
  BY DEF Sinks
<1>2. ASSUME NEW u \in Sinks, u # t
      PROVE  /\ ~Begun(u)' => At(u)' = PreviousAt(u)'
             /\ worker'[u] = "running" /\ body'[u].at = "write" => At(u)' = {}
             /\ Finished(u)' => At(u)' = Artifacts(u)'
  <2>1. Dest(u)' = Dest(u) /\ Input(u)' = Input(u) /\ ArtifactPath(u)' = ArtifactPath(u)
    BY <1>1, DeclSame
  <2>2. Dest(u) \in Path /\ Dest(t) \in Path /\ ~Overlap(Dest(u), Dest(t))
    BY <1>1, <1>2, SinksApart, CleanDeclared
  <2>3. \A f \in File : AtOrUnder(f.path, Dest(u)) => ~AtOrUnder(f.path, Dest(t))
    BY <2>2, CommonFile DEF File
  <2>4. At(u)' = At(u)
    <3>1. deploy \in SUBSET File
      BY DEF BodyTypeOK
    <3> QED
      BY <2>1, <2>3, <3>1 DEF At
  <2>5. PreviousAt(u)' = PreviousAt(u)
    BY <2>1 DEF PreviousAt
  <2>6. Artifacts(u)' = Artifacts(u)
    BY <2>1, MatchedSame DEF Artifacts
  <2>7. (Begun(u)' <=> Begun(u)) /\ (Finished(u)' <=> Finished(u)) /\ body'[u] = body[u] /\ worker'[u] = worker[u]
    BY <1>1, <1>2 DEF Only, Begun, Finished
  <2> QED
    BY <2>4, <2>5, <2>6, <2>7 DEF DeployInv
<1>3. Sinks' = Sinks
  BY DeclSame
<1> QED
  BY <1>2, <1>3 DEF DeployInv

\* A sink has removed its destination.
LEMMA ReplaceKeeps ==
    ASSUME BuildInv, BuildInv', CleanInv, NEW t \in Task, Replace(t)
    PROVE  CleanInv'
<1> USE DEF BuildInv, FilesInv, CleanInv
<1>0. /\ worker[t] = "running" /\ body[t].at = "remove"
      /\ deploy' = {f \in deploy : ~AtOrUnder(f.path, Dest(t))}
      /\ body' = [body EXCEPT ![t].at = "write"]
      /\ UNCHANGED <<declVars, worker, phase, store, seen, saveVars, tmp>>
  BY DEF Replace, In, vars
<1>1. /\ Begun(t) /\ Begun(t)' /\ ~Finished(t) /\ ~Finished(t)'
      /\ body'[t].at = "write" /\ Only(t) /\ t \in Sinks /\ Kind(t) = "Artifact"
  BY <1>0, Declared DEF Begun, Finished, PlaceInv, BodyTypeOK, Only
<1>2. \A k : Coming(k)' <=> Coming(k)
  BY <1>0, <1>1 DEF Coming, Only
<1>3. KeysInv'
  BY <1>2 DEF KeysInv
<1>4. SeenInv'
  <2> DEFINE next == body'[t]
  <2>1. next.at = "write" /\ body'[t] = next /\ seen' = seen /\ store' = store
    BY <1>0, <1>1
  <2> HIDE DEF next
  <2> QED
    BY <1>0, <1>1, <2>1, SeenMoves
<1>5. TmpInv' /\ Present' = Present
  BY <1>0, <1>2, TmpSame
<1>6. saveMu # t
  BY <1>0, TaskAssumption DEF SaveInv
<1>7. SaveInv'
  BY <1>0, <1>1, <1>5, <1>6, MatchedSame, SaveKept
<1>8. DeployInv'
  <2>1. Dest(t)' = Dest(t)
    BY <1>0, DeclSame
  <2>2. At(t)' = {}
    BY <1>0, <2>1 DEF At
  <2>3. /\ deploy' \in SUBSET File
        /\ \A f \in File : ~AtOrUnder(f.path, Dest(t)) => (f \in deploy' <=> f \in deploy)
    BY <1>0 DEF BodyTypeOK
  <2> QED
    BY <1>0, <1>1, <2>2, <2>3, DeployMoves
<1> QED
  BY <1>0, <1>3, <1>4, <1>5, <1>7, <1>8, DeclSame

\* A body returns nil.
LEMMA SucceedsKeeps ==
    ASSUME BuildInv, BuildInv', CleanInv, NEW t \in Task, Write(t) \/ BodySucceeds(t)
    PROVE  CleanInv'
<1> USE DEF BuildInv, FilesInv, CleanInv
<1>0. /\ worker[t] = "running" /\ worker' = [worker EXCEPT ![t] = "succeeded"]
      /\ worker \in [Task -> WorkerState]
      /\ UNCHANGED <<declVars, phase, store, body, saveVars, tmp>>
  BY DEF Write, BodySucceeds, Succeed, Move, IInv, TypeOK, bodyVars
<1>1. \/ /\ body[t].at = "write"
         /\ \E out \in Outcomes(Artifacts(t)) : deploy' = Overwrite(deploy, out)
         /\ seen' = [seen EXCEPT ![t] = SavedFiles(Matched(Input(t)))]
      \/ /\ \/ body[t].at = "set" /\ body[t].todo = {}
            \/ body[t].at = "exec" /\ t \notin Producers
         /\ UNCHANGED <<deploy, seen>>
  BY DEF Write, BodySucceeds, In, bodyVars, Producers
<1>2. /\ Begun(t) /\ Begun(t)' /\ ~Finished(t)
      /\ worker'[t] = "succeeded" /\ Only(t) /\ body[t].at \notin {"inputs", "none"}
  BY <1>0, <1>1 DEF Begun, Finished, PlaceInv, Only
<1>3. body[t].at = "write" =>
          t \in Sinks /\ Inputs(t) = {Input(t)} /\ SavedFiles(Matched(Input(t))) = SavedFiles(InputFiles(t))
  <2> SUFFICES ASSUME body[t].at = "write"
               PROVE  t \in Sinks /\ Inputs(t) = {Input(t)} /\ Matched(Input(t)) = InputFiles(t)
    OBVIOUS
  <2>1. t \in Sinks
    BY DEF PlaceInv
  <2>2. Input(t) \in Path /\ Inputs(t) = {Input(t)} /\ ~Refused(Input(t))
    BY <2>1, SinkDeclared, CleanDeclared
  <2> QED
    BY <2>1, <2>2, MatchedAll DEF InputFiles
<1>4. \A k : Coming(k)' <=> Coming(k)
  BY <1>0 DEF Coming
<1>5. KeysInv'
  BY <1>4 DEF KeysInv
<1>6. SeenInv'
  <2>1. seen'[t] = SavedFiles(InputFiles(t)) /\ \A u \in Task \ {t} : seen'[u] = seen[u]
    <3>1. CASE body[t].at = "write" /\ seen' = [seen EXCEPT ![t] = SavedFiles(Matched(Input(t)))]
      BY <1>3, <3>1 DEF BodyTypeOK
    <3>2. CASE body[t].at \in {"set", "exec"} /\ seen' = seen
      BY <3>2 DEF SeenInv
    <3> QED
      BY <1>1, <3>1, <3>2
  <2> DEFINE next == body[t]
  <2>2. next.at \notin {"inputs", "none"} /\ body'[t] = next /\ store' = store
    BY <1>0, <1>2
  <2> HIDE DEF next
  <2> QED
    BY <1>0, <1>2, <2>1, <2>2, SeenMoves
<1>7. TmpInv' /\ Present' = Present
  BY <1>0, <1>4, TmpSame
<1>8. saveMu # t
  BY <1>0, <1>2, TaskAssumption DEF SaveInv
<1>9. SaveInv'
  BY <1>0, <1>2, <1>7, <1>8, MatchedSame, SaveKept
<1>10. DeployInv'
  <2>1. CASE body[t].at = "write"
    <3>1. t \in Sinks /\ At(t) = {} /\ Dest(t)' = Dest(t)
      BY <1>0, <1>3, <2>1, DeclSame DEF DeployInv
    <3>2. /\ Artifacts(t) \in SUBSET File /\ Outcomes(Artifacts(t)) = {Artifacts(t)}
          /\ \A f \in Artifacts(t) : AtOrUnder(f.path, Dest(t))
      BY <3>1, ArtifactsBelow
    <3>3. deploy' = Overwrite(deploy, Artifacts(t)) /\ deploy \in SUBSET File
      BY <1>1, <2>1, <3>2 DEF BodyTypeOK
    <3>4. Artifacts(t)' = Artifacts(t)
      BY <1>0, DeclSame, MatchedSame DEF Artifacts
    <3>5. \A f : ~AtOrUnder(f.path, Dest(t)) => (f \in deploy' <=> f \in deploy)
      BY <3>2, <3>3, WrittenBelow
    <3>6. At(t)' = Artifacts(t)
      BY <3>1, <3>2, <3>3, <3>5 DEF At, Overwrite
    <3>7. deploy' \in SUBSET File
      BY DEF BodyTypeOK
    <3> QED
      BY <1>0, <1>2, <3>1, <3>4, <3>5, <3>6, <3>7, DeployMoves
  <2>2. CASE body[t].at # "write"
    <3>1. deploy' = deploy /\ t \notin Sinks
      <4>1. deploy' = deploy /\ (t \in Producers \/ Kind(t) = "Command")
        BY <1>1, <2>2 DEF PlaceInv
      <4> QED
        BY <4>1, Declared
    <3> QED
      BY <1>0, <1>2, <3>1, MatchedSame, DeployKept
  <2> QED
    BY <2>1, <2>2
<1> QED
  BY <1>0, <1>5, <1>6, <1>7, <1>9, <1>10, DeclSame

\* A body returns an error; what it was saving is remembered as broken, and what
\* it leaves of a destination is not relied on.
LEMMA FailsKeeps ==
    ASSUME BuildInv, BuildInv', CleanInv, NEW t \in Task, BodyFails(t)
    PROVE  CleanInv'
<1> USE DEF BuildInv, FilesInv, CleanInv
<1>0. /\ worker[t] = "running" /\ worker' = [worker EXCEPT ![t] = "failed"]
      /\ worker \in [Task -> WorkerState]
      /\ UNCHANGED <<declVars, phase, store, body, seen, saved, tmp, torn>>
  BY DEF BodyFails, Fail, Move, IInv, TypeOK
<1>1. \/ /\ saveMu = t /\ saveMu' = NoTask
         /\ broken' = broken \cup {saving.path}
         /\ saving' = [saving EXCEPT !.keys = {}, !.open = NoPath]
      \/ saveMu # t /\ UNCHANGED <<saveMu, broken, saving>>
  BY DEF BodyFails
<1>2. /\ Begun(t) /\ Begun(t)' /\ ~Finished(t) /\ ~Finished(t)'
      /\ worker'[t] = "failed" /\ Only(t) /\ body[t].at # "none"
  BY <1>0 DEF Begun, Finished, PlaceInv, Only
<1>3. saveMu = t => saving.path \in saved \ broken /\ body[t].at = "inputs"
  BY TaskAssumption DEF SaveInv
<1>4. \A k : Coming(k)' <=> Coming(k)
  BY <1>0 DEF Coming
<1>5. KeysInv'
  BY <1>4 DEF KeysInv
<1>6. SeenInv'
  <2> DEFINE next == body[t]
  <2>1. next.at # "none" /\ body'[t] = next /\ seen' = seen /\ store' = store
    BY <1>0, <1>2
  <2>2. /\ next.at = "inputs" /\ Kind(t) # "Command" =>
              seen[t] = SavedFiles({k \in store : \E p \in Inputs(t) \ next.todo : AtOrUnder(k, p)})
        /\ next.at \in {"exec", "set"} => seen[t] = SavedFiles(InputFiles(t))
    BY DEF SeenInv
  <2> HIDE DEF next
  <2> QED
    BY <1>0, <1>2, <2>1, <2>2, SeenMoves
<1>7. SaveInv' /\ TmpInv'
  <2>1. CASE saveMu # t
    <3>1. UNCHANGED saveVars
      BY <1>0, <1>1, <2>1 DEF saveVars
    <3>2. TmpInv' /\ Present' = Present
      BY <1>0, <1>4, <3>1, TmpSame
    <3> QED
      BY <1>0, <1>2, <2>1, <3>1, <3>2, MatchedSame, SaveKept
  <2>2. CASE saveMu = t
    <3>0. /\ saveMu' = NoTask /\ broken' = broken \cup {saving.path} /\ t # NoTask
          /\ saving' = [saving EXCEPT !.keys = {}, !.open = NoPath]
          /\ Present' = Present
      BY <1>0, <1>1, <2>2, TaskAssumption DEF Present
    <3>1. \A p : ~Saving(p)' /\ (Saving(p) <=> p = saving.path)
      BY <2>2, <3>0 DEF Saving
    <3>2. saving'.open = NoPath /\ saving'.keys = {}
      BY <3>0 DEF BodyTypeOK
    <3>3. \A p \in saved : \E u \in Task : Kind(u) = "Command" /\ p \in Inputs(u) /\ Begun(u)'
      <4>1. \A u \in Task : Begun(u) => Begun(u)'
        BY <1>2 DEF Only, Begun
      <4> QED
        BY <4>1 DEF SaveInv
    <3>4. \A p \in saved \ broken' : \A k \in Matched(p) : k \in Present
      BY <3>0, <3>1 DEF SaveInv
    <3>5. ASSUME NEW u \in Task, worker'[u] = "running", Kind(u) = "Command", body[u].at \in {"inputs", "exec"}
          PROVE  \A p \in Inputs(u) \ body[u].todo : p \in saved \ broken'
      <4>1. u # t /\ worker[u] = "running"
        BY <1>2, <3>5 DEF Only
      <4> QED
        BY <2>2, <3>0, <3>1, <3>5, <4>1 DEF SaveInv
    <3>6. SaveInv'
      BY <1>0, <1>3, <2>2, <3>0, <3>1, <3>2, <3>3, <3>4, <3>5, MatchedSame, DeclSame DEF SaveInv
    <3>7. TmpInv'
      <4>1. \A p \in Present : ToolWrote(p) \/ \E q \in saved : AtOrUnder(p, q)
        BY DEF TmpInv
      <4>2. \A p \in torn : \E q \in saved : AtOrUnder(p, q) /\ q \in broken'
        BY <3>0, <3>1 DEF TmpInv
      <4>3. Plain(tmp)' /\ torn \subseteq Present /\ \A p \in Present : Coming(p)'
        BY <1>0, <1>4 DEF TmpInv, Plain
      <4> QED
        BY <1>0, <3>0, <3>1, <4>1, <4>2, <4>3, DeclSame DEF TmpInv
    <3> QED
      BY <3>6, <3>7
  <2> QED
    BY <2>1, <2>2
<1>8. DeployInv'
  <2>1. CASE body[t].at \in {"remove", "write"}
    <3>1. t \in Sinks
      BY <2>1 DEF PlaceInv
    <3>2. \A f \in Artifacts(t) : AtOrUnder(f.path, Dest(t))
      BY <3>1, ArtifactsBelow
    <3>3. deploy' \in {deploy \ S : S \in SUBSET {f \in deploy : AtOrUnder(f.path, Dest(t))}}
             \/ \E S \in SUBSET Artifacts(t) : deploy' = Overwrite(deploy, S)
      BY <1>0, <2>1 DEF BodyFails, Partial, In
    <3>4. \A f : ~AtOrUnder(f.path, Dest(t)) => (f \in deploy' <=> f \in deploy)
      <4>1. CASE deploy' \in {deploy \ S : S \in SUBSET {f \in deploy : AtOrUnder(f.path, Dest(t))}}
        BY <4>1
      <4>2. CASE \E S \in SUBSET Artifacts(t) : deploy' = Overwrite(deploy, S)
        <5>1. PICK S \in SUBSET Artifacts(t) : deploy' = Overwrite(deploy, S)
          BY <4>2
        <5>2. \A f \in S : AtOrUnder(f.path, Dest(t))
          BY <3>2
        <5> QED
          BY <5>1, <5>2, WrittenBelow
      <4> QED
        BY <3>3, <4>1, <4>2
    <3>5. deploy' \in SUBSET File
      BY DEF BodyTypeOK
    <3> QED
      BY <1>0, <1>2, <3>1, <3>4, <3>5, DeployMoves
  <2>2. CASE body[t].at \notin {"remove", "write"}
    <3>1. deploy' = deploy
      BY <2>2 DEF BodyFails, Partial, In
    <3> QED
      BY <1>0, <1>2, <2>2, <3>1, MatchedSame, DeployKept
  <2> QED
    BY <2>1, <2>2
<1> QED
  BY <1>0, <1>5, <1>6, <1>7, <1>8, DeclSame

-----------------------------------------------------------------------------
(***************************************************************************)
(* Builds with clean paths: sharedSave.                                    *)
(***************************************************************************)

\* Whatever sharedSave does, its body stays with its inputs.
LEMMA SharedSaveKeeps ==
    ASSUME BuildInv, CleanInv, NEW t \in Task, worker[t] = "running", Kind(t) = "Command", body[t].at = "inputs",
           NEW next, Step(t, next), next.at = "inputs",
           UNCHANGED <<store, seen>>, SaveInv', TmpInv'
    PROVE  CleanInv'
<1> USE DEF BuildInv, FilesInv, CleanInv
<1>1. /\ UNCHANGED <<declVars, deploy, worker>> /\ body'[t] = next /\ Only(t)
      /\ Begun(t)' /\ ~Finished(t) /\ ~Finished(t)'
  BY Stepped
<1>2. \A k : Coming(k)' <=> Coming(k)
  BY <1>1 DEF Coming, Only
<1>3. KeysInv'
  BY <1>2 DEF KeysInv
<1>4. SeenInv'
  BY <1>1, SeenMoves
<1>5. DeployInv'
  BY <1>1, MatchedSame, DeployKept
<1> QED
  BY <1>1, <1>3, <1>4, <1>5, DeclSame

\* A path that is there already is skipped.
LEMMA SkipSaveKeeps ==
    ASSUME BuildInv, CleanInv, NEW t \in Task, NEW p \in body[t].todo, SkipSave(t, p)
    PROVE  CleanInv'
<1> USE DEF BuildInv, FilesInv, CleanInv
<1>0. /\ worker[t] = "running" /\ body[t].at = "inputs" /\ Kind(t) = "Command"
      /\ saveMu = NoTask /\ p \in saved \ broken
      /\ Step(t, Drop(t, p))
      /\ UNCHANGED <<store, seen, saveVars, tmp>>
  BY DEF SkipSave, In
<1>1. /\ UNCHANGED <<declVars, worker>> /\ Only(t) /\ Begun(t)' /\ body'[t] = Drop(t, p)
  BY <1>0, Stepped
<1>2. body'[t].at = "inputs" /\ body'[t].todo = body[t].todo \ {p} /\ Drop(t, p).at = "inputs"
  BY <1>0, <1>1, Dropped
<1>3. saveMu # t /\ \A q : ~Saving(q)
  BY <1>0, TaskAssumption DEF Saving
<1>4. \A k : Coming(k)' <=> Coming(k)
  BY <1>0, <1>1, <1>2 DEF Coming, Only
<1>5. TmpInv' /\ Present' = Present
  BY <1>0, <1>1, <1>4, TmpSame
<1>6. SaveInv'
  <2>1. \A q \in Inputs(t) \ body'[t].todo : q \in saved \ broken
    BY <1>0, <1>2 DEF SaveInv
  <2> QED
    BY <1>0, <1>1, <1>3, <1>5, <2>1, MatchedSame, SaveKept
<1> QED
  BY <1>0, <1>2, <1>5, <1>6, SharedSaveKeeps

\* A new path is locked; nobody else waits for it any more.
LEMMA LockSaveKeeps ==
    ASSUME BuildInv, CleanInv, NEW t \in Task, NEW p \in body[t].todo, LockSave(t, p)
    PROVE  CleanInv'
<1> USE DEF BuildInv, FilesInv, CleanInv
<1>0. /\ worker[t] = "running" /\ body[t].at = "inputs" /\ Kind(t) = "Command"
      /\ saveMu = NoTask /\ p \notin saved /\ saveMu' = t /\ saved' = saved \cup {p}
      /\ saving' = [path |-> p, keys |-> Matched(p), open |-> NoPath]
      /\ Step(t, Drop(t, p))
      /\ UNCHANGED <<store, seen, broken, tmp, torn>>
  BY DEF LockSave, In
<1>1. /\ UNCHANGED <<declVars, worker>> /\ Only(t) /\ Begun(t) /\ body'[t] = Drop(t, p)
  BY <1>0, Stepped
<1>2. body'[t].at = "inputs" /\ body'[t].todo = body[t].todo \ {p} /\ Drop(t, p).at = "inputs"
  BY <1>0, <1>1, Dropped
<1>3. p \in Path /\ p \in Inputs(t) /\ t # NoTask /\ Present' = Present
  BY <1>0, TaskAssumption DEF PlaceInv, BodyTypeOK, Present
<1>4. /\ \A q : ~Saving(q) /\ (Saving(q)' <=> q = p)
      /\ saving'.path = p /\ saving'.keys = Matched(p) /\ saving'.open = NoPath
  BY <1>0, <1>3 DEF Saving
<1>5. \A q : Matched(q)' = Matched(q)
  BY <1>0, MatchedSame
<1>6. p \notin broken
  BY <1>0 DEF SaveInv
<1>7. SaveInv'
  <2>1. worker'[t] = "running" /\ body'[t].at = "inputs" /\ Kind(t)' = "Command"
    BY <1>0, <1>1, <1>2, DeclSame
  <2>2. ASSUME NEW q \in saved' PROVE \E u \in Task : Kind(u) = "Command" /\ q \in Inputs(u) /\ Begun(u)'
    <3>1. \A u \in Task : Begun(u)' <=> Begun(u)
      BY <1>1 DEF Begun
    <3> QED
      BY <1>0, <1>1, <1>3, <2>2, <3>1 DEF SaveInv
  <2>3. \A q \in saved' \ broken : \A k \in Matched(q) : k \in Present \/ (q = p /\ k \in Matched(p))
    BY <1>0, <1>4 DEF SaveInv
  <2>4. ASSUME NEW u \in Task, worker[u] = "running", Kind(u) = "Command", body'[u].at \in {"inputs", "exec"},
               NEW q \in Inputs(u) \ body'[u].todo
        PROVE  q \in saved' \ broken /\ (q = p => u = t)
    <3>1. CASE u = t
      BY <1>0, <1>2, <1>3, <1>6, <2>4, <3>1 DEF SaveInv
    <3>2. CASE u # t
      BY <1>0, <1>1, <2>4, <3>2 DEF SaveInv, Only
    <3> QED
      BY <3>1, <3>2
  <2>5. p \in saved' \ broken
    BY <1>0, <1>6
  <2>6. /\ saveMu' # NoTask => /\ worker'[saveMu'] = "running" /\ body'[saveMu'].at = "inputs"
                               /\ tasks'[saveMu'].kind = "Command"
                               /\ saving'.path \in saved' \ broken'
                               /\ saving'.keys \subseteq Matched(p)
    BY <1>0, <1>4, <2>1, <2>5 DEF Kind
  <2>7. Matched(saving.path)' = Matched(p)
    BY <1>0, <1>4 DEF Matched
  <2>8. /\ \A q \in saved' : \E u \in Task : Kind(u)' = "Command" /\ q \in Inputs(u)' /\ Begun(u)'
        /\ \A q \in saved' \ broken' : \A k \in Matched(q)' : k \in Present' \/ (Saving(q)' /\ k \in saving'.keys)
        /\ \A u \in Task : worker'[u] = "running" /\ Kind(u)' = "Command" /\ body'[u].at \in {"inputs", "exec"} =>
              \A q \in Inputs(u)' \ body'[u].todo : q \in saved' \ broken' /\ (Saving(q)' => saveMu' = u)
    BY <1>0, <1>1, <1>3, <1>4, <1>5, <2>2, <2>3, <2>4, DeclSame
  <2>9. broken' \subseteq saved' /\ saving'.open = NoPath
    BY <1>0, <1>4 DEF SaveInv
  <2> QED
    BY <2>6, <2>7, <2>8, <2>9 DEF SaveInv, Kind
<1>8. TmpInv'
  <2>1. \A k : Coming(k) => Coming(k)'
    BY <1>0, <1>1, <1>2 DEF Coming, Only
  <2>2. \A k \in Present : ToolWrote(k) \/ \E q \in saved : AtOrUnder(k, q)
    BY DEF TmpInv
  <2>3. \A k \in torn : \E q \in saved : AtOrUnder(k, q) /\ q \in broken
    BY <1>4 DEF TmpInv
  <2>4. \A q \in saved : q \in saved' /\ ~Saving(q)'
    BY <1>0, <1>4
  <2>5. Plain(tmp)' /\ torn' \subseteq Present' /\ \A k \in Present' : Coming(k)'
    BY <1>0, <1>3, <2>1 DEF TmpInv, Plain
  <2> QED
    BY <1>0, <1>1, <1>3, <2>2, <2>3, <2>4, <2>5, DeclSame DEF TmpInv
<1> QED
  BY <1>0, <1>2, <1>7, <1>8, SharedSaveKeeps

\* A file is truncated, and is there.
LEMMA TruncateKeeps ==
    ASSUME BuildInv, BuildInv', CleanInv, NEW t \in Task, NEW k \in saving.keys, Truncate(t, k)
    PROVE  CleanInv'
<1> USE DEF BuildInv, FilesInv, CleanInv
<1>0. /\ worker[t] = "running" /\ body[t].at = "inputs" /\ saveMu = t /\ saving.open = NoPath /\ t # NoTask
      /\ tmp' = Overwrite(tmp, {SavedFile(k)}) /\ torn' = torn \cup {Clean(k)}
      /\ saving' = [saving EXCEPT !.open = k]
      /\ Step(t, body[t])
      /\ UNCHANGED <<store, seen, saveMu, saved, broken>>
  BY TaskAssumption DEF Truncate, In
<1>1. /\ Kind(t) = "Command" /\ saving.path \in saved \ broken /\ saving.keys \subseteq Matched(saving.path)
      /\ saving \in [path : Path, keys : SUBSET Path, open : Path]
  BY <1>0 DEF SaveInv, BodyTypeOK
<1>2. /\ UNCHANGED <<declVars, worker>> /\ body' = body
  BY <1>0, Stepped DEF BodyTypeOK
<1>3. /\ saving'.path = saving.path /\ saving'.keys = saving.keys /\ saving'.open = k
      /\ \A q : Saving(q) <=> q = saving.path
      /\ \A q : Saving(q)' <=> Saving(q)
  BY <1>0, <1>1 DEF Saving
<1>4. k \in store /\ k \in Path /\ CleanKey(k) /\ Clean(k) = k /\ AtOrUnder(k, saving.path) /\ Coming(k)
  BY <1>1, MatchedTyped, StoreClean, CleanFile DEF Coming
<1>5. Plain(tmp)' /\ Present' = Present \cup {k}
  <2>1. SavedFiles({k}) = {SavedFile(k)}
    BY DEF SavedFiles
  <2> DEFINE out == {k}
  <2>2. out \in SUBSET Path /\ (\A l \in out : CleanKey(l)) /\ tmp' = Overwrite(tmp, SavedFiles(out))
    BY <1>0, <1>4, <2>1
  <2> HIDE DEF out
  <2>3. Plain(tmp)' /\ Present' = Present \cup out
    BY <2>2, PresentGrows
  <2> QED
    BY <2>3 DEF out
<1>6. torn' = torn \cup {k} /\ k \in Present'
  BY <1>0, <1>4, <1>5
<1>7. \A q : Matched(q)' = Matched(q)
  BY <1>0, MatchedSame
<1>8. SaveInv'
  <2>1. /\ saveMu' # NoTask /\ worker'[saveMu'] = "running" /\ body'[saveMu'].at = "inputs"
        /\ Kind(saveMu)' = "Command"
    BY <1>0, <1>1, <1>2, DeclSame
  <2>2. saving'.path \in saved' \ broken' /\ saving'.keys \subseteq Matched(saving.path)'
    BY <1>0, <1>1, <1>3, <1>7
  <2>3. saving'.open \in saving'.keys \cap torn'
    BY <1>3, <1>6
  <2>4. \A q \in saved : \E u \in Task : Kind(u) = "Command" /\ q \in Inputs(u) /\ Begun(u)'
    BY <1>2 DEF SaveInv, Begun
  <2>5. \A q \in saved \ broken : \A l \in Matched(q) : l \in Present' \/ (Saving(q)' /\ l \in saving'.keys)
    BY <1>3, <1>5 DEF SaveInv
  <2>6. ASSUME NEW u \in Task, worker[u] = "running", Kind(u) = "Command", body[u].at \in {"inputs", "exec"},
               NEW q \in Inputs(u) \ body[u].todo
        PROVE  q \in saved \ broken /\ (Saving(q)' => saveMu' = u)
    BY <1>0, <1>3, <2>6 DEF SaveInv
  <2>7. broken' \subseteq saved'
    BY <1>0 DEF SaveInv
  <2> QED
    BY <1>0, <1>2, <1>7, <2>1, <2>2, <2>3, <2>4, <2>5, <2>6, <2>7, DeclSame DEF SaveInv
<1>9. TmpInv'
  <2>1. torn' \subseteq Present' /\ \A l \in Present' : Coming(l)'
    BY <1>0, <1>2, <1>4, <1>5, <1>6 DEF TmpInv, Coming
  <2>2. ASSUME NEW l \in Present'
        PROVE  ToolWrote(l) \/ \E q \in saved : AtOrUnder(l, q) /\ (Saving(q)' => l \notin saving'.keys \ torn')
    BY <1>1, <1>3, <1>4, <1>5, <1>6, <2>2 DEF TmpInv
  <2>3. ASSUME NEW l \in torn'
        PROVE  \E q \in saved : AtOrUnder(l, q) /\ (q \in broken \/ (Saving(q)' /\ l \in saving'.keys))
    BY <1>1, <1>3, <1>4, <1>6, <2>3 DEF TmpInv
  <2> QED
    BY <1>0, <1>2, <1>5, <2>1, <2>2, <2>3, DeclSame DEF TmpInv
<1> QED
  BY <1>0, <1>1, <1>8, <1>9, SharedSaveKeeps

\* The truncated file is written.
LEMMA RewriteKeeps ==
    ASSUME BuildInv, BuildInv', CleanInv, NEW t \in Task, NEW k \in saving.keys, Rewrite(t, k)
    PROVE  CleanInv'
<1> USE DEF BuildInv, FilesInv, CleanInv
<1>0. /\ worker[t] = "running" /\ body[t].at = "inputs" /\ saveMu = t /\ saving.open = k /\ t # NoTask
      /\ torn' = torn \ {Clean(k)}
      /\ saving' = [saving EXCEPT !.keys = @ \ {k}, !.open = NoPath]
      /\ Step(t, body[t])
      /\ UNCHANGED <<store, seen, saveMu, saved, broken, tmp>>
  BY TaskAssumption DEF Rewrite, In
<1>1. /\ Kind(t) = "Command" /\ saving.path \in saved \ broken /\ saving.keys \subseteq Matched(saving.path)
      /\ saving \in [path : Path, keys : SUBSET Path, open : Path]
  BY <1>0 DEF SaveInv, BodyTypeOK
<1>2. /\ UNCHANGED <<declVars, worker>> /\ body' = body
  BY <1>0, Stepped DEF BodyTypeOK
<1>3. /\ saving'.path = saving.path /\ saving'.keys = saving.keys \ {k} /\ saving'.open = NoPath
      /\ \A q : Saving(q) <=> q = saving.path
      /\ \A q : Saving(q)' <=> Saving(q)
  BY <1>0, <1>1 DEF Saving
<1>4. k \in store /\ k \in Path /\ CleanKey(k) /\ Clean(k) = k /\ k # NoPath
  BY <1>1, MatchedTyped, StoreClean, CleanFile DEF CleanKey
<1>5. torn' = torn \ {k} /\ Present' = Present /\ k \in torn /\ k \in Present /\ torn \subseteq Present
  BY <1>0, <1>4 DEF Present, SaveInv, TmpInv
<1>6. \A q : Matched(q)' = Matched(q)
  BY <1>0, MatchedSame
<1>7. SaveInv'
  <2>1. /\ saveMu' # NoTask /\ worker'[saveMu'] = "running" /\ body'[saveMu'].at = "inputs"
        /\ Kind(saveMu)' = "Command"
    BY <1>0, <1>1, <1>2, DeclSame
  <2>2. saving'.path \in saved' \ broken' /\ saving'.keys \subseteq Matched(saving.path)'
    BY <1>0, <1>1, <1>3, <1>6
  <2>4. \A q \in saved : \E u \in Task : Kind(u) = "Command" /\ q \in Inputs(u) /\ Begun(u)'
    BY <1>2 DEF SaveInv, Begun
  <2>5. \A q \in saved \ broken : \A l \in Matched(q) : l \in Present' \/ (Saving(q)' /\ l \in saving'.keys)
    BY <1>3, <1>5 DEF SaveInv
  <2>6. ASSUME NEW u \in Task, worker[u] = "running", Kind(u) = "Command", body[u].at \in {"inputs", "exec"},
               NEW q \in Inputs(u) \ body[u].todo
        PROVE  q \in saved \ broken /\ (Saving(q)' => saveMu' = u)
    BY <1>0, <1>3, <2>6 DEF SaveInv
  <2>7. broken' \subseteq saved'
    BY <1>0 DEF SaveInv
  <2> QED
    BY <1>0, <1>2, <1>3, <1>6, <2>1, <2>2, <2>4, <2>5, <2>6, <2>7, DeclSame DEF SaveInv
<1>8. TmpInv'
  <2>1. torn' \subseteq Present' /\ (\A l \in Present' : Coming(l)') /\ Plain(tmp)'
    BY <1>0, <1>2, <1>5 DEF TmpInv, Coming, Plain
  <2>2. saving'.keys \ torn' = saving.keys \ torn
    BY <1>3, <1>5
  <2>3. ASSUME NEW l \in Present
        PROVE  ToolWrote(l) \/ \E q \in saved : AtOrUnder(l, q) /\ (Saving(q)' => l \notin saving'.keys \ torn')
    BY <1>3, <2>2, <2>3 DEF TmpInv
  <2>4. ASSUME NEW l \in torn'
        PROVE  \E q \in saved : AtOrUnder(l, q) /\ (q \in broken \/ (Saving(q)' /\ l \in saving'.keys))
    BY <1>3, <1>5, <2>4 DEF TmpInv
  <2> QED
    BY <1>0, <1>2, <1>5, <2>1, <2>3, <2>4, DeclSame DEF TmpInv
<1> QED
  BY <1>0, <1>1, <1>7, <1>8, SharedSaveKeeps

\* sharedSave returns.
LEMMA UnlockKeeps ==
    ASSUME BuildInv, BuildInv', CleanInv, NEW t \in Task, UnlockSave(t)
    PROVE  CleanInv'
<1> USE DEF BuildInv, FilesInv, CleanInv
<1>0. /\ worker[t] = "running" /\ body[t].at = "inputs" /\ saveMu = t /\ saving.keys = {} /\ t # NoTask
      /\ saveMu' = NoTask
      /\ Step(t, body[t])
      /\ UNCHANGED <<store, seen, saved, broken, saving, tmp, torn>>
  BY TaskAssumption DEF UnlockSave, In
<1>1. Kind(t) = "Command" /\ saving.open = NoPath
  BY <1>0 DEF SaveInv
<1>2. /\ UNCHANGED <<declVars, worker>> /\ body' = body
  BY <1>0, Stepped DEF BodyTypeOK
<1>3. (\A q : ~Saving(q)') /\ Present' = Present
  BY <1>0 DEF Saving, Present
<1>4. \A q : Matched(q)' = Matched(q)
  BY <1>0, MatchedSame
<1>5. SaveInv'
  <2>1. \A q \in saved : \E u \in Task : Kind(u) = "Command" /\ q \in Inputs(u) /\ Begun(u)'
    BY <1>2 DEF SaveInv, Begun
  <2>2. \A q \in saved \ broken : \A l \in Matched(q) : l \in Present'
    BY <1>0, <1>3 DEF SaveInv
  <2>3. ASSUME NEW u \in Task, worker[u] = "running", Kind(u) = "Command", body[u].at \in {"inputs", "exec"},
               NEW q \in Inputs(u) \ body[u].todo
        PROVE  q \in saved \ broken
    BY <2>3 DEF SaveInv
  <2>4. broken' \subseteq saved' /\ saving'.open = NoPath
    BY <1>0, <1>1 DEF SaveInv
  <2> QED
    BY <1>0, <1>2, <1>3, <1>4, <2>1, <2>2, <2>3, <2>4, DeclSame DEF SaveInv
<1>6. TmpInv'
  <2>1. torn' \subseteq Present' /\ (\A l \in Present' : Coming(l)') /\ Plain(tmp)'
    BY <1>0, <1>2, <1>3 DEF TmpInv, Coming, Plain
  <2>2. \A l \in Present : ToolWrote(l) \/ \E q \in saved : AtOrUnder(l, q)
    BY DEF TmpInv
  <2>3. \A l \in torn : \E q \in saved : AtOrUnder(l, q) /\ q \in broken
    BY <1>0 DEF TmpInv
  <2> QED
    BY <1>0, <1>2, <1>3, <2>1, <2>2, <2>3, DeclSame DEF TmpInv
<1> QED
  BY <1>0, <1>1, <1>5, <1>6, SharedSaveKeeps

-----------------------------------------------------------------------------
(***************************************************************************)
(* Builds with clean paths: every step, and what it comes to.              *)
(***************************************************************************)

LEMMA NextCleanInv == BuildInv /\ BuildInv' /\ CleanInv /\ [BuildNext]_buildVars => CleanInv'
<1> SUFFICES ASSUME BuildInv, BuildInv', CleanInv, [BuildNext]_buildVars PROVE CleanInv'
  OBVIOUS
<1>1. CASE Load \/ LoadFails \/ Schedule
  BY <1>1, LoadKeeps, ScheduleMoves, Unmoved
<1>2. CASE BuildTerminated \/ UNCHANGED buildVars
  <2>1. UNCHANGED <<declVars, bodyVars, worker>>
    BY <1>2 DEF BuildTerminated, buildVars, vars
  <2> QED
    BY <2>1, Unmoved DEF Begun, Finished
<1>3. ASSUME NEW t \in Task, Proceed(t) \/ BodyFails(t) PROVE CleanInv'
  <2>1. CASE BeginBody(t) \/ Replace(t) \/ Write(t) \/ BodySucceeds(t) \/ BodyFails(t)
    BY <2>1, BeginKeeps, ReplaceKeeps, SucceedsKeeps, FailsKeeps
  <2>2. CASE \E p \in body[t].todo : SaveInput(t, p) \/ GetInput(t, p) \/ SetPath(t, p)
    BY <2>2, ReadInputKeeps, SetPathKeeps
  <2>3. CASE \/ \E p \in body[t].todo : SkipSave(t, p) \/ LockSave(t, p)
             \/ \E k \in saving.keys : Truncate(t, k) \/ Rewrite(t, k)
             \/ UnlockSave(t)
    BY <2>3, SkipSaveKeeps, LockSaveKeeps, TruncateKeeps, RewriteKeeps, UnlockKeeps
  <2>4. CASE RunKustomize(t) \/ WriteJoined(t) \/ StartCommand(t) \/ CommandWrote(t)
    BY <2>4, InputsReadKeeps, CommandStartsKeeps, CommandWroteKeeps
  <2> QED
    BY <1>3, <2>1, <2>2, <2>3, <2>4 DEF Proceed
<1> QED
  BY <1>1, <1>2, <1>3 DEF BuildNext

\* In every reachable state of a build whose declared paths have no dot segments
\* the store, the shared directory and the write-to directory agree: each body has
\* read what the store holds of its inputs so far, each file of the shared
\* directory is a key of the store or about to be one, and each destination is as
\* it was found, empty, or what its sink wrote.
THEOREM CleanInductive == BuildSpec /\ PathsClean => []CleanInv
  BY InitBuildInv, NextBuildInv, InitCleanInv, NextCleanInv, PTL DEF BuildSpec

LEMMA ApartKept == InputsApart /\ [BuildNext]_buildVars => InputsApart'
<1> SUFFICES ASSUME InputsApart, [BuildNext]_buildVars PROVE InputsApart'
  OBVIOUS
<1> QED
  BY NextKeepsDecl, DeclSame DEF InputsApart

\* The render is a function of its declarations: whatever the interleaving of the
\* tasks, each body has read all its inputs ever stand for, if no declared path
\* has dot segments.
THEOREM ReadsAreCompleteHolds == BuildSpec /\ PathsClean => []ReadsAreComplete
<1>1. ASSUME BuildInv, CleanInv, NEW t \in Task, HasRead(t) PROVE seen[t] = SavedFiles(InputFiles(t))
  BY <1>1 DEF BuildInv, FilesInv, CleanInv, SeenInv, PlaceInv, HasRead, Finished
<1>2. BuildInv /\ CleanInv => ReadsAreComplete
  BY <1>1 DEF ReadsAreComplete
<1> QED
  BY <1>2, BuildInductive, CleanInductive, PTL

\* A re-render leaves no stale files and no file of another sink in a written
\* destination, under the same condition.
THEOREM SinksAreFreshHolds == BuildSpec /\ PathsClean => []SinksAreFresh
<1>1. CleanInv => SinksAreFresh
  BY DEF CleanInv, DeployInv, SinksAreFresh, At, Finished
<1> QED
  BY <1>1, CleanInductive, PTL

\* A failed dependency, a validator say, keeps a sink from touching its
\* destination, and every other sink from writing there, under the same condition.
THEOREM FailuresGateWritesHolds == BuildSpec /\ PathsClean => []FailuresGateWrites
<1>1. ASSUME BuildInv, CleanInv, NEW t \in Sinks,
             NEW v \in tasks[t].dependsOn, worker[v] \in {"failed", "recorded", "dropped"}
      PROVE  At(t) = PreviousAt(t)
  <2>1. t \in Task /\ v \in Task
    BY <1>1 DEF Sinks, BuildInv, DeclInv, GraphInv, VerdictInv, Accepted
  <2>2. v \in pred[t]
    BY <1>1, <2>1, EdgesFromInv DEF BuildInv, DeclInv, EdgesFollowData
  <2>3. worker[t] = "idle"
    BY <1>1, <2>1, <2>2, OrderFromInv DEF BuildInv, TopologicalOrder
  <2> QED
    BY <1>1, <2>3 DEF CleanInv, DeployInv, Begun
<1>2. BuildInv /\ CleanInv => FailuresGateWrites
  BY <1>1 DEF FailuresGateWrites, At, PreviousAt
<1> QED
  BY <1>2, BuildInductive, CleanInductive, PTL

\* Two saved paths with a file in common are one, if no input of a command lies
\* below another.
LEMMA SavedApart ==
    ASSUME BuildInv, CleanInv, InputsApart, NEW p \in saved, NEW t \in Task, Kind(t) = "Command",
           NEW q \in Inputs(t), NEW f \in Path, AtOrUnder(f, p), AtOrUnder(f, q)
    PROVE  p = q
<1>1. PICK u \in Task : Kind(u) = "Command" /\ p \in Inputs(u)
  BY DEF CleanInv, SaveInv
<1>2. p \in Path /\ q \in Path
  BY <1>1, Declared DEF BuildInv
<1> QED
  BY <1>1, <1>2, CommonFile DEF InputsApart, Overlap

\* No command reads a file another task is truncating and rewriting, if no
\* declared path has dot segments and no input of a command lies below another.
THEOREM NoTornReadsHolds == BuildSpec /\ PathsClean /\ InputsApart => []NoTornReads
<1>1. ASSUME BuildInv, CleanInv, InputsApart,
             NEW t \in Task, worker[t] = "running", body[t].at = "exec",
             NEW f \in seen[t], f.path \in torn
      PROVE  FALSE
  <2> USE <1>1 DEF BuildInv, FilesInv, CleanInv
  <2>1. PICK k \in InputFiles(t) : f = SavedFile(k)
    BY DEF SeenInv, SavedFiles
  <2>2. k \in store /\ \E q \in Inputs(t) : AtOrUnder(k, q)
    BY <2>1 DEF InputFiles
  <2>3. PICK q \in Inputs(t) : AtOrUnder(k, q)
    BY <2>2
  <2>4. k \in Path /\ f.path = k
    BY <2>1, <2>2, StoreClean, CleanFile
  <2>5. Kind(t) = "Command" /\ saveMu # t
    BY TaskAssumption DEF PlaceInv, SaveInv
  <2>6. PICK p \in saved : AtOrUnder(k, p) /\ (p \in broken \/ Saving(p))
    BY <2>4 DEF TmpInv
  <2>7. p = q
    BY <2>3, <2>4, <2>5, <2>6, SavedApart
  <2>8. body[t].todo = {}
    BY DEF PlaceInv
  <2> QED
    BY <2>3, <2>5, <2>6, <2>7, <2>8 DEF SaveInv
<1>2. ASSUME BuildInv, CleanInv, InputsApart PROVE NoTornReads
  BY <1>1, <1>2 DEF NoTornReads
<1> QED
  BY <1>2, BuildInductive, CleanInductive, ApartKept, PTL DEF BuildSpec

\* sharedSave truncates a file it has written before only where a tool left one
\* meanwhile, under the same two conditions.
THEOREM MaterializedOnceHolds == BuildSpec /\ PathsClean /\ InputsApart => MaterializedOnce
<1>1. ASSUME BuildInv, CleanInv, InputsApart, NEW t \in Task, NEW k \in saving.keys, Truncate(t, k),
             k \in Present, k \notin torn
      PROVE  ToolWrote(k)
  <2> USE <1>1 DEF BuildInv, FilesInv, CleanInv
  <2>1. saveMu = t /\ t # NoTask
    BY TaskAssumption DEF Truncate
  <2>2. /\ Kind(t) = "Command" /\ saving.path \in saved /\ saving.keys \subseteq Matched(saving.path)
        /\ Saving(saving.path)
    BY <2>1 DEF SaveInv, Saving
  <2>3. k \in Path /\ AtOrUnder(k, saving.path)
    BY <2>2, MatchedTyped
  <2>4. PICK u \in Task : Kind(u) = "Command" /\ saving.path \in Inputs(u)
    BY <2>2 DEF SaveInv
  <2>5. ASSUME NEW p \in saved, AtOrUnder(k, p), Saving(p) => k \notin saving.keys \ torn PROVE FALSE
    <3>1. p = saving.path
      BY <2>3, <2>4, <2>5, SavedApart
    <3> QED
      BY <2>2, <2>5, <3>1
  <2> QED
    BY <2>5 DEF TmpInv
<1>2. ASSUME BuildInv, CleanInv, InputsApart, BuildNext, NEW p \in torn' \ torn, NEW f \in tmp, f.path = p
      PROVE  ToolWrote(p)
  <2>1. CASE \E t \in Task : \E k \in saving.keys : Truncate(t, k)
    <3>1. PICK t \in Task, k \in saving.keys : Truncate(t, k)
      BY <2>1
    <3>2. k \in Path /\ CleanKey(k) /\ saveMu = t
      <4>1. saveMu = t /\ t # NoTask
        BY <3>1, TaskAssumption DEF Truncate
      <4>2. k \in Matched(saving.path)
        BY <1>2, <4>1 DEF CleanInv, SaveInv
      <4> QED
        BY <1>2, <4>1, <4>2, MatchedTyped, StoreClean DEF BuildInv, FilesInv, CleanInv
    <3>3. Clean(k) = k
      BY <3>2, CleanFile
    <3>4. k = p
      BY <1>2, <3>1, <3>3 DEF Truncate
    <3>5. k \in Present /\ k \notin torn
      BY <1>2, <3>4 DEF Present
    <3> QED
      BY <1>1, <1>2, <3>1, <3>4, <3>5
  <2>2. CASE Load \/ LoadFails \/ Schedule \/ BuildTerminated
    BY <1>2, <2>2 DEF Load, LoadFails, Schedule, BuildTerminated, buildVars, bodyVars, saveVars
  <2>3. ASSUME NEW t \in Task, Proceed(t) \/ BodyFails(t), \A k \in saving.keys : ~Truncate(t, k)
        PROVE  torn' \subseteq torn
    BY <2>3 DEF Proceed, BodyFails, BeginBody, SaveInput, GetInput, SkipSave, LockSave, SetPath, Rewrite, UnlockSave,
                RunKustomize, WriteJoined, StartCommand, CommandWrote, Replace, Write, BodySucceeds, bodyVars, saveVars
  <2> QED
    BY <1>2, <2>1, <2>2, <2>3 DEF BuildNext
<1>3. BuildInv /\ CleanInv /\ InputsApart /\ [BuildNext]_buildVars =>
          [\A p \in torn' \ torn : (\E f \in tmp : f.path = p) => ToolWrote(p)]_buildVars
  BY <1>2
<1> QED
  BY <1>3, BuildInductive, CleanInductive, ApartKept, PTL DEF BuildSpec, MaterializedOnce
=============================================================================
