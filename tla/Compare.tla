------------------------------ MODULE Compare -------------------------------
(***************************************************************************)
(* "holos compare buildplans": Comparer.BuildPlans of                      *)
(* src/internal/compare/compare.go.  It decides whether two streams of     *)
(* YAML documents are equivalent.  compareDocumentLists makes two passes   *)
(* over the documents of the first, each a step here.  The text of the     *)
(* difference is left out.                                                 *)
(***************************************************************************)
EXTENDS YamlValues

CONSTANT Files  \* the streams a file may hold, sequences of YAML values

ASSUME FilesAssumption == \A f \in Files : f \in Seq(Value)

VARIABLES
    one, two,     \* the files
    isBackwards,  \* the flag --backwards-compatible
    pass,         \* "read", "exact" or "second"
    treated,      \* how many documents of one the pass has treated
    used,         \* the documents of two that are used
    verdict       \* "pending", "equivalent", "different" or "error"

input == <<one, two, isBackwards>>
compareVars == <<input, pass, treated, used, verdict>>

-----------------------------------------------------------------------------

\* parseYAMLStream: null documents are skipped; any other must be a map.
Parses(file) == \A i \in DOMAIN file : file[i].type \in {"null", "map"}
Documents(file) ==
    LET kept == {i \in DOMAIN file : file[i].type # "null"}
        place(i) == Cardinality({j \in kept : j <= i})
    IN  [n \in 1 .. Cardinality(kept) |-> file[CHOOSE i \in kept : place(i) = n]]

Docs1 == Documents(one)
Docs2 == Documents(two)

LeastOf(S) == CHOOSE j \in S : \A k \in S : j <= k

Unused == DOMAIN Docs2 \ used

\* Where a pass stands: some document is left, or none.
Treating(p) == verdict = "pending" /\ pass = p /\ treated < Len(Docs1)
AtEnd(p) == verdict = "pending" /\ pass = p /\ treated = Len(Docs1)

Init ==
    /\ one \in Files /\ two \in Files
    /\ isBackwards \in BOOLEAN
    /\ pass = "read" /\ treated = 0 /\ used = {}
    /\ verdict = "pending"

\* Both files are empty, or one cannot be parsed.
CompareFails ==
    /\ verdict = "pending" /\ pass = "read"
    /\ (one = <<>> /\ two = <<>>) \/ ~Parses(one) \/ ~Parses(two)
    /\ verdict' = "error"
    /\ UNCHANGED <<input, pass, treated, used>>

Read ==
    /\ verdict = "pending" /\ pass = "read"
    /\ one # <<>> \/ two # <<>>
    /\ Parses(one) /\ Parses(two)
    /\ IF Len(Docs1) = Len(Docs2)
          THEN pass' = "exact" /\ verdict' = verdict
          ELSE verdict' = "different" /\ pass' = pass
    /\ UNCHANGED <<input, treated, used>>

\* The first pass marks, for each document, the first unused one equal to it.
MatchExactly ==
    /\ Treating("exact")
    /\ LET equal == {j \in Unused : ExactlyEqual(Docs1[treated + 1], Docs2[j])}
       IN  used' = IF equal = {} THEN used ELSE used \cup {LeastOf(equal)}
    /\ treated' = treated + 1
    /\ UNCHANGED <<input, pass, verdict>>

BeginSecond ==
    /\ AtEnd("exact")
    /\ pass' = "second" /\ treated' = 0
    /\ UNCHANGED <<input, used, verdict>>

\* The second pass skips a document that equals a used one, whoever used it.
Matched(i) == \E j \in used : ExactlyEqual(Docs1[i], Docs2[j])

Skip ==
    /\ Treating("second")
    /\ Matched(treated + 1) \/ Unused = {}
    /\ treated' = treated + 1
    /\ UNCHANGED <<input, pass, used, verdict>>

\* BUG: the document compared against is not marked.
UseNot(j) == used

Use(j) == used \cup {j}

\* It compares any other with the next unused one, which need not be the one that
\* is equivalent to it.
CompareWithNext ==
    /\ Treating("second")
    /\ ~Matched(treated + 1) /\ Unused # {}
    /\ LET j == LeastOf(Unused)
       IN  IF CompareStructures(Docs1[treated + 1], Docs2[j], isBackwards)
              THEN used' = Use(j) /\ treated' = treated + 1 /\ verdict' = verdict
              ELSE verdict' = "different" /\ UNCHANGED <<used, treated>>
    /\ UNCHANGED <<input, pass>>

Accept ==
    /\ AtEnd("second")
    /\ verdict' = "equivalent"
    /\ UNCHANGED <<input, pass, treated, used>>

Compared == verdict # "pending" /\ UNCHANGED compareVars

Next ==
    \/ CompareFails \/ Read
    \/ MatchExactly \/ BeginSecond
    \/ Skip \/ CompareWithNext \/ Accept
    \/ Compared

Spec == Init /\ [][Next]_compareVars

-----------------------------------------------------------------------------

TypeOK ==
    /\ one \in Files /\ two \in Files
    /\ isBackwards \in BOOLEAN
    /\ pass \in {"read", "exact", "second"}
    /\ treated \in 0 .. Len(Docs1)
    /\ used \subseteq DOMAIN Docs2
    /\ verdict \in {"pending", "equivalent", "different", "error"}

\* The documents of the files can be matched one to one with R.
CanBeMatched(R(_, _)) ==
    /\ Len(Docs1) = Len(Docs2)
    /\ \E f \in Matchings(Docs1, Docs2) : \A i \in DOMAIN Docs1 : R(Docs1[i], Docs2[f[i]])

\* BuildPlans in another order, whose spec.artifacts are in another order, are
\* equivalent in both modes: "Objects in the spec.artifacts list may appear in any
\* arbitrary order", and the documents of the file too.
PermutationsAccepted == verdict = "different" => ~CanBeMatched(SamePlan)

\* What two documents have in common that the code takes for equivalent in the
\* strict mode: less than the comment asks for, as the order of no list matters.
SameButOrder(v, w) == SameUpToOrder[<<Normalize[v], Normalize[w]>>]

\* "Each object in one is equivalent to exactly one unique object in two", for the
\* code's own equivalence: the passes are greedy and the second looks at used
\* documents again, yet what they accept can be matched one to one, unless the
\* first file repeats a document ([A, A] is accepted against [A, B]).
AcceptedMeansMatched ==
    /\ verdict = "equivalent" /\ ~isBackwards
    /\ \A i, j \in DOMAIN Docs1 : ExactlyEqual(Docs1[i], Docs1[j]) => i = j
    => CanBeMatched(SameButOrder)

\* The equivalence of the comment: "Field f is equivalent when before.f exactly
\* equals after.f, except for" the order of spec.artifacts and of keys; and null,
\* empty and missing lists are equivalent.
Equivalent(v, w) == SamePlan(Normalize[v], Normalize[w])

\* The comment's verdict, half by half, and the code meets neither.  It accepts
\* what is not equivalent: lists other than spec.artifacts in another order ...
OnlyEquivalentAccepted == verdict = "equivalent" /\ ~isBackwards => CanBeMatched(Equivalent)

\* ... and rejects what is: documents in another order that also differ in a null
\* or an empty field, as the second pass compares what comes next.
EquivalentAccepted == verdict = "different" => ~CanBeMatched(Equivalent)

\* "Fields in before must always be present in after (regardless of backwards
\* compatibility mode)": whatever the filter, which pairs list elements by their
\* position before they are sorted, removes from after, nothing of before is
\* missing there.
FieldsOfBeforeKept ==
    verdict = "equivalent" =>
        \A i \in DOMAIN Docs1 : \E j \in DOMAIN Docs2 :
            Covers[<<Normalize[Docs2[j]], Normalize[Docs1[i]]>>]
=============================================================================
