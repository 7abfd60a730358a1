----------------------------- MODULE MCCompare ------------------------------
(***************************************************************************)
(* TLC instance of Compare: files of a document out of fourteen, of two    *)
(* out of ten and of three out of three, in both modes.                    *)
(***************************************************************************)
EXTENDS Compare

MCKeys == <<"artifact", "artifacts", "list", "metadata", "name", "spec", "x">>
MCTexts == 0 .. 2

With(m) == Map([k \in Fields |-> IF k \in DOMAIN m THEN m[k] ELSE Missing])
Artifact(n) == "artifact" :> Scalar(n)
Named(n) == "name" :> Scalar(n)
X(n) == "x" :> Scalar(n)
Listing(l) == With("list" :> List(l))
Plan(l) == With("spec" :> With("artifacts" :> List(l)))

a == With(X(1))
aEmpty == With(X(1) @@ ("list" :> List(<<>>)))
aNull == With(X(1) @@ ("name" :> Null))
b == With(X(2))
bEmpty == With(X(2) @@ ("list" :> List(<<>>)))

\* BuildPlans whose artifacts are swapped, with a field and an element more, and
\* with two artifacts of one name.
named == Plan(<<With(Artifact(1)), With(Named(2) @@ X(1))>>)
swapped == Plan(<<With(Named(2) @@ X(1)), With(Artifact(1))>>)
longer == Plan(<<With(Artifact(1) @@ X(2)), With(Named(2) @@ X(1)), With("metadata" :> With(Named(0)))>>)
alike == Plan(<<With(Named(1)), With(Named(1) @@ X(1))>>)
alikeSwapped == Plan(<<With(Named(1) @@ X(1)), With(Named(1))>>)

\* Lists that are not spec.artifacts: the elements in another order, and the
\* elements of an element, by whose text it is sorted.
Pair(i, j) == Listing(<<Scalar(i), Scalar(j)>>)
nested == Listing(<<Pair(0, 2), Pair(1, 0)>>)
reordered == Listing(<<Pair(2, 0), Pair(1, 0)>>)
inOrder == Listing(<<Scalar(1), Pair(0, 2)>>)
turned == Listing(<<Pair(0, 2), Scalar(1)>>)

MCDocuments ==
    {a, aEmpty, aNull, b, named, swapped, longer, alike, alikeSwapped,
     nested, reordered, inOrder, turned, Null}

MCPairs == MCDocuments \ {alike, alikeSwapped, inOrder, turned}

MCFiles ==
    {<<>>, <<Scalar(1)>>} \cup [1 .. 1 -> MCDocuments] \cup [1 .. 2 -> MCPairs]
        \cup [1 .. 3 -> {a, aEmpty, b}] \cup {<<aEmpty, bEmpty>>}
=============================================================================
