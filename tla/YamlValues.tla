----------------------------- MODULE YamlValues -----------------------------
(***************************************************************************)
(* YAML values and what src/internal/compare/compare.go does with them:    *)
(* normalization, the filter for additional fields, the sort of lists, and *)
(* equality.                                                               *)
(*                                                                         *)
(* A value is a record of its type and its content: a scalar, always a     *)
(* string here, is a number that stands for the text, a map a function     *)
(* from its keys, a list a sequence.  cmp.Equal with the "sortSlices"      *)
(* transformer is equality after sorting every list; sort.Slice is stable  *)
(* at the lengths that occur.  What calls itself in the code is a          *)
(* recursive function here, on the values nested at most MaxDepth deep.    *)
(***************************************************************************)
EXTENDS Integers, SequencesExt

CONSTANTS
    Texts,    \* the texts of scalars
    Keys,     \* the keys of maps, in the order of their text
    MaxDepth  \* how deep values may be nested

ASSUME ValueAssumption == Texts \subseteq Int /\ Keys \in Seq(STRING) /\ MaxDepth \in Nat

-----------------------------------------------------------------------------

Fields == Range(Keys)
NoFields == [k \in {} |-> 0]

Content(type, scalar, map, list) == [type |-> type, scalar |-> scalar, map |-> map, list |-> list]

Null == Content("null", 0, NoFields, <<>>)
Scalar(s) == Content("scalar", s, NoFields, <<>>)
Map(m) == Content("map", 0, m, <<>>)
List(l) == Content("list", 0, NoFields, l)

\* What stands in a map at a key that it does not have.
Missing == Content("missing", 0, NoFields, <<>>)

\* The values whose fields and elements are in S.
Node(S) ==
    {v \in [type : {"missing", "null", "scalar", "map", "list"}, scalar : Texts \cup {0},
            map : {NoFields} \cup [Fields -> S], list : Seq(S)] :
        /\ v.type # "scalar" => v.scalar = 0
        /\ IF v.type = "map" THEN v.map \in [Fields -> S] ELSE v.map = NoFields
        /\ v.type # "list" => v.list = <<>>
        /\ \A i \in DOMAIN v.list : v.list[i] # Missing}

Level[n \in 0 .. MaxDepth] == Node(IF n = 0 THEN {} ELSE Level[n - 1])

Value == Level[MaxDepth]

-----------------------------------------------------------------------------
(***************************************************************************)
(* The order of lists.                                                     *)
(***************************************************************************)

\* v[k].(string)
HasText(v, k) == k \in DOMAIN v.map /\ v.map[k].type = "scalar"

\* The text of a value, as the sequence of its tokens.
Yaml[v \in Value] ==
    CASE v.type = "missing" -> <<>>
      [] v.type = "null"    -> <<-1>>
      [] v.type = "scalar"  -> <<v.scalar>>
      [] v.type = "list"    -> FlattenSeq([i \in DOMAIN v.list |-> <<-2>> \o Yaml[v.list[i]]])
      [] v.type = "map"     -> FlattenSeq([i \in DOMAIN Keys |->
             IF v.map[Keys[i]] = Missing THEN <<>> ELSE <<1000 + i>> \o Yaml[v.map[Keys[i]]]])

Metadata(v) == IF "metadata" \in DOMAIN v.map THEN v.map["metadata"] ELSE Missing

\* toComparableString: what a list element is sorted by.
HasName(v) == HasText(v, "artifact") \/ HasText(v, "name") \/ HasText(Metadata(v), "name")
Name(v) ==
    IF HasText(v, "artifact") THEN v.map["artifact"].scalar
    ELSE IF HasText(v, "name") THEN v.map["name"].scalar
    ELSE Metadata(v).map["name"].scalar
Comparable(v) == IF HasName(v) THEN <<Name(v)>> ELSE Yaml[v]

\* The order of texts: where they differ first, one has ended or has the smaller token.
Before(s, t) ==
    \E n \in 1 .. Len(t) :
        /\ n <= Len(s) + 1
        /\ \A i \in 1 .. (n - 1) : s[i] = t[i]
        /\ n <= Len(s) => s[n] < t[n]

\* The elements of l that are not behind the one at i.
NotBehind(l, i) ==
    {j \in DOMAIN l : \/ Before(Comparable(l[j]), Comparable(l[i]))
                      \/ Comparable(l[j]) = Comparable(l[i]) /\ j <= i}

\* BUG: lists keep their order.
SortNothing(l) == l

\* sortSlice
SortSlice(l) == [n \in DOMAIN l |-> l[CHOOSE i \in DOMAIN l : Cardinality(NotBehind(l, i)) = n]]

\* What the sortSlices transformer makes of a value and of all it holds.
Sorted[v \in Value] ==
    [v EXCEPT !.map = [k \in DOMAIN v.map |-> Sorted[v.map[k]]],
              !.list = [i \in DOMAIN v.list |-> Sorted[SortSlice(v.list)[i]]]]

\* documentsExactlyEqual
ExactlyEqual(v, w) == Sorted[v] = Sorted[w]

-----------------------------------------------------------------------------
(***************************************************************************)
(* The comparison of two documents.                                        *)
(***************************************************************************)

\* normalizeStructure: null and empty fields are as good as missing.
Normalize[v \in Value] ==
    CASE v.type = "map" ->
             Map([k \in Fields |->
                     LET field == Normalize[v.map[k]] IN IF field.type = "null" THEN Missing ELSE field])
      [] v.type = "list" ->
             IF v.list = <<>> THEN Null ELSE List([i \in DOMAIN v.list |-> Normalize[v.list[i]]])
      [] OTHER -> v

\* filterToCommonFields(v, w) at <<v, w>>: v without the fields that w does not have.
FilterToCommonFields[p \in Value \X Value] ==
    LET v == p[1]
        w == p[2]
    IN  CASE v.type = "map" /\ w.type = "map" ->
                 Map([k \in Fields |->
                         IF w.map[k] = Missing THEN Missing ELSE FilterToCommonFields[<<v.map[k], w.map[k]>>]])
          [] v.type = "list" /\ w.type = "list" ->
                 List([i \in DOMAIN v.list \cap DOMAIN w.list |->
                          FilterToCommonFields[<<v.list[i], w.list[i]>>]])
          [] OTHER -> v

\* BUG: the wrong side loses its fields.
CompareFilteringOne(doc1, doc2, backwards) ==
    LET norm1 == Normalize[doc1]
        norm2 == Normalize[doc2]
    IN  ExactlyEqual(IF backwards THEN FilterToCommonFields[<<norm1, norm2>>] ELSE norm1, norm2)

\* compareStructures
CompareStructures(doc1, doc2, backwards) ==
    LET norm1 == Normalize[doc1]
        norm2 == Normalize[doc2]
    IN  ExactlyEqual(norm1, IF backwards THEN FilterToCommonFields[<<norm2, norm1>>] ELSE norm2)

-----------------------------------------------------------------------------
(***************************************************************************)
(* What the comparison is about, whatever the order of lists.              *)
(***************************************************************************)

\* The ways to assign to each element of a sequence its own element of another.
Matchings(s, t) == {f \in [DOMAIN s -> DOMAIN t] : \A i, j \in DOMAIN s : f[i] = f[j] => i = j}

\* At <<v, w>>: the same value, with the elements of lists in any order.
SameUpToOrder[p \in Value \X Value] ==
    LET v == p[1]
        w == p[2]
    IN  /\ v.type = w.type /\ v.scalar = w.scalar
        /\ \A k \in DOMAIN v.map : SameUpToOrder[<<v.map[k], w.map[k]>>]
        /\ Len(v.list) = Len(w.list)
        /\ \E f \in Matchings(v.list, w.list) :
               \A i \in DOMAIN v.list : SameUpToOrder[<<v.list[i], w.list[f[i]]>>]

\* At <<after, before>>: after has everything that before has.
Covers[p \in Value \X Value] ==
    LET after == p[1]
        before == p[2]
    IN  \/ before = Missing
        \/ /\ after.type = before.type /\ after.scalar = before.scalar
           /\ \A k \in DOMAIN before.map : Covers[<<after.map[k], before.map[k]>>]
           /\ \E f \in Matchings(before.list, after.list) :
                  \A i \in DOMAIN before.list : Covers[<<after.list[f[i]], before.list[i]>>]

\* The same map but for what stands at k, or the same list but for its order.
OnlyAt(k, v, w) ==
    /\ k \in DOMAIN v.map /\ k \in DOMAIN w.map
    /\ w = [v EXCEPT !.map = [v.map EXCEPT ![k] = w.map[k]]]
OnlyOrder(v, w) ==
    /\ Len(v.list) = Len(w.list)
    /\ w = [v EXCEPT !.list = w.list]
    /\ \E f \in Matchings(v.list, w.list) : \A i \in DOMAIN v.list : w.list[f[i]] = v.list[i]

\* No two elements of a list are sorted by one text.
NamesDiffer(v) == \A i, j \in DOMAIN v.list : Comparable(v.list[i]) = Comparable(v.list[j]) => i = j

\* "Objects in the spec.artifacts list may appear in any arbitrary order."  The
\* artifacts have different names: of two with one name the sort keeps the order.
SameArtifacts(v, w) ==
    /\ OnlyAt("artifacts", v, w)
    /\ OnlyOrder(v.map["artifacts"], w.map["artifacts"])
    /\ NamesDiffer(v.map["artifacts"])
SamePlan(v, w) == v = w \/ (OnlyAt("spec", v, w) /\ SameArtifacts(v.map["spec"], w.map["spec"]))
=============================================================================
