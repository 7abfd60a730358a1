--------------------------- MODULE CompareProofs ----------------------------
EXTENDS Compare, FiniteSetTheorems, WellFoundedInduction, TLAPS

LEMMA LeastNumber ==
    ASSUME NEW S \in SUBSET Nat, S # {}
    PROVE  \E m \in S : \A k \in S : m <= k
<1>1. PICK m \in S : \A k \in S : <<k, m>> \notin OpToRel(<, Nat)
  BY NatLessThanWellFounded, WFMin
<1>2. \A k \in S : ~(k < m)
  BY <1>1 DEF OpToRel
<1> QED
  BY <1>2

\* Induction, with the predicate as a set.
LEMMA NumbersByInduction ==
    ASSUME NEW S, 0 \in S, \A n \in Nat : n \in S => n + 1 \in S
    PROVE  Nat \subseteq S
<1> SUFFICES ASSUME ~(Nat \subseteq S) PROVE FALSE
  OBVIOUS
<1>1. PICK m \in Nat \ S : \A k \in Nat \ S : m <= k
  BY LeastNumber
<1>2. m # 0 /\ m - 1 \in Nat /\ m - 1 \in S
  BY <1>1
<1> QED
  BY <1>1, <1>2

LEMMA LevelDefined ==
    Level = [n \in 0 .. MaxDepth |-> Node(IF n = 0 THEN {} ELSE Level[n - 1])]
<1> DEFINE Good == {n \in Nat : \E g : g = [k \in 0 .. n |-> Node(IF k = 0 THEN {} ELSE g[k - 1])]}
<1>1. 0 \in Good
  <2> DEFINE g == [k \in 0 .. 0 |-> Node({})]
  <2>1. g = [k \in 0 .. 0 |-> Node(IF k = 0 THEN {} ELSE g[k - 1])]
    OBVIOUS
  <2> QED
    BY <2>1
<1>2. ASSUME NEW n \in Nat, n \in Good PROVE n + 1 \in Good
  <2>1. PICK g : g = [k \in 0 .. n |-> Node(IF k = 0 THEN {} ELSE g[k - 1])]
    BY <1>2
  <2> DEFINE h == [k \in 0 .. (n + 1) |-> Node(IF k = 0 THEN {} ELSE g[k - 1])]
  <2>2. \A k \in 0 .. n : h[k] = g[k]
    BY <2>1
  <2>3. \A k \in 0 .. (n + 1) : k # 0 => h[k - 1] = g[k - 1]
    BY <2>2
  <2>4. h = [k \in 0 .. (n + 1) |-> Node(IF k = 0 THEN {} ELSE h[k - 1])]
    BY <2>3
  <2> HIDE DEF h
  <2>5. \E x : x = [k \in 0 .. (n + 1) |-> Node(IF k = 0 THEN {} ELSE x[k - 1])]
    BY <2>4
  <2> QED
    BY <2>5
<1>3. MaxDepth \in Good
  BY <1>1, <1>2, NumbersByInduction, ValueAssumption
<1>4. \E g : g = [n \in 0 .. MaxDepth |-> Node(IF n = 0 THEN {} ELSE g[n - 1])]
  BY <1>3
<1> QED
  BY <1>4 DEF Level

LEMMA LevelIs ==
    ASSUME NEW n \in 0 .. MaxDepth
    PROVE  Level[n] = Node(IF n = 0 THEN {} ELSE Level[n - 1])
BY LevelDefined

\* A value is a record, its fields and elements come from S, and each type has only
\* its own content.
LEMMA NodeShape ==
    ASSUME NEW S, NEW v \in Node(S)
    PROVE  /\ v = Content(v.type, v.scalar, v.map, v.list)
           /\ v.type \in {"missing", "null", "scalar", "map", "list"}
           /\ v.scalar \in Texts \cup {0}
           /\ v.map = NoFields \/ v.map \in [Fields -> S]
           /\ v.list \in Seq(S)
           /\ v.type = "map" => v.map \in [Fields -> S]
           /\ v.type # "map" => v.map = NoFields
           /\ v.type # "scalar" => v.scalar = 0
           /\ v.type # "list" => v.list = <<>>
           /\ \A i \in DOMAIN v.list : v.list[i] # Missing
BY DEF Node, Content

LEMMA NodeMade ==
    ASSUME NEW S
    PROVE  /\ Missing \in Node(S) /\ Null \in Node(S)
           /\ \A m \in [Fields -> S] : Map(m) \in Node(S)
           /\ \A l \in Seq(S) : (\A i \in DOMAIN l : l[i] # Missing) => List(l) \in Node(S)
<1>1. <<>> \in Seq(S)
  OBVIOUS
<1> QED
  BY <1>1 DEF Node, Missing, Null, Map, List, Content

LEMMA ListMade ==
    ASSUME NEW S, NEW n \in Nat, NEW l, l \in [1 .. n -> S], \A i \in 1 .. n : l[i] # Missing
    PROVE  List(l) \in Node(S)
<1>1. l \in Seq(S) /\ DOMAIN l = 1 .. n
  OBVIOUS
<1> QED
  BY <1>1, NodeMade

LEMMA NodeMonotone ==
    ASSUME NEW S, NEW T, S \subseteq T
    PROVE  Node(S) \subseteq Node(T)
<1> SUFFICES ASSUME NEW v \in Node(S) PROVE v \in Node(T)
  OBVIOUS
<1>1. v.map \in [Fields -> S] => v.map \in [Fields -> T]
  OBVIOUS
<1>2. v.list \in Seq(T)
  BY NodeShape
<1> QED
  BY <1>1, <1>2 DEF Node

LEMMA LevelsGrow == \A n \in 0 .. MaxDepth : n # 0 => Level[n - 1] \subseteq Level[n]
<1> DEFINE Good == {n \in Nat : n + 1 \in 0 .. MaxDepth => Level[n] \subseteq Level[n + 1]}
<1>1. 0 \in Good
  <2>1. CASE 1 \in 0 .. MaxDepth
    <3>1. Level[0] = Node({}) /\ Level[1] = Node(Level[0])
      BY <2>1, LevelIs, ValueAssumption
    <3> QED
      BY <3>1, NodeMonotone
  <2> QED
    BY <2>1
<1>2. ASSUME NEW n \in Nat, n \in Good PROVE n + 1 \in Good
  <2>1. CASE n + 2 \in 0 .. MaxDepth
    <3>1. n + 1 \in 0 .. MaxDepth /\ Level[n] \subseteq Level[n + 1]
      BY <1>2, <2>1, ValueAssumption
    <3>2. Level[n + 1] = Node(Level[n]) /\ Level[n + 2] = Node(Level[n + 1])
      <4>1. Level[n + 1] = Node(Level[(n + 1) - 1])
        BY <3>1, LevelIs
      <4>2. Level[n + 2] = Node(Level[(n + 2) - 1])
        BY <2>1, LevelIs
      <4> QED
        BY <4>1, <4>2
    <3> QED
      BY <3>1, <3>2, NodeMonotone
  <2> QED
    BY <2>1
<1>3. Nat \subseteq Good
  BY <1>1, <1>2, NumbersByInduction
<1> SUFFICES ASSUME NEW n \in 0 .. MaxDepth, n # 0 PROVE Level[n - 1] \subseteq Level[n]
  OBVIOUS
<1>4. n - 1 \in Good
  BY <1>3
<1> QED
  BY <1>4

LEMMA LevelsAreValues == \A n \in 0 .. MaxDepth : Level[n] \subseteq Value
<1> DEFINE Good == {n \in Nat : n \in 0 .. MaxDepth => Level[MaxDepth - n] \subseteq Value}
<1>1. 0 \in Good
  BY ValueAssumption DEF Value
<1>2. ASSUME NEW n \in Nat, n \in Good PROVE n + 1 \in Good
  <2>1. CASE n + 1 \in 0 .. MaxDepth
    <3>1. n \in 0 .. MaxDepth /\ MaxDepth - n \in 0 .. MaxDepth /\ MaxDepth - n # 0
      BY <2>1, ValueAssumption
    <3>2. Level[(MaxDepth - n) - 1] \subseteq Level[MaxDepth - n]
      BY <3>1, LevelsGrow
    <3>3. (MaxDepth - n) - 1 = MaxDepth - (n + 1)
      BY ValueAssumption
    <3> QED
      BY <1>2, <3>1, <3>2, <3>3
  <2> QED
    BY <2>1
<1>3. Nat \subseteq Good
  BY <1>1, <1>2, NumbersByInduction
<1> SUFFICES ASSUME NEW n \in 0 .. MaxDepth PROVE Level[n] \subseteq Value
  OBVIOUS
<1>4. MaxDepth - n \in Nat /\ MaxDepth - n \in 0 .. MaxDepth /\ MaxDepth - (MaxDepth - n) = n
  BY ValueAssumption
<1>5. MaxDepth - n \in Good
  BY <1>3, <1>4
<1> QED
  BY <1>4, <1>5

\* The fields and elements of a value.
Children(v) == {v.map[k] : k \in DOMAIN v.map} \cup {v.list[i] : i \in DOMAIN v.list}

\* The values nested less deep than those of level n.
Below(n) == IF n = 0 THEN {} ELSE Level[n - 1]

LEMMA LevelShape ==
    ASSUME NEW n \in 0 .. MaxDepth, NEW v \in Level[n]
    PROVE  v \in Value /\ v \in Node(Below(n)) /\ Children(v) \subseteq Below(n) /\ Below(n) \subseteq Level[n]
<1>1. v \in Node(Below(n))
  BY LevelIs DEF Below
<1>2. Children(v) \subseteq Below(n)
  BY <1>1, NodeShape DEF Children, NoFields
<1>3. Below(n) \subseteq Level[n]
  BY LevelsGrow DEF Below
<1> QED
  BY <1>1, <1>2, <1>3, LevelsAreValues

LEMMA ValueIsNode == Value \subseteq Node(Value)
<1> SUFFICES ASSUME NEW v \in Value PROVE v \in Node(Value)
  OBVIOUS
<1>1. v \in Node(Below(MaxDepth)) /\ Below(MaxDepth) \subseteq Value
  BY LevelShape, ValueAssumption DEF Value
<1> QED
  BY <1>1, NodeMonotone

\* What holds of a level when it holds of the one below holds of all.
LEMMA LevelInduction ==
    ASSUME NEW S, \A n \in 0 .. MaxDepth : n = 0 \/ n - 1 \in S => n \in S
    PROVE  MaxDepth \in S
<1> DEFINE Good == {n \in Nat : n \in 0 .. MaxDepth => n \in S}
<1>1. 0 \in Good
  BY ValueAssumption
<1>2. ASSUME NEW n \in Nat, n \in Good PROVE n + 1 \in Good
  <2>1. CASE n + 1 \in 0 .. MaxDepth
    <3>1. n \in 0 .. MaxDepth /\ (n + 1) - 1 = n
      BY <2>1, ValueAssumption
    <3>2. n \in S
      BY <1>2, <3>1
    <3> QED
      BY <2>1, <3>1, <3>2
  <2> QED
    BY <2>1
<1>3. MaxDepth \in Good
  BY <1>1, <1>2, NumbersByInduction, ValueAssumption
<1> QED
  BY <1>3, ValueAssumption

\* What holds of a value when it holds of its fields and elements holds of all.
LEMMA ValuesByInduction ==
    ASSUME NEW S, \A v \in Value : Children(v) \subseteq S => v \in S
    PROVE  Value \subseteq S
<1> DEFINE Good == {n \in 0 .. MaxDepth : Level[n] \subseteq S}
<1>1. ASSUME NEW n \in 0 .. MaxDepth, n = 0 \/ n - 1 \in Good PROVE n \in Good
  <2>1. Below(n) \subseteq S
    BY <1>1 DEF Below
  <2>2. Level[n] \subseteq S
    BY <2>1, LevelShape
  <2> QED
    BY <2>2
<1>2. MaxDepth \in Good
  <2> HIDE DEF Good
  <2> QED
    BY <1>1, LevelInduction
<1> QED
  BY <1>2 DEF Value

-----------------------------------------------------------------------------

LEMMA Counted ==
    ASSUME NEW n \in Nat
    PROVE  IsFiniteSet(1 .. n) /\ Cardinality(1 .. n) = n
BY FS_Interval

\* The elements of D are told apart by how many are in L of them.
ToldApart(D, L) ==
    /\ \A i \in D : Cardinality(L[i]) \in 1 .. Cardinality(D)
    /\ \A i, j \in D : Cardinality(L[i]) = Cardinality(L[j]) => i = j
    /\ \A n \in 1 .. Cardinality(D) : \E i \in D : Cardinality(L[i]) = n

\* So they are when L is the elements not behind them in a chain.
LEMMA ChainRanks ==
    ASSUME NEW D, IsFiniteSet(D), NEW L \in [D -> SUBSET D],
           \A i \in D : i \in L[i],
           \A i, j \in D : i \in L[j] \/ j \in L[i],
           \A i, j \in D : i \in L[j] => L[i] \subseteq L[j],
           \A i, j \in D : i \in L[j] /\ j \in L[i] => i = j
    PROVE  ToldApart(D, L)
<1>1. Cardinality(D) \in Nat
  BY FS_CardinalityType
<1>2. ASSUME NEW i \in D PROVE IsFiniteSet(L[i]) /\ Cardinality(L[i]) \in 1 .. Cardinality(D)
  <2>1. IsFiniteSet(L[i]) /\ Cardinality(L[i]) <= Cardinality(D)
    BY FS_Subset
  <2>2. Cardinality(L[i]) \in Nat /\ Cardinality(L[i]) # 0
    BY <2>1, FS_CardinalityType, FS_EmptySet
  <2> QED
    BY <1>1, <2>1, <2>2
<1>3. ASSUME NEW i \in D, NEW j \in D, Cardinality(L[i]) = Cardinality(L[j]) PROVE i = j
  <2>1. ASSUME NEW p \in D, NEW q \in D, Cardinality(L[p]) = Cardinality(L[q]), p \in L[q] PROVE p = q
    <3>1. L[p] \subseteq L[q] /\ IsFiniteSet(L[q])
      BY <1>2, <2>1
    <3>2. L[p] = L[q]
      BY <2>1, <3>1, FS_Subset
    <3> QED
      BY <2>1, <3>2
  <2> QED
    BY <1>3, <2>1
<1> DEFINE m == Cardinality(D)
           rank == [i \in D |-> Cardinality(L[i])]
<1>4. IsFiniteSet(1 .. m) /\ Cardinality(1 .. m) = m
  BY <1>1, Counted
<1>5. rank \in Injection(D, 1 .. m)
  BY <1>2, <1>3 DEF Injection, IsInjective
<1>6. rank \in Surjection(D, 1 .. m)
  <2> HIDE DEF rank
  <2> QED
    BY <1>4, <1>5, FS_Injection
<1>7. \A n \in 1 .. m : \E i \in D : rank[i] = n
  BY <1>6 DEF Surjection
<1> QED
  BY <1>2, <1>3, <1>7 DEF ToldApart

-----------------------------------------------------------------------------
(***************************************************************************)
(* Texts.                                                                  *)
(***************************************************************************)

\* The recursive function inside FlattenSeq exists.
LEMMA FlattenDefined ==
    ASSUME NEW ss, NEW m \in Nat
    PROVE  \E g : g = [i \in 1 .. m |-> IF i = 1 THEN ss[i] ELSE g[i - 1] \o ss[i]]
<1> DEFINE Item(g, i) == IF i = 1 THEN ss[i] ELSE g[i - 1] \o ss[i]
           Good == {n \in Nat : \E g : g = [i \in 1 .. n |-> Item(g, i)]}
<1>0. ASSUME NEW g, NEW h, NEW i \in Nat, i # 1 => h[i - 1] = g[i - 1]
      PROVE  Item(h, i) = Item(g, i)
  BY <1>0
<1> HIDE DEF Item
<1>1. 0 \in Good
  <2> DEFINE g == [i \in 1 .. 0 |-> <<>>]
  <2>1. g = [i \in 1 .. 0 |-> Item(g, i)]
    OBVIOUS
  <2> HIDE DEF g
  <2> QED
    BY <2>1
<1>2. ASSUME NEW n \in Nat, n \in Good PROVE n + 1 \in Good
  <2>1. PICK g : g = [i \in 1 .. n |-> Item(g, i)]
    BY <1>2
  <2> DEFINE h == [i \in 1 .. (n + 1) |-> Item(g, i)]
  <2>2. ASSUME NEW i \in 1 .. n PROVE h[i] = g[i]
    <3>1. g[i] = Item(g, i)
      BY <2>1
    <3> QED
      BY <3>1
  <2>3. ASSUME NEW i \in 1 .. (n + 1) PROVE Item(h, i) = Item(g, i)
    <3> HIDE DEF h
    <3>1. i # 1 => i - 1 \in 1 .. n
      OBVIOUS
    <3> QED
      BY <1>0, <2>2, <3>1
  <2>4. h = [i \in 1 .. (n + 1) |-> Item(h, i)]
    BY <2>3, Zenon
  <2> HIDE DEF h
  <2>5. \E x : x = [i \in 1 .. (n + 1) |-> Item(x, i)]
    BY <2>4, Zenon
  <2> QED
    BY <2>5
<1>3. m \in Good
  <2> HIDE DEF Good
  <2> QED
    BY <1>1, <1>2, NumbersByInduction
<1>4. \E g : g = [i \in 1 .. m |-> Item(g, i)]
  BY <1>3
<1> QED
  BY <1>4 DEF Item

LEMMA Flattened ==
    ASSUME NEW T, NEW ss \in Seq(Seq(T))
    PROVE  FlattenSeq(ss) \in Seq(T)
<1> DEFINE m == Len(ss)
           flat == CHOOSE g : g = [i \in 1 .. m |-> IF i = 1 THEN ss[i] ELSE g[i - 1] \o ss[i]]
<1>1. m \in Nat /\ \A i \in 1 .. m : ss[i] \in Seq(T)
  OBVIOUS
<1>2. FlattenSeq(ss) = IF m = 0 THEN ss ELSE flat[m]
  BY DEF FlattenSeq
<1> HIDE DEF m
<1>3. flat = [i \in 1 .. m |-> IF i = 1 THEN ss[i] ELSE flat[i - 1] \o ss[i]]
  BY <1>1, FlattenDefined
<1> HIDE DEF flat
<1> DEFINE Good == {n \in Nat : n \in 1 .. m => flat[n] \in Seq(T)}
<1>4. 0 \in Good
  OBVIOUS
<1>5. ASSUME NEW n \in Nat, n \in Good PROVE n + 1 \in Good
  <2>1. CASE n + 1 \in 1 .. m
    <3>1. flat[n + 1] = IF n + 1 = 1 THEN ss[n + 1] ELSE flat[(n + 1) - 1] \o ss[n + 1]
      BY <1>3, <2>1
    <3>2. ss[n + 1] \in Seq(T)
      BY <1>1, <2>1
    <3>3. CASE n # 0
      <4>1. n \in 1 .. m /\ (n + 1) - 1 = n /\ n + 1 # 1
        BY <1>1, <2>1, <3>3
      <4>2. flat[n] \in Seq(T)
        BY <1>5, <4>1
      <4>3. flat[n + 1] = flat[n] \o ss[n + 1]
        BY <3>1, <4>1
      <4>4. flat[n + 1] \in Seq(T)
        BY <3>2, <4>2, <4>3
      <4> QED
        BY <4>4
    <3>4. CASE n = 0
      BY <3>1, <3>2, <3>4
    <3> QED
      BY <3>3, <3>4
  <2> QED
    BY <2>1
<1>6. m \in Good
  <2> HIDE DEF Good
  <2> QED
    BY <1>1, <1>4, <1>5, NumbersByInduction
<1>7. m # 0 => flat[m] \in Seq(T)
  BY <1>1, <1>6
<1>8. m = 0 => ss \in Seq(T)
  BY DEF m
<1> QED
  BY <1>2, <1>7, <1>8

LEMMA ValueShape ==
    ASSUME NEW v \in Value
    PROVE  /\ v = Content(v.type, v.scalar, v.map, v.list)
           /\ v.type \in {"missing", "null", "scalar", "map", "list"}
           /\ v.scalar \in Texts \cup {0}
           /\ v.map = NoFields \/ v.map \in [Fields -> Value]
           /\ v.list \in Seq(Value)
           /\ v.type = "map" => v.map \in [Fields -> Value]
           /\ v.type # "map" => v.map = NoFields
           /\ v.type # "scalar" => v.scalar = 0
           /\ v.type # "list" => v.list = <<>>
           /\ \A i \in DOMAIN v.list : v.list[i] # Missing
BY ValueIsNode, NodeShape, Zenon

LEMMA MapFields ==
    ASSUME NEW v \in Value, v.type = "map"
    PROVE  DOMAIN v.map = Fields /\ \A i \in DOMAIN Keys : Keys[i] \in DOMAIN v.map
BY ValueShape DEF Fields, Range
LEMMA YamlDefined ==
    Yaml = [v \in Value |->
        CASE v.type = "missing" -> <<>>
          [] v.type = "null"    -> <<-1>>
          [] v.type = "scalar"  -> <<v.scalar>>
          [] v.type = "list"    -> FlattenSeq([i \in DOMAIN v.list |-> <<-2>> \o Yaml[v.list[i]]])
          [] v.type = "map"     -> FlattenSeq([i \in DOMAIN Keys |->
                 IF v.map[Keys[i]] = Missing THEN <<>> ELSE <<1000 + i>> \o Yaml[v.map[Keys[i]]]])]
<1> DEFINE Item(g, v) ==
               CASE v.type = "missing" -> <<>>
                 [] v.type = "null"    -> <<-1>>
                 [] v.type = "scalar"  -> <<v.scalar>>
                 [] v.type = "list"    -> FlattenSeq([i \in DOMAIN v.list |-> <<-2>> \o g[v.list[i]]])
                 [] v.type = "map"     -> FlattenSeq([i \in DOMAIN Keys |->
                        IF v.map[Keys[i]] = Missing THEN <<>> ELSE <<1000 + i>> \o g[v.map[Keys[i]]]])
           Good == {n \in 0 .. MaxDepth : \E g : g = [v \in Level[n] |-> Item(g, v)]}
<1>1. ASSUME NEW g, NEW h, NEW v \in Value, \A c \in Children(v) : h[c] = g[c]
      PROVE  Item(h, v) = Item(g, v)
  <2>1. \A i \in DOMAIN v.list : h[v.list[i]] = g[v.list[i]]
    BY <1>1 DEF Children
  <2>2. [i \in DOMAIN v.list |-> <<-2>> \o h[v.list[i]]] = [i \in DOMAIN v.list |-> <<-2>> \o g[v.list[i]]]
    BY <2>1
  <2>3. CASE v.type = "map"
    <3>1. \A i \in DOMAIN Keys : h[v.map[Keys[i]]] = g[v.map[Keys[i]]]
      BY <1>1, <2>3, MapFields DEF Children
    <3>2. [i \in DOMAIN Keys |-> IF v.map[Keys[i]] = Missing THEN <<>> ELSE <<1000 + i>> \o h[v.map[Keys[i]]]]
          = [i \in DOMAIN Keys |-> IF v.map[Keys[i]] = Missing THEN <<>> ELSE <<1000 + i>> \o g[v.map[Keys[i]]]]
      BY <3>1
    <3> QED
      BY <2>3, <3>2
  <2> QED
    BY <2>2, <2>3, ValueShape
<1> HIDE DEF Item
<1>2. ASSUME NEW n \in 0 .. MaxDepth, n = 0 \/ n - 1 \in Good PROVE n \in Good
  <2>1. PICK g : n # 0 => g = [v \in Level[n - 1] |-> Item(g, v)]
    BY <1>2
  <2>2. ASSUME NEW v \in Below(n) PROVE g[v] = Item(g, v)
    BY <2>1, <2>2 DEF Below
  <2> DEFINE h == [v \in Level[n] |-> Item(g, v)]
  <2>3. ASSUME NEW v \in Below(n) PROVE h[v] = g[v]
    <3>1. v \in Level[n]
      BY <2>3, LevelsGrow DEF Below
    <3> QED
      BY <2>2, <2>3, <3>1
  <2>4. ASSUME NEW v \in Level[n] PROVE Item(h, v) = Item(g, v)
    <3> HIDE DEF h
    <3>1. v \in Value /\ Children(v) \subseteq Below(n)
      BY LevelShape
    <3>2. \A c \in Children(v) : h[c] = g[c]
      BY <2>3, <3>1
    <3> QED
      BY <1>1, <3>1, <3>2
  <2>5. h = [v \in Level[n] |-> Item(h, v)]
    BY <2>4, Zenon
  <2> HIDE DEF h
  <2>6. \E x : x = [v \in Level[n] |-> Item(x, v)]
    BY <2>5, Zenon
  <2> QED
    BY <2>6
<1>3. MaxDepth \in Good
  <2> HIDE DEF Good
  <2> QED
    BY <1>2, LevelInduction
<1>4. \E g : g = [v \in Value |-> Item(g, v)]
  BY <1>3 DEF Value
<1> QED
  BY <1>4 DEF Yaml, Item

LEMMA SequenceMade ==
    ASSUME NEW T, NEW m \in Nat, NEW f, f \in [1 .. m -> T]
    PROVE  f \in Seq(T) /\ Len(f) = m
OBVIOUS

LEMMA ScalarIsNumber == \A v \in Value : v.scalar \in Int
<1> SUFFICES ASSUME NEW v \in Value PROVE v.scalar \in Int
  OBVIOUS
<1>1. v.scalar \in Texts \/ v.scalar = 0
  BY ValueShape
<1>2. Texts \subseteq Int
  BY ValueAssumption, Zenon
<1>3. 0 \in Int
  OBVIOUS
<1> QED
  BY <1>1, <1>2, <1>3, Zenon

LEMMA KeysAreListed == Len(Keys) \in Nat /\ DOMAIN Keys = 1 .. Len(Keys)
<1>1. Keys \in Seq(STRING)
  BY ValueAssumption, Zenon
<1> QED
  BY <1>1

LEMMA YamlIsText == \A v \in Value : Yaml[v] \in Seq(Int)
<1> DEFINE Good == {v \in Value : Yaml[v] \in Seq(Int)}
<1>1. ASSUME NEW v \in Value, Children(v) \subseteq Good PROVE Yaml[v] \in Seq(Int)
  <2>1. CASE v.type = "list"
    <3> DEFINE ss == [i \in DOMAIN v.list |-> <<-2>> \o Yaml[v.list[i]]]
    <3>1. v.list \in Seq(Value) /\ \A i \in DOMAIN v.list : Yaml[v.list[i]] \in Seq(Int)
      BY <1>1, ValueShape DEF Children
    <3>2. \A i \in 1 .. Len(v.list) : <<-2>> \o Yaml[v.list[i]] \in Seq(Int)
      BY <3>1
    <3>3. ss \in [1 .. Len(v.list) -> Seq(Int)]
      BY <3>1, <3>2
    <3>4. Yaml[v] = FlattenSeq(ss)
      BY <2>1, YamlDefined
    <3> HIDE DEF ss
    <3>5. ss \in Seq(Seq(Int))
      BY <3>1, <3>3, SequenceMade
    <3> QED
      BY <3>4, <3>5, Flattened
  <2>2. CASE v.type = "map"
    <3> DEFINE ss == [i \in DOMAIN Keys |-> IF v.map[Keys[i]] = Missing THEN <<>>
                                            ELSE <<1000 + i>> \o Yaml[v.map[Keys[i]]]]
    <3>1. \A i \in DOMAIN Keys : Yaml[v.map[Keys[i]]] \in Seq(Int)
      BY <1>1, <2>2, MapFields DEF Children
    <3>2. \A i \in 1 .. Len(Keys) : ss[i] \in Seq(Int)
      BY <3>1, KeysAreListed
    <3>3. ss \in [1 .. Len(Keys) -> Seq(Int)]
      BY <3>2, KeysAreListed
    <3>4. Yaml[v] = FlattenSeq(ss)
      BY <2>2, YamlDefined
    <3> HIDE DEF ss
    <3>5. ss \in Seq(Seq(Int))
      BY <3>3, KeysAreListed, SequenceMade
    <3> QED
      BY <3>4, <3>5, Flattened
  <2>3. CASE v.type \notin {"list", "map"}
    <3>1. Yaml[v] = <<>> \/ Yaml[v] = <<-1>> \/ Yaml[v] = <<v.scalar>>
      BY <2>3, YamlDefined, ValueShape
    <3>2. v.scalar \in Int
      BY ScalarIsNumber
    <3>3. <<>> \in Seq(Int) /\ <<-1>> \in Seq(Int) /\ <<v.scalar>> \in Seq(Int)
      BY <3>2
    <3> QED
      BY <3>1, <3>3
  <2> QED
    BY <2>1, <2>2, <2>3
<1>2. Value \subseteq Good
  BY <1>1, ValuesByInduction
<1> QED
  BY <1>2

LEMMA ComparableIsText == \A v \in Value : Comparable(v) \in Seq(Int)
<1> SUFFICES ASSUME NEW v \in Value PROVE Comparable(v) \in Seq(Int)
  OBVIOUS
<1>1. \A w \in Value : w.scalar \in Int /\ \A k \in DOMAIN w.map : w.map[k] \in Value
  BY ValueShape, ValueAssumption DEF NoFields
<1>2. CASE HasName(v)
  <2>1. HasText(Metadata(v), "name") => Metadata(v) \in Value
    BY <1>1 DEF HasText, Metadata, Missing, Content, NoFields
  <2>2. Name(v) \in Int
    BY <1>1, <1>2, <2>1 DEF HasName, Name, HasText
  <2> QED
    BY <1>2, <2>2 DEF Comparable
<1>3. CASE ~HasName(v)
  BY <1>3, YamlIsText DEF Comparable
<1> QED
  BY <1>2, <1>3

\* Of two texts, one is before the other.
LEMMA BeforeIsTotal ==
    ASSUME NEW s \in Seq(Int), NEW t \in Seq(Int), s # t
    PROVE  Before(s, t) \/ Before(t, s)
<1> DEFINE Splits(n) == n > Len(s) \/ n > Len(t) \/ s[n] # t[n]
           S == {n \in Nat \ {0} : Splits(n)}
<1>1. PICK m \in S : \A k \in S : m <= k
  <2>1. Len(s) + 1 \in S
    OBVIOUS
  <2> HIDE DEF S
  <2>2. S \subseteq Nat
    BY DEF S
  <2> QED
    BY <2>1, <2>2, LeastNumber
<1>2. \A i \in 1 .. (m - 1) : i <= Len(s) /\ i <= Len(t) /\ s[i] = t[i]
  BY <1>1
<1>3. m <= Len(s) + 1 /\ m <= Len(t) + 1
  <2>1. Len(s) + 1 \in S /\ Len(t) + 1 \in S
    OBVIOUS
  <2> QED
    BY <1>1, <2>1
<1>4. ~(m > Len(s) /\ m > Len(t))
  <2> SUFFICES ASSUME m > Len(s), m > Len(t) PROVE FALSE
    OBVIOUS
  <2>1. Len(s) = Len(t)
    BY <1>3
  <2> QED
    BY <1>2, <2>1
<1>5. CASE m <= Len(s) /\ m <= Len(t)
  <2>1. s[m] \in Int /\ t[m] \in Int /\ s[m] # t[m]
    BY <1>1, <1>5
  <2>2. m \in 1 .. Len(s) /\ m \in 1 .. Len(t) /\ m <= Len(s) + 1 /\ m <= Len(t) + 1
    BY <1>5
  <2>3. /\ \A i \in 1 .. (m - 1) : s[i] = t[i]
        /\ \A i \in 1 .. (m - 1) : t[i] = s[i]
    BY <1>2
  <2> HIDE DEF S
  <2>4. CASE s[m] < t[m]
    BY <2>2, <2>3, <2>4 DEF Before
  <2>5. CASE t[m] < s[m]
    BY <2>2, <2>3, <2>5 DEF Before
  <2> QED
    BY <2>1, <2>4, <2>5
<1>6. CASE m > Len(s)
  <2>1. m \in 1 .. Len(t)
    BY <1>4, <1>6
  <2> QED
    BY <1>2, <1>3, <1>6, <2>1 DEF Before
<1>7. CASE m > Len(t)
  <2>1. m \in 1 .. Len(s)
    BY <1>4, <1>7
  <2> QED
    BY <1>2, <1>3, <1>7, <2>1 DEF Before
<1> QED
  BY <1>5, <1>6, <1>7

LEMMA BeforeIsStrict ==
    ASSUME NEW s \in Seq(Int), NEW t \in Seq(Int), Before(s, t)
    PROVE  ~Before(t, s)
<1> SUFFICES ASSUME Before(t, s) PROVE FALSE
  OBVIOUS
<1>1. PICK n \in 1 .. Len(t) : /\ n <= Len(s) + 1
                               /\ \A i \in 1 .. (n - 1) : s[i] = t[i]
                               /\ n <= Len(s) => s[n] < t[n]
  BY DEF Before
<1>2. PICK m \in 1 .. Len(s) : /\ m <= Len(t) + 1
                               /\ \A i \in 1 .. (m - 1) : t[i] = s[i]
                               /\ m <= Len(t) => t[m] < s[m]
  BY DEF Before
<1>3. \A i \in 1 .. Len(s) : s[i] \in Int
  OBVIOUS
<1>4. \A i \in 1 .. Len(t) : t[i] \in Int
  OBVIOUS
<1>5. CASE n < m
  <2>1. n \in 1 .. (m - 1) /\ n <= Len(s)
    BY <1>5
  <2>2. s[n] = t[n] /\ s[n] < t[n]
    BY <1>1, <1>2, <2>1
  <2> QED
    BY <1>3, <2>1, <2>2
<1>6. CASE m < n
  <2>1. m \in 1 .. (n - 1) /\ m <= Len(t)
    BY <1>6
  <2>2. s[m] = t[m] /\ t[m] < s[m]
    BY <1>1, <1>2, <2>1
  <2> QED
    BY <1>4, <2>1, <2>2
<1>7. CASE n = m
  <2>1. s[n] < t[n] /\ t[n] < s[n]
    BY <1>1, <1>2, <1>7
  <2>2. s[n] \in Int /\ t[n] \in Int
    BY <1>3, <1>4, <1>7
  <2> QED
    BY <2>1, <2>2
<1> QED
  BY <1>5, <1>6, <1>7

LEMMA BeforeIsTransitive ==
    ASSUME NEW s \in Seq(Int), NEW t \in Seq(Int), NEW u \in Seq(Int), Before(s, t), Before(t, u)
    PROVE  Before(s, u)
<1>1. PICK n \in 1 .. Len(t) : /\ n <= Len(s) + 1
                               /\ \A i \in 1 .. (n - 1) : s[i] = t[i]
                               /\ n <= Len(s) => s[n] < t[n]
  BY DEF Before
<1>2. PICK m \in 1 .. Len(u) : /\ m <= Len(t) + 1
                               /\ \A i \in 1 .. (m - 1) : t[i] = u[i]
                               /\ m <= Len(t) => t[m] < u[m]
  BY DEF Before
<1>3. \A i \in 1 .. Len(s) : s[i] \in Int
  OBVIOUS
<1>4. \A i \in 1 .. Len(t) : t[i] \in Int
  OBVIOUS
<1>5. \A i \in 1 .. Len(u) : u[i] \in Int
  OBVIOUS
<1>6. CASE n <= m
  <2>1. n \in 1 .. Len(u) /\ n <= Len(s) + 1
    BY <1>1, <1>6
  <2>2. ASSUME NEW i \in 1 .. (n - 1) PROVE s[i] = u[i]
    <3>1. i \in 1 .. (m - 1)
      BY <1>6
    <3> QED
      BY <1>1, <1>2, <3>1
  <2>3. ASSUME n <= Len(s) PROVE s[n] < u[n]
    <3>1. s[n] < t[n] /\ s[n] \in Int /\ t[n] \in Int /\ u[n] \in Int
      BY <1>1, <1>3, <1>4, <1>5, <2>1, <2>3
    <3>2. CASE n = m
      <4>1. t[n] < u[n]
        BY <1>2, <3>2
      <4> QED
        BY <3>1, <4>1
    <3>3. CASE n < m
      <4>1. n \in 1 .. (m - 1)
        BY <3>3
      <4>2. t[n] = u[n]
        BY <1>2, <4>1
      <4> QED
        BY <3>1, <4>2
    <3> QED
      BY <1>6, <3>2, <3>3
  <2> QED
    BY <2>1, <2>2, <2>3 DEF Before
<1>7. CASE m < n
  <2>1. m \in 1 .. (n - 1) /\ m <= Len(s) + 1 /\ m <= Len(t)
    BY <1>1, <1>7
  <2>2. ASSUME NEW i \in 1 .. (m - 1) PROVE s[i] = u[i]
    <3>1. i \in 1 .. (n - 1)
      BY <1>7
    <3> QED
      BY <1>1, <1>2, <3>1
  <2>3. s[m] = t[m] /\ t[m] < u[m]
    BY <1>1, <1>2, <2>1
  <2> QED
    BY <2>1, <2>2, <2>3 DEF Before
<1> QED
  BY <1>6, <1>7

-----------------------------------------------------------------------------
(***************************************************************************)
(* The sort of lists.                                                      *)
(***************************************************************************)

\* Where the sort puts the element at i.
Rank(l, i) == Cardinality(NotBehind(l, i))

LEMMA RanksAreOnto ==
    ASSUME NEW l \in Seq(Value)
    PROVE  /\ \A i \in DOMAIN l : Rank(l, i) \in DOMAIN l
           /\ \A i, j \in DOMAIN l : Rank(l, i) = Rank(l, j) => i = j
           /\ \A n \in DOMAIN l : \E i \in DOMAIN l : Rank(l, i) = n
<1> DEFINE D == DOMAIN l
           text == [i \in D |-> Comparable(l[i])]
           L == [i \in D |-> NotBehind(l, i)]
<1>1. D = 1 .. Len(l) /\ Len(l) \in Nat /\ IsFiniteSet(D) /\ Cardinality(D) = Len(l)
  <2>1. D = 1 .. Len(l) /\ Len(l) \in Nat
    OBVIOUS
  <2>2. IsFiniteSet(1 .. Len(l)) /\ Cardinality(1 .. Len(l)) = Len(l)
    BY <2>1, Counted
  <2> QED
    BY <2>1, <2>2
<1>2. text \in [D -> Seq(Int)]
  BY ComparableIsText
<1>3. \A i, j \in D : j \in L[i] <=> Before(text[j], text[i]) \/ (text[j] = text[i] /\ j <= i)
  BY DEF NotBehind
<1>4. L \in [D -> SUBSET D]
  BY DEF NotBehind
<1> HIDE DEF L, text, D
<1>5. ASSUME NEW i \in D PROVE i \in L[i]
  BY <1>1, <1>3
<1>6. ASSUME NEW i \in D, NEW j \in D PROVE i \in L[j] \/ j \in L[i]
  <2>1. CASE text[i] = text[j]
    BY <1>1, <1>3, <2>1
  <2>2. CASE text[i] # text[j]
    BY <1>2, <1>3, <2>2, BeforeIsTotal
  <2> QED
    BY <2>1, <2>2
<1>7. ASSUME NEW i \in D, NEW j \in D, i \in L[j] PROVE L[i] \subseteq L[j]
  <2> SUFFICES ASSUME NEW k \in D, k \in L[i] PROVE k \in L[j]
    BY <1>4
  <2>1. CASE text[k] = text[i] /\ k <= i
    BY <1>1, <1>3, <1>7, <2>1
  <2>2. CASE Before(text[k], text[i])
    <3>1. CASE text[i] = text[j]
      BY <1>3, <2>2, <3>1
    <3>2. CASE Before(text[i], text[j])
      <4>1. Before(text[k], text[j])
        BY <1>2, <2>2, <3>2, BeforeIsTransitive
      <4> QED
        BY <1>3, <4>1
    <3> QED
      BY <1>3, <1>7, <3>1, <3>2
  <2> QED
    BY <1>3, <2>1, <2>2
<1>8. ASSUME NEW i \in D, NEW j \in D, i \in L[j], j \in L[i] PROVE i = j
  <2>1. \A p, q \in D : Before(text[p], text[q]) => ~Before(text[q], text[p])
    BY <1>2, BeforeIsStrict
  <2>2. \A p \in D : ~Before(text[p], text[p])
    BY <2>1
  <2> QED
    BY <1>1, <1>3, <1>8, <2>1, <2>2
<1>9. ToldApart(D, L)
  <2>1. \A i \in D : i \in L[i]
    BY <1>5
  <2>2. \A i, j \in D : i \in L[j] \/ j \in L[i]
    BY <1>6
  <2>3. \A i, j \in D : i \in L[j] => L[i] \subseteq L[j]
    BY <1>7
  <2>4. \A i, j \in D : i \in L[j] /\ j \in L[i] => i = j
    BY <1>8
  <2> QED
    BY <1>1, <1>4, <2>1, <2>2, <2>3, <2>4, ChainRanks, Zenon
<1>10. \A i \in D : Cardinality(L[i]) = Rank(l, i)
  BY DEF L, Rank
<1> QED
  BY <1>1, <1>9, <1>10 DEF D, ToldApart

LEMMA SliceIsPermuted ==
    ASSUME NEW l \in Seq(Value)
    PROVE  /\ DOMAIN SortSlice(l) = DOMAIN l
           /\ \A i \in DOMAIN l : SortSlice(l)[Rank(l, i)] = l[i]
           /\ \A n \in DOMAIN l : \E i \in DOMAIN l : Rank(l, i) = n /\ SortSlice(l)[n] = l[i]
<1>1. DOMAIN SortSlice(l) = DOMAIN l
  BY DEF SortSlice
<1>2. ASSUME NEW i \in DOMAIN l PROVE SortSlice(l)[Rank(l, i)] = l[i]
  <2> DEFINE n == Rank(l, i)
  <2>1. n \in DOMAIN l
    BY RanksAreOnto
  <2>2. SortSlice(l)[n] = l[CHOOSE j \in DOMAIN l : Rank(l, j) = n]
    BY <2>1 DEF SortSlice, Rank
  <2>3. (CHOOSE j \in DOMAIN l : Rank(l, j) = n) = i
    BY RanksAreOnto
  <2> QED
    BY <2>2, <2>3
<1> QED
  BY <1>1, <1>2, RanksAreOnto

LEMMA SortedDefined ==
    Sorted = [v \in Value |->
        [v EXCEPT !.map = [k \in DOMAIN v.map |-> Sorted[v.map[k]]],
                  !.list = [i \in DOMAIN v.list |-> Sorted[SortSlice(v.list)[i]]]]]
<1> DEFINE Item(g, v) ==
               [v EXCEPT !.map = [k \in DOMAIN v.map |-> g[v.map[k]]],
                         !.list = [i \in DOMAIN v.list |-> g[SortSlice(v.list)[i]]]]
           Good == {n \in 0 .. MaxDepth : \E g : g = [v \in Level[n] |-> Item(g, v)]}
<1>1. ASSUME NEW g, NEW h, NEW v \in Value, \A c \in Children(v) : h[c] = g[c]
      PROVE  Item(h, v) = Item(g, v)
  <2>1. \A k \in DOMAIN v.map : h[v.map[k]] = g[v.map[k]]
    BY <1>1 DEF Children
  <2>2. \A i \in DOMAIN v.list : h[SortSlice(v.list)[i]] = g[SortSlice(v.list)[i]]
    <3>1. v.list \in Seq(Value)
      BY ValueShape
    <3>2. SUFFICES ASSUME NEW i \in DOMAIN v.list
                   PROVE  h[SortSlice(v.list)[i]] = g[SortSlice(v.list)[i]]
      OBVIOUS
    <3>3. PICK j \in DOMAIN v.list : SortSlice(v.list)[i] = v.list[j]
      BY <3>1, SliceIsPermuted
    <3>4. v.list[j] \in Children(v)
      BY DEF Children
    <3> QED
      BY <1>1, <3>3, <3>4
  <2>3. [k \in DOMAIN v.map |-> h[v.map[k]]] = [k \in DOMAIN v.map |-> g[v.map[k]]]
    BY <2>1
  <2>4. [i \in DOMAIN v.list |-> h[SortSlice(v.list)[i]]] = [i \in DOMAIN v.list |-> g[SortSlice(v.list)[i]]]
    BY <2>2
  <2> QED
    BY <2>3, <2>4, Zenon
<1> HIDE DEF Item
<1>2. ASSUME NEW n \in 0 .. MaxDepth, n = 0 \/ n - 1 \in Good PROVE n \in Good
  <2>1. PICK g : n # 0 => g = [v \in Level[n - 1] |-> Item(g, v)]
    BY <1>2
  <2>2. ASSUME NEW v \in Below(n) PROVE g[v] = Item(g, v)
    BY <2>1, <2>2 DEF Below
  <2> DEFINE h == [v \in Level[n] |-> Item(g, v)]
  <2>3. ASSUME NEW v \in Below(n) PROVE h[v] = g[v]
    <3>1. v \in Level[n]
      BY <2>3, LevelsGrow DEF Below
    <3> QED
      BY <2>2, <2>3, <3>1
  <2>4. ASSUME NEW v \in Level[n] PROVE Item(h, v) = Item(g, v)
    <3> HIDE DEF h
    <3>1. v \in Value /\ Children(v) \subseteq Below(n)
      BY LevelShape
    <3>2. \A c \in Children(v) : h[c] = g[c]
      BY <2>3, <3>1
    <3> QED
      BY <1>1, <3>1, <3>2
  <2>5. h = [v \in Level[n] |-> Item(h, v)]
    BY <2>4, Zenon
  <2> HIDE DEF h
  <2>6. \E x : x = [v \in Level[n] |-> Item(x, v)]
    BY <2>5, Zenon
  <2> QED
    BY <2>6
<1>3. MaxDepth \in Good
  <2> HIDE DEF Good
  <2> QED
    BY <1>2, LevelInduction
<1>4. \E g : g = [v \in Value |-> Item(g, v)]
  BY <1>3 DEF Value
<1> QED
  BY <1>4 DEF Sorted, Item

LEMMA SortedIs ==
    ASSUME NEW v \in Value
    PROVE  Sorted[v] = Content(v.type, v.scalar,
                               [k \in DOMAIN v.map |-> Sorted[v.map[k]]],
                               [i \in DOMAIN v.list |-> Sorted[SortSlice(v.list)[i]]])
<1> DEFINE map == [k \in DOMAIN v.map |-> Sorted[v.map[k]]]
           list == [i \in DOMAIN v.list |-> Sorted[SortSlice(v.list)[i]]]
<1>1. Sorted[v] = [v EXCEPT !.map = map, !.list = list]
  BY SortedDefined
<1>2. v = Content(v.type, v.scalar, v.map, v.list)
  BY ValueShape
<1> HIDE DEF map, list
<1>3. Sorted[v] = Content(v.type, v.scalar, map, list)
  BY <1>1, <1>2 DEF Content
<1> QED
  BY <1>3 DEF map, list

\* The sort changes neither types nor scalars; it sorts fields, and puts the element
\* at i where its rank says.
LEMMA SortedShape ==
    ASSUME NEW v \in Value
    PROVE  /\ Sorted[v].type = v.type /\ Sorted[v].scalar = v.scalar
           /\ DOMAIN Sorted[v].map = DOMAIN v.map
           /\ \A k \in DOMAIN v.map : Sorted[v].map[k] = Sorted[v.map[k]]
           /\ DOMAIN Sorted[v].list = DOMAIN v.list
           /\ \A i \in DOMAIN v.list : Sorted[v].list[Rank(v.list, i)] = Sorted[v.list[i]]
<1> DEFINE map == [k \in DOMAIN v.map |-> Sorted[v.map[k]]]
           list == [i \in DOMAIN v.list |-> Sorted[SortSlice(v.list)[i]]]
<1>1. Sorted[v] = Content(v.type, v.scalar, map, list)
  BY SortedIs
<1>2. /\ Sorted[v].type = v.type /\ Sorted[v].scalar = v.scalar
      /\ Sorted[v].map = map /\ Sorted[v].list = list
  <2> HIDE DEF map, list
  <2> QED
    BY <1>1 DEF Content
<1>3. \A i \in DOMAIN v.list : list[Rank(v.list, i)] = Sorted[v.list[i]]
  BY ValueShape, RanksAreOnto, SliceIsPermuted
<1> QED
  BY <1>2, <1>3

-----------------------------------------------------------------------------
(***************************************************************************)
(* Sameness up to the order of lists.                                      *)
(***************************************************************************)

LEMMA SameUpToOrderDefined ==
    SameUpToOrder = [p \in Value \X Value |->
        LET v == p[1]
            w == p[2]
        IN  /\ v.type = w.type /\ v.scalar = w.scalar
            /\ \A k \in DOMAIN v.map : SameUpToOrder[<<v.map[k], w.map[k]>>]
            /\ Len(v.list) = Len(w.list)
            /\ \E f \in Matchings(v.list, w.list) :
                   \A i \in DOMAIN v.list : SameUpToOrder[<<v.list[i], w.list[f[i]]>>]]
<1> DEFINE Item(g, p) ==
               LET v == p[1]
                   w == p[2]
               IN  /\ v.type = w.type /\ v.scalar = w.scalar
                   /\ \A k \in DOMAIN v.map : g[<<v.map[k], w.map[k]>>]
                   /\ Len(v.list) = Len(w.list)
                   /\ \E f \in Matchings(v.list, w.list) :
                          \A i \in DOMAIN v.list : g[<<v.list[i], w.list[f[i]]>>]
           Good == {n \in 0 .. MaxDepth : \E g : g = [p \in Level[n] \X Level[n] |-> Item(g, p)]}
<1>1. ASSUME NEW g, NEW h, NEW p \in Value \X Value, \A c \in Children(p[1]), d \in Children(p[2]) : h[<<c, d>>] = g[<<c, d>>]
      PROVE  Item(h, p) = Item(g, p)
  <2> DEFINE v == p[1]
             w == p[2]
  <2>1. v \in Value /\ w \in Value
    OBVIOUS
  <2>2. ASSUME v.type = w.type, NEW k \in DOMAIN v.map
        PROVE  h[<<v.map[k], w.map[k]>>] = g[<<v.map[k], w.map[k]>>]
    <3>1. k \in DOMAIN w.map
      BY <2>1, <2>2, ValueShape DEF NoFields
    <3> QED
      BY <1>1, <3>1 DEF Children
  <2>3. ASSUME NEW f \in Matchings(v.list, w.list), NEW i \in DOMAIN v.list
        PROVE  h[<<v.list[i], w.list[f[i]]>>] = g[<<v.list[i], w.list[f[i]]>>]
    <3>1. f[i] \in DOMAIN w.list
      BY DEF Matchings
    <3> QED
      BY <1>1, <3>1 DEF Children
  <2>4. v.type = w.type =>
            ((\A k \in DOMAIN v.map : h[<<v.map[k], w.map[k]>>])
                <=> (\A k \in DOMAIN v.map : g[<<v.map[k], w.map[k]>>]))
    BY <2>2
  <2>5. (\E f \in Matchings(v.list, w.list) : \A i \in DOMAIN v.list : h[<<v.list[i], w.list[f[i]]>>])
            <=> (\E f \in Matchings(v.list, w.list) : \A i \in DOMAIN v.list : g[<<v.list[i], w.list[f[i]]>>])
    BY <2>3
  <2> QED
    BY <2>4, <2>5, Zenon
<1> HIDE DEF Item
<1>2. ASSUME NEW n \in 0 .. MaxDepth, n = 0 \/ n - 1 \in Good PROVE n \in Good
  <2>1. PICK g : n # 0 => g = [p \in Level[n - 1] \X Level[n - 1] |-> Item(g, p)]
    BY <1>2
  <2>2. ASSUME NEW p \in Below(n) \X Below(n) PROVE g[p] = Item(g, p)
    BY <2>1, <2>2 DEF Below
  <2> DEFINE h == [p \in Level[n] \X Level[n] |-> Item(g, p)]
  <2>3. ASSUME NEW p \in Below(n) \X Below(n) PROVE h[p] = g[p]
    <3>1. p \in Level[n] \X Level[n]
      BY <2>3, LevelsGrow DEF Below
    <3> QED
      BY <2>2, <2>3, <3>1
  <2>4. ASSUME NEW p \in Level[n] \X Level[n] PROVE Item(h, p) = Item(g, p)
    <3> HIDE DEF h
    <3>1. p \in Value \X Value /\ Children(p[1]) \subseteq Below(n) /\ Children(p[2]) \subseteq Below(n)
      BY LevelShape
    <3>2. \A c \in Children(p[1]), d \in Children(p[2]) : h[<<c, d>>] = g[<<c, d>>]
      BY <2>3, <3>1
    <3> QED
      BY <1>1, <3>1, <3>2
  <2>5. h = [p \in Level[n] \X Level[n] |-> Item(h, p)]
    BY <2>4, Zenon
  <2> HIDE DEF h
  <2>6. \E x : x = [p \in Level[n] \X Level[n] |-> Item(x, p)]
    BY <2>5, Zenon
  <2> QED
    BY <2>6
<1>3. MaxDepth \in Good
  <2> HIDE DEF Good
  <2> QED
    BY <1>2, LevelInduction
<1>4. \E g : g = [p \in Value \X Value |-> Item(g, p)]
  BY <1>3 DEF Value
<1> QED
  BY <1>4 DEF SameUpToOrder, Item

LEMMA SameIs ==
    ASSUME NEW v \in Value, NEW w \in Value
    PROVE  SameUpToOrder[<<v, w>>] <=>
               /\ v.type = w.type /\ v.scalar = w.scalar
               /\ \A k \in DOMAIN v.map : SameUpToOrder[<<v.map[k], w.map[k]>>]
               /\ Len(v.list) = Len(w.list)
               /\ \E f \in Matchings(v.list, w.list) :
                      \A i \in DOMAIN v.list : SameUpToOrder[<<v.list[i], w.list[f[i]]>>]
<1> DEFINE p == <<v, w>>
<1>1. p \in Value \X Value /\ p[1] = v /\ p[2] = w
  OBVIOUS
<1> HIDE DEF p
<1>2. SameUpToOrder[p] <=>
               /\ p[1].type = p[2].type /\ p[1].scalar = p[2].scalar
               /\ \A k \in DOMAIN p[1].map : SameUpToOrder[<<p[1].map[k], p[2].map[k]>>]
               /\ Len(p[1].list) = Len(p[2].list)
               /\ \E f \in Matchings(p[1].list, p[2].list) :
                      \A i \in DOMAIN p[1].list : SameUpToOrder[<<p[1].list[i], p[2].list[f[i]]>>]
  BY <1>1, SameUpToOrderDefined
<1>3. SameUpToOrder[p] <=>
               /\ v.type = w.type /\ v.scalar = w.scalar
               /\ \A k \in DOMAIN v.map : SameUpToOrder[<<v.map[k], w.map[k]>>]
               /\ Len(v.list) = Len(w.list)
               /\ \E f \in Matchings(v.list, w.list) :
                      \A i \in DOMAIN v.list : SameUpToOrder[<<v.list[i], w.list[f[i]]>>]
  BY <1>1, <1>2, Zenon
<1> QED
  BY <1>3 DEF p

LEMMA SameMade ==
    ASSUME NEW v \in Value, NEW w \in Value, v.type = w.type, v.scalar = w.scalar,
           \A k \in DOMAIN v.map : SameUpToOrder[<<v.map[k], w.map[k]>>],
           Len(v.list) = Len(w.list), NEW f \in Matchings(v.list, w.list),
           \A i \in DOMAIN v.list : SameUpToOrder[<<v.list[i], w.list[f[i]]>>]
    PROVE  SameUpToOrder[<<v, w>>]
BY SameIs

\* Lists of the same length have the same positions.
LEMMA SameLength ==
    ASSUME NEW s, NEW t, NEW S, NEW T, s \in Seq(S), t \in Seq(T)
    PROVE  /\ Len(s) = Len(t) <=> DOMAIN s = DOMAIN t
           /\ Len(s) \in Nat /\ DOMAIN s = 1 .. Len(s) /\ IsFiniteSet(DOMAIN s)
<1>1. Len(s) \in Nat /\ DOMAIN s = 1 .. Len(s) /\ Len(t) \in Nat /\ DOMAIN t = 1 .. Len(t)
  OBVIOUS
<1>2. IsFiniteSet(1 .. Len(s))
  BY <1>1, Counted
<1>3. Cardinality(1 .. Len(s)) = Len(s) /\ Cardinality(1 .. Len(t)) = Len(t)
  BY <1>1, Counted
<1> QED
  BY <1>1, <1>2, <1>3

\* What the comparison takes for equal is the same up to the order of lists.
LEMMA EqualIsSame ==
    \A v, w \in Value : ExactlyEqual(v, w) => SameUpToOrder[<<v, w>>]
<1> DEFINE Good == {v \in Value : \A w \in Value : Sorted[v] = Sorted[w] => SameUpToOrder[<<v, w>>]}
<1>1. ASSUME NEW v \in Value, Children(v) \subseteq Good,
             NEW w \in Value, Sorted[v] = Sorted[w]
      PROVE  SameUpToOrder[<<v, w>>]
  <2>1. /\ v.type = w.type /\ v.scalar = w.scalar
        /\ DOMAIN v.map = DOMAIN w.map /\ DOMAIN v.list = DOMAIN w.list
    BY <1>1, SortedShape
  <2>2. v.list \in Seq(Value) /\ w.list \in Seq(Value)
    BY ValueShape
  <2>3. Len(v.list) = Len(w.list)
    BY <2>1, <2>2, SameLength
  <2>4. ASSUME NEW k \in DOMAIN v.map PROVE SameUpToOrder[<<v.map[k], w.map[k]>>]
    <3>1. Sorted[v.map[k]] = Sorted[w.map[k]]
      BY <1>1, <2>1, SortedShape
    <3>2. w.map[k] \in Value
      BY <2>1, ValueShape DEF NoFields
    <3> QED
      BY <1>1, <3>1, <3>2 DEF Children
  <2> DEFINE f == [i \in DOMAIN v.list |-> CHOOSE j \in DOMAIN w.list : Rank(w.list, j) = Rank(v.list, i)]
  <2>5. ASSUME NEW i \in DOMAIN v.list PROVE f[i] \in DOMAIN w.list /\ Rank(w.list, f[i]) = Rank(v.list, i)
    <3>1. Rank(v.list, i) \in DOMAIN w.list
      BY <2>1, <2>2, RanksAreOnto
    <3>2. \E j \in DOMAIN w.list : Rank(w.list, j) = Rank(v.list, i)
      BY <2>2, <3>1, RanksAreOnto
    <3> QED
      BY <3>2
  <2> HIDE DEF f
  <2>6. f \in Matchings(v.list, w.list)
    <3>1. f \in [DOMAIN v.list -> DOMAIN w.list]
      BY <2>5 DEF f
    <3>2. \A i, j \in DOMAIN v.list : f[i] = f[j] => i = j
      BY <2>2, <2>5, RanksAreOnto
    <3> QED
      BY <3>1, <3>2 DEF Matchings
  <2>7. ASSUME NEW i \in DOMAIN v.list PROVE SameUpToOrder[<<v.list[i], w.list[f[i]]>>]
    <3>1. Sorted[v].list[Rank(v.list, i)] = Sorted[v.list[i]]
      BY SortedShape
    <3>2. Sorted[w].list[Rank(w.list, f[i])] = Sorted[w.list[f[i]]]
      BY <2>5, SortedShape
    <3>3. Sorted[v.list[i]] = Sorted[w.list[f[i]]]
      BY <1>1, <2>5, <3>1, <3>2
    <3>4. w.list[f[i]] \in Value /\ v.list[i] \in Good
      BY <1>1, <2>2, <2>5 DEF Children
    <3> QED
      BY <3>3, <3>4
  <2> QED
    BY <2>1, <2>3, <2>4, <2>6, <2>7, SameIs
<1>2. Value \subseteq Good
  <2>1. \A v \in Value : Children(v) \subseteq Good => v \in Good
    BY <1>1
  <2> HIDE DEF Good
  <2> QED
    BY <2>1, ValuesByInduction
<1> QED
  BY <1>2 DEF ExactlyEqual

LEMMA MatchingIsOnto ==
    ASSUME NEW s, NEW t, DOMAIN s = DOMAIN t, IsFiniteSet(DOMAIN s), NEW f \in Matchings(s, t),
           NEW j \in DOMAIN t
    PROVE  \E i \in DOMAIN s : f[i] = j
<1>1. f \in Injection(DOMAIN s, DOMAIN t)
  BY DEF Matchings, Injection, IsInjective
<1>2. f \in Surjection(DOMAIN s, DOMAIN t)
  BY <1>1, FS_Injection
<1> QED
  BY <1>2 DEF Surjection

\* Two lists with the same texts, each once, are sorted alike.
LEMMA SameRanks ==
    ASSUME NEW l \in Seq(Value), NEW m \in Seq(Value), Len(l) = Len(m), NEW f \in Matchings(l, m),
           \A i \in DOMAIN l : Comparable(m[f[i]]) = Comparable(l[i]),
           \A i, j \in DOMAIN l : Comparable(l[i]) = Comparable(l[j]) => i = j,
           NEW i \in DOMAIN l
    PROVE  Rank(m, f[i]) = Rank(l, i)
<1> DEFINE S == NotBehind(l, i)
           T == NotBehind(m, f[i])
           g == [j \in S |-> f[j]]
<1>1. f \in [DOMAIN l -> DOMAIN m] /\ \A j, k \in DOMAIN l : f[j] = f[k] => j = k
  BY DEF Matchings
<1>2. DOMAIN l = DOMAIN m /\ IsFiniteSet(DOMAIN l) /\ \A j \in DOMAIN l : j \in Nat
  BY SameLength
<1>3. \A j \in DOMAIN m : \E k \in DOMAIN l : f[k] = j
  <2>1. f \in Matchings(l, m)
    OBVIOUS
  <2> SUFFICES ASSUME NEW j \in DOMAIN m PROVE \E k \in DOMAIN l : f[k] = j
    OBVIOUS
  <2> QED
    BY ONLY <1>2, <2>1, j \in DOMAIN m, MatchingIsOnto
<1>4. ASSUME NEW j \in DOMAIN l PROVE j \in S <=> Before(Comparable(l[j]), Comparable(l[i])) \/ j = i
  BY <1>2 DEF NotBehind
<1>5. ASSUME NEW j \in DOMAIN l PROVE f[j] \in T <=> Before(Comparable(l[j]), Comparable(l[i])) \/ j = i
  <2>1. f[j] \in DOMAIN m /\ f[j] \in Nat /\ f[i] \in Nat
    BY <1>1, <1>2
  <2>2. Comparable(m[f[j]]) = Comparable(m[f[i]]) => j = i
    OBVIOUS
  <2> QED
    BY <2>1, <2>2 DEF NotBehind
<1>6. S \subseteq DOMAIN l /\ T \subseteq DOMAIN m
  BY DEF NotBehind
<1> HIDE DEF S, T
<1>7. IsFiniteSet(S)
  BY <1>2, <1>6, FS_Subset
<1>8. g \in Bijection(S, T)
  <2>1. g \in [S -> T]
    BY <1>4, <1>5, <1>6
  <2>2. \A j, k \in S : g[j] = g[k] => j = k
    BY <1>1, <1>6
  <2>3. \A t \in T : \E j \in S : g[j] = t
    BY <1>3, <1>4, <1>5, <1>6
  <2> HIDE DEF g
  <2> QED
    BY <2>1, <2>2, <2>3 DEF Bijection, Injection, IsInjective, Surjection
<1>9. ExistsBijection(S, T)
  <2> HIDE DEF g
  <2> QED
    BY <1>8 DEF ExistsBijection
<1>10. Cardinality(T) = Cardinality(S)
  BY <1>7, <1>9, FS_Bijection
<1> QED
  BY <1>10 DEF Rank, S, T

LEMMA SameFields ==
    ASSUME NEW v \in Value, NEW w \in Value, SameUpToOrder[<<v, w>>]
    PROVE  /\ DOMAIN v.map = DOMAIN w.map
           /\ \A k \in DOMAIN v.map : /\ v.map[k] \in Value /\ w.map[k] \in Value
                                      /\ SameUpToOrder[<<v.map[k], w.map[k]>>]
<1>1. v.type = w.type
  BY SameIs
<1>2. DOMAIN v.map = DOMAIN w.map
  BY <1>1, ValueShape DEF NoFields
<1>3. \A k \in DOMAIN v.map : v.map[k] \in Value /\ w.map[k] \in Value
  BY <1>2, ValueShape DEF NoFields
<1> QED
  BY <1>2, <1>3, SameIs

\* The sort brings two orders of the same elements into one.
LEMMA OrderIsEqual ==
    ASSUME NEW v \in Value, NEW w \in Value, OnlyOrder(v, w), NamesDiffer(v)
    PROVE  Sorted[v] = Sorted[w]
<1>1. v = Content(v.type, v.scalar, v.map, v.list) /\ v.list \in Seq(Value) /\ w.list \in Seq(Value)
  BY ValueShape
<1>2. w.type = v.type /\ w.scalar = v.scalar /\ w.map = v.map
  BY <1>1 DEF OnlyOrder, Content
<1>3. PICK f \in Matchings(v.list, w.list) : \A i \in DOMAIN v.list : w.list[f[i]] = v.list[i]
  BY DEF OnlyOrder
<1>4. Len(v.list) = Len(w.list) /\ DOMAIN v.list = DOMAIN w.list /\ f \in [DOMAIN v.list -> DOMAIN w.list]
  BY <1>1, <1>3, SameLength DEF Matchings, OnlyOrder
<1>5. ASSUME NEW n \in DOMAIN v.list PROVE Sorted[SortSlice(v.list)[n]] = Sorted[SortSlice(w.list)[n]]
  <2>1. PICK i \in DOMAIN v.list : Rank(v.list, i) = n /\ SortSlice(v.list)[n] = v.list[i]
    BY <1>1, SliceIsPermuted
  <2>2. Rank(w.list, f[i]) = n
    <3> DEFINE l == v.list
               m == w.list
    <3>1. l \in Seq(Value) /\ m \in Seq(Value) /\ Len(l) = Len(m) /\ f \in Matchings(l, m) /\ i \in DOMAIN l
      BY <1>1, <1>4
    <3>2. \A j \in DOMAIN l : Comparable(m[f[j]]) = Comparable(l[j])
      BY <1>3
    <3>3. \A j, k \in DOMAIN l : Comparable(l[j]) = Comparable(l[k]) => j = k
      BY DEF NamesDiffer
    <3>4. Rank(l, i) = n
      BY <2>1
    <3> HIDE DEF l, m
    <3>5. Rank(m, f[i]) = Rank(l, i)
      BY ONLY <3>1, <3>2, <3>3, SameRanks
    <3> QED
      BY <3>4, <3>5 DEF m
  <2>3. SortSlice(w.list)[n] = w.list[f[i]]
    BY <1>1, <1>4, <2>2, SliceIsPermuted
  <2> QED
    BY <1>3, <2>1, <2>3
<1>6. [n \in DOMAIN v.list |-> Sorted[SortSlice(v.list)[n]]]
          = [n \in DOMAIN w.list |-> Sorted[SortSlice(w.list)[n]]]
  BY <1>4, <1>5
<1>7. Sorted[w] = Content(w.type, w.scalar, [k \in DOMAIN w.map |-> Sorted[w.map[k]]],
                          [n \in DOMAIN w.list |-> Sorted[SortSlice(w.list)[n]]])
  BY SortedIs
<1>8. Sorted[v] = Content(v.type, v.scalar, [k \in DOMAIN v.map |-> Sorted[v.map[k]]],
                          [n \in DOMAIN v.list |-> Sorted[SortSlice(v.list)[n]]])
  BY SortedIs
<1> QED
  BY <1>2, <1>6, <1>7, <1>8, Zenon

\* The sort goes down to the field in which two maps differ.
LEMMA FieldIsEqual ==
    ASSUME NEW v \in Value, NEW w \in Value, NEW k, OnlyAt(k, v, w),
           Sorted[v.map[k]] = Sorted[w.map[k]]
    PROVE  Sorted[v] = Sorted[w]
<1>1. v = Content(v.type, v.scalar, v.map, v.list)
  BY ValueShape
<1>2. w.type = v.type /\ w.scalar = v.scalar /\ w.list = v.list /\ w.map = [v.map EXCEPT ![k] = w.map[k]]
  BY <1>1 DEF OnlyAt, Content
<1>3. DOMAIN w.map = DOMAIN v.map /\ \A j \in DOMAIN v.map : j # k => w.map[j] = v.map[j]
  BY <1>2
<1>4. [j \in DOMAIN v.map |-> Sorted[v.map[j]]] = [j \in DOMAIN w.map |-> Sorted[w.map[j]]]
  BY <1>3
<1>5. Sorted[w] = Content(w.type, w.scalar, [j \in DOMAIN w.map |-> Sorted[w.map[j]]],
                          [n \in DOMAIN w.list |-> Sorted[SortSlice(w.list)[n]]])
  BY SortedIs
<1>6. Sorted[v] = Content(v.type, v.scalar, [j \in DOMAIN v.map |-> Sorted[v.map[j]]],
                          [n \in DOMAIN v.list |-> Sorted[SortSlice(v.list)[n]]])
  BY SortedIs
<1>7. w.type = v.type /\ w.scalar = v.scalar /\ w.list = v.list
  BY <1>2
<1> QED
  BY <1>4, <1>5, <1>6, <1>7, Zenon

\* A plan whose artifacts stand in another order is taken for equal.
LEMMA PlansAreEqual ==
    ASSUME NEW v \in Value, NEW w \in Value, SamePlan(v, w)
    PROVE  ExactlyEqual(v, w)
<1>1. CASE v = w
  BY <1>1 DEF ExactlyEqual
<1>2. ASSUME NEW x \in Value, NEW k \in DOMAIN x.map PROVE x.map[k] \in Value
  BY ValueShape DEF NoFields
<1>3. CASE OnlyAt("spec", v, w) /\ SameArtifacts(v.map["spec"], w.map["spec"])
  <2> DEFINE spec1 == v.map["spec"]
             spec2 == w.map["spec"]
  <2>1. spec1 \in Value /\ spec2 \in Value
    BY <1>2, <1>3 DEF OnlyAt
  <2>2. SameArtifacts(spec1, spec2)
    BY <1>3
  <2> HIDE DEF spec1, spec2
  <2>3. spec1.map["artifacts"] \in Value /\ spec2.map["artifacts"] \in Value
    BY <1>2, <2>1, <2>2 DEF SameArtifacts, OnlyAt
  <2>4. Sorted[spec1.map["artifacts"]] = Sorted[spec2.map["artifacts"]]
    BY <2>2, <2>3, OrderIsEqual DEF SameArtifacts
  <2>5. Sorted[spec1] = Sorted[spec2]
    BY <2>1, <2>2, <2>4, FieldIsEqual DEF SameArtifacts
  <2> QED
    BY <1>3, <2>5, FieldIsEqual DEF ExactlyEqual, spec1, spec2
<1> QED
  BY <1>1, <1>3 DEF SamePlan

-----------------------------------------------------------------------------
(***************************************************************************)
(* Normalization.                                                          *)
(***************************************************************************)

LEMMA NormalizeDefined ==
    Normalize = [v \in Value |->
        CASE v.type = "map" ->
                 Map([k \in Fields |->
                         LET field == Normalize[v.map[k]] IN IF field.type = "null" THEN Missing ELSE field])
          [] v.type = "list" ->
                 IF v.list = <<>> THEN Null ELSE List([i \in DOMAIN v.list |-> Normalize[v.list[i]]])
          [] OTHER -> v]
<1> DEFINE Item(g, v) ==
               CASE v.type = "map" ->
                        Map([k \in Fields |->
                                LET field == g[v.map[k]] IN IF field.type = "null" THEN Missing ELSE field])
                 [] v.type = "list" ->
                        IF v.list = <<>> THEN Null ELSE List([i \in DOMAIN v.list |-> g[v.list[i]]])
                 [] OTHER -> v
           Good == {n \in 0 .. MaxDepth : \E g : g = [v \in Level[n] |-> Item(g, v)]}
<1>1. ASSUME NEW g, NEW h, NEW v \in Value, \A c \in Children(v) : h[c] = g[c]
      PROVE  Item(h, v) = Item(g, v)
  <2>1. \A i \in DOMAIN v.list : h[v.list[i]] = g[v.list[i]]
    BY <1>1 DEF Children
  <2>2. [i \in DOMAIN v.list |-> h[v.list[i]]] = [i \in DOMAIN v.list |-> g[v.list[i]]]
    BY <2>1
  <2>3. CASE v.type = "map"
    <3>1. \A k \in Fields : h[v.map[k]] = g[v.map[k]]
      BY <1>1, <2>3, MapFields DEF Children
    <3>2. [k \in Fields |-> LET field == h[v.map[k]] IN IF field.type = "null" THEN Missing ELSE field]
          = [k \in Fields |-> LET field == g[v.map[k]] IN IF field.type = "null" THEN Missing ELSE field]
      BY <3>1
    <3> QED
      BY <2>3, <3>2
  <2>4. CASE v.type # "map"
    BY <2>2, <2>4
  <2> QED
    BY <2>3, <2>4
<1> HIDE DEF Item
<1>2. ASSUME NEW n \in 0 .. MaxDepth, n = 0 \/ n - 1 \in Good PROVE n \in Good
  <2>1. PICK g : n # 0 => g = [v \in Level[n - 1] |-> Item(g, v)]
    BY <1>2
  <2>2. ASSUME NEW v \in Below(n) PROVE g[v] = Item(g, v)
    BY <2>1, <2>2 DEF Below
  <2> DEFINE h == [v \in Level[n] |-> Item(g, v)]
  <2>3. ASSUME NEW v \in Below(n) PROVE h[v] = g[v]
    <3>1. v \in Level[n]
      BY <2>3, LevelsGrow DEF Below
    <3> QED
      BY <2>2, <2>3, <3>1
  <2>4. ASSUME NEW v \in Level[n] PROVE Item(h, v) = Item(g, v)
    <3> HIDE DEF h
    <3>1. v \in Value /\ Children(v) \subseteq Below(n)
      BY LevelShape
    <3>2. \A c \in Children(v) : h[c] = g[c]
      BY <2>3, <3>1
    <3> QED
      BY <1>1, <3>1, <3>2
  <2>5. h = [v \in Level[n] |-> Item(h, v)]
    BY <2>4, Zenon
  <2> HIDE DEF h
  <2>6. \E x : x = [v \in Level[n] |-> Item(x, v)]
    BY <2>5, Zenon
  <2> QED
    BY <2>6
<1>3. MaxDepth \in Good
  <2> HIDE DEF Good
  <2> QED
    BY <1>2, LevelInduction
<1>4. \E g : g = [v \in Value |-> Item(g, v)]
  BY <1>3 DEF Value
<1> QED
  BY <1>4 DEF Normalize, Item

LEMMA MissingIsOne ==
    ASSUME NEW v \in Value, v.type = "missing"
    PROVE  v = Missing
BY ValueShape DEF Missing

LEMMA MissingShape ==
    /\ Missing \in Value
    /\ Missing.type = "missing" /\ Missing.scalar = 0 /\ Missing.map = NoFields /\ Missing.list = <<>>
<1>1. Missing \in Value
  BY LevelIs, NodeMade, ValueAssumption DEF Value
<1> QED
  BY <1>1 DEF Missing, Content

\* The normal form by type: of a map, a list, and anything else.
LEMMA NormalOfMap ==
    ASSUME NEW v \in Value, v.type = "map"
    PROVE  /\ Normalize[v].type = "map" /\ Normalize[v].scalar = 0 /\ Normalize[v].list = <<>>
           /\ Normalize[v] = Map(Normalize[v].map)
           /\ Normalize[v].map =
                  [k \in Fields |-> IF Normalize[v.map[k]].type = "null" THEN Missing ELSE Normalize[v.map[k]]]
<1> DEFINE m == [k \in Fields |-> IF Normalize[v.map[k]].type = "null" THEN Missing ELSE Normalize[v.map[k]]]
<1>1. Normalize[v] = Map(m)
  BY NormalizeDefined
<1>2. /\ Normalize[v].type = "map" /\ Normalize[v].scalar = 0 /\ Normalize[v].list = <<>>
      /\ Normalize[v].map = m
  <2> HIDE DEF m
  <2> QED
    BY <1>1 DEF Map, Content
<1> QED
  BY <1>1, <1>2

LEMMA NormalOfList ==
    ASSUME NEW v \in Value, v.type = "list", v.list # <<>>
    PROVE  /\ Normalize[v].type = "list" /\ Normalize[v].scalar = 0 /\ Normalize[v].map = NoFields
           /\ Normalize[v] = List(Normalize[v].list)
           /\ Normalize[v].list = [i \in DOMAIN v.list |-> Normalize[v.list[i]]]
<1> DEFINE l == [i \in DOMAIN v.list |-> Normalize[v.list[i]]]
<1>1. Normalize[v] = List(l)
  BY NormalizeDefined
<1>2. /\ Normalize[v].type = "list" /\ Normalize[v].scalar = 0 /\ Normalize[v].map = NoFields
      /\ Normalize[v].list = l
  <2> HIDE DEF l
  <2> QED
    BY <1>1 DEF List, Content
<1> QED
  BY <1>1, <1>2

LEMMA NormalOfOther ==
    ASSUME NEW v \in Value
    PROVE  /\ v.type = "list" /\ v.list = <<>> => Normalize[v] = Null
           /\ v.type \notin {"map", "list"} => Normalize[v] = v
BY NormalizeDefined

LEMMA NormalIsMissing ==
    ASSUME NEW v \in Value
    PROVE  Normalize[v].type = "missing" <=> v.type = "missing"
<1>1. CASE v.type = "map"
  BY <1>1, NormalOfMap
<1>2. CASE v.type = "list" /\ v.list # <<>>
  BY <1>2, NormalOfList
<1>3. CASE v.type = "list" /\ v.list = <<>>
  BY <1>3, NormalOfOther DEF Null, Content
<1>4. CASE v.type \notin {"map", "list"}
  BY <1>4, NormalOfOther
<1> QED
  BY <1>1, <1>2, <1>3, <1>4

LEMMA MissingBelow ==
    ASSUME NEW n \in 0 .. MaxDepth, n # 0
    PROVE  Missing \in Level[n - 1]
<1>1. n - 1 \in 0 .. MaxDepth
  BY ValueAssumption
<1>2. Level[n - 1] = Node(IF n - 1 = 0 THEN {} ELSE Level[(n - 1) - 1])
  BY <1>1, LevelIs
<1> QED
  BY <1>2, NodeMade

\* A normal form is nested as deep as the value at most.
LEMMA NormalizeStays == \A v \in Value : Normalize[v] \in Value
<1> DEFINE Good == {n \in 0 .. MaxDepth : \A v \in Level[n] : Normalize[v] \in Level[n]}
<1>1. ASSUME NEW n \in 0 .. MaxDepth, n = 0 \/ n - 1 \in Good, NEW v \in Level[n]
      PROVE  Normalize[v] \in Level[n]
  <2>1. v \in Value /\ Children(v) \subseteq Below(n) /\ Level[n] = Node(Below(n))
    BY LevelShape, LevelIs DEF Below
  <2>2. \A c \in Children(v) : c \in Value /\ Normalize[c] \in Below(n)
    BY <1>1, <2>1, LevelsAreValues DEF Below
  <2>3. Missing \in Below(n) \/ n = 0
    BY MissingBelow DEF Below
  <2>4. CASE v.type = "map"
    <3>1. \A k \in Fields : v.map[k] \in Children(v)
      BY <2>1, <2>4, MapFields DEF Children
    <3>2. \A k \in Fields : n # 0
      BY <2>2, <3>1 DEF Below
    <3> DEFINE field(k) == IF Normalize[v.map[k]].type = "null" THEN Missing ELSE Normalize[v.map[k]]
    <3>3. \A k \in Fields : field(k) \in Below(n)
      BY <2>2, <2>3, <3>1, <3>2
    <3>4. Normalize[v] = Map([k \in Fields |-> field(k)])
      BY <2>1, <2>4, NormalOfMap
    <3> HIDE DEF field
    <3>5. [k \in Fields |-> field(k)] \in [Fields -> Below(n)]
      BY <3>3
    <3> QED
      BY <2>1, <3>4, <3>5, NodeMade
  <2>5. CASE v.type = "list" /\ v.list # <<>>
    <3>1. v.list \in Seq(Value) /\ \A i \in DOMAIN v.list : v.list[i] # Missing /\ v.list[i] \in Children(v)
      BY <2>1, ValueShape DEF Children
    <3>2. \A i \in DOMAIN v.list : Normalize[v.list[i]] \in Below(n) /\ Normalize[v.list[i]] # Missing
      <4> SUFFICES ASSUME NEW i \in DOMAIN v.list
                   PROVE  Normalize[v.list[i]] \in Below(n) /\ Normalize[v.list[i]] # Missing
        OBVIOUS
      <4>1. v.list[i] \in Value /\ v.list[i].type # "missing"
        BY <2>2, <3>1, MissingIsOne
      <4> QED
        BY <2>2, <3>1, <4>1, NormalIsMissing, MissingShape
    <3> DEFINE l == [i \in DOMAIN v.list |-> Normalize[v.list[i]]]
    <3>3. Normalize[v] = List(l)
      BY <2>1, <2>5, NormalOfList
    <3>4. Len(v.list) \in Nat /\ l \in [1 .. Len(v.list) -> Below(n)] /\ \A i \in 1 .. Len(v.list) : l[i] # Missing
      BY <3>1, <3>2
    <3> HIDE DEF l
    <3>5. List(l) \in Node(Below(n))
      BY <3>4, ListMade
    <3> QED
      BY <2>1, <3>3, <3>5
  <2>6. CASE v.type \notin {"map", "list"} \/ (v.type = "list" /\ v.list = <<>>)
    BY <2>1, <2>6, NormalOfOther, NodeMade
  <2> QED
    BY <2>4, <2>5, <2>6
<1>2. MaxDepth \in Good
  <2>1. \A n \in 0 .. MaxDepth : n = 0 \/ n - 1 \in Good => n \in Good
    BY <1>1
  <2> HIDE DEF Good
  <2> QED
    BY <2>1, LevelInduction
<1> QED
  BY <1>2 DEF Value

LEMMA NoElements == <<>> \in Matchings(<<>>, <<>>) /\ DOMAIN <<>> = {} /\ Len(<<>>) = 0
BY DEF Matchings

LEMMA SameMissing == SameUpToOrder[<<Missing, Missing>>]
BY EqualIsSame, MissingShape DEF ExactlyEqual

\* Normalization does not tell apart what is the same up to the order of lists.
LEMMA NormalIsSame ==
    \A v, w \in Value : SameUpToOrder[<<v, w>>] => SameUpToOrder[<<Normalize[v], Normalize[w]>>]
<1> DEFINE Good == {v \in Value : \A w \in Value :
                       SameUpToOrder[<<v, w>>] => SameUpToOrder[<<Normalize[v], Normalize[w]>>]}
<1>1. ASSUME NEW v \in Value, Children(v) \subseteq Good, NEW w \in Value, SameUpToOrder[<<v, w>>]
      PROVE  SameUpToOrder[<<Normalize[v], Normalize[w]>>]
  <2>1. v.type = w.type /\ v.scalar = w.scalar /\ Len(v.list) = Len(w.list)
    BY <1>1, SameIs
  <2>2. Normalize[v] \in Value /\ Normalize[w] \in Value
    BY NormalizeStays
  <2>3. CASE v.type = "map"
    <3> DEFINE fieldV(k) == Normalize[v.map[k]]
               fieldW(k) == Normalize[w.map[k]]
    <3>1. ASSUME NEW k \in Fields
          PROVE  /\ fieldV(k) \in Value /\ fieldW(k) \in Value
                 /\ SameUpToOrder[<<fieldV(k), fieldW(k)>>]
      <4>1. k \in DOMAIN v.map
        BY <2>3, MapFields
      <4>2. w.map[k] \in Value /\ v.map[k] \in Good /\ SameUpToOrder[<<v.map[k], w.map[k]>>]
        BY <1>1, <4>1, SameFields DEF Children
      <4> QED
        BY <4>2, NormalizeStays
    <3>2. /\ Normalize[v].type = "map" /\ Normalize[v].scalar = 0 /\ Normalize[v].list = <<>>
          /\ Normalize[v].map = [k \in Fields |-> IF fieldV(k).type = "null" THEN Missing ELSE fieldV(k)]
      BY <2>3, NormalOfMap
    <3>3. /\ Normalize[w].type = "map" /\ Normalize[w].scalar = 0 /\ Normalize[w].list = <<>>
          /\ Normalize[w].map = [k \in Fields |-> IF fieldW(k).type = "null" THEN Missing ELSE fieldW(k)]
      BY <2>1, <2>3, NormalOfMap
    <3> HIDE DEF fieldV, fieldW
    <3>4. ASSUME NEW k \in Fields PROVE SameUpToOrder[<<Normalize[v].map[k], Normalize[w].map[k]>>]
      <4>1. fieldV(k).type = fieldW(k).type
        BY <3>1, SameIs
      <4>2. CASE fieldV(k).type = "null"
        <5>1. Normalize[v].map[k] = Missing /\ Normalize[w].map[k] = Missing
          BY <3>2, <3>3, <4>1, <4>2
        <5> QED
          BY <5>1, SameMissing
      <4>3. CASE fieldV(k).type # "null"
        <5>1. Normalize[v].map[k] = fieldV(k) /\ Normalize[w].map[k] = fieldW(k)
          BY <3>2, <3>3, <4>1, <4>3
        <5> QED
          BY <3>1, <5>1
      <4> QED
        BY <4>2, <4>3
    <3>5. \A k \in DOMAIN Normalize[v].map : SameUpToOrder[<<Normalize[v].map[k], Normalize[w].map[k]>>]
      BY <3>2, <3>4
    <3>6. /\ <<>> \in Matchings(Normalize[v].list, Normalize[w].list)
          /\ DOMAIN Normalize[v].list = {} /\ Len(Normalize[v].list) = Len(Normalize[w].list)
      BY <3>2, <3>3, NoElements
    <3>7. \A i \in DOMAIN Normalize[v].list : SameUpToOrder[<<Normalize[v].list[i], Normalize[w].list[<<>>[i]]>>]
      BY <3>6
    <3>8. Normalize[v].type = Normalize[w].type /\ Normalize[v].scalar = Normalize[w].scalar
      BY <3>2, <3>3
    <3> QED
      BY <2>2, <3>5, <3>6, <3>7, <3>8, SameMade
  <2>4. CASE v.type = "list" /\ v.list # <<>>
    <3>1. v.list \in Seq(Value) /\ w.list \in Seq(Value)
      BY ValueShape
    <3>2. w.type = "list" /\ w.list # <<>>
      BY <2>1, <2>4, <3>1
    <3>3. PICK f \in Matchings(v.list, w.list) :
              \A i \in DOMAIN v.list : SameUpToOrder[<<v.list[i], w.list[f[i]]>>]
      BY <1>1, SameIs
    <3>4. /\ Normalize[v].type = "list" /\ Normalize[v].scalar = 0 /\ Normalize[v].map = NoFields
          /\ Normalize[v].list = [i \in DOMAIN v.list |-> Normalize[v.list[i]]]
      BY <2>4, NormalOfList
    <3>5. /\ Normalize[w].type = "list" /\ Normalize[w].scalar = 0 /\ Normalize[w].map = NoFields
          /\ Normalize[w].list = [i \in DOMAIN w.list |-> Normalize[w.list[i]]]
      BY <3>2, NormalOfList
    <3>6. /\ DOMAIN v.list = DOMAIN w.list /\ f \in [DOMAIN v.list -> DOMAIN w.list]
          /\ \A i, j \in DOMAIN v.list : f[i] = f[j] => i = j
      BY <2>1, <3>1, SameLength DEF Matchings
    <3>7. ASSUME NEW i \in DOMAIN v.list
          PROVE  SameUpToOrder[<<Normalize[v.list[i]], Normalize[w.list[f[i]]]>>]
      <4>1. v.list[i] \in Good
        BY <1>1 DEF Children
      <4>2. f[i] \in DOMAIN w.list
        BY <3>6
      <4>3. w.list[f[i]] \in Value
        BY <3>1, <4>2
      <4> QED
        BY <3>3, <4>1, <4>3
    <3>8. Len(Normalize[v].list) = Len(Normalize[w].list)
      <4>1. Normalize[v].list \in Seq(Value) /\ Normalize[w].list \in Seq(Value)
        BY <2>2, ValueShape
      <4>2. DOMAIN Normalize[v].list = DOMAIN Normalize[w].list
        BY <3>4, <3>5, <3>6
      <4> QED
        BY <4>1, <4>2, SameLength
    <3>9. /\ f \in Matchings(Normalize[v].list, Normalize[w].list)
          /\ \A i \in DOMAIN Normalize[v].list :
                 SameUpToOrder[<<Normalize[v].list[i], Normalize[w].list[f[i]]>>]
      BY <3>4, <3>5, <3>6, <3>7 DEF Matchings
    <3>10. \A k \in DOMAIN Normalize[v].map : SameUpToOrder[<<Normalize[v].map[k], Normalize[w].map[k]>>]
      BY <3>4 DEF NoFields
    <3>11. Normalize[v].type = Normalize[w].type /\ Normalize[v].scalar = Normalize[w].scalar
      BY <3>4, <3>5
    <3> QED
      BY <2>2, <3>8, <3>9, <3>10, <3>11, SameMade
  <2>5. CASE v.type = "list" /\ v.list = <<>>
    <3>1. v.list \in Seq(Value) /\ w.list \in Seq(Value)
      BY ValueShape
    <3>2. w.type = "list" /\ w.list = <<>>
      BY <2>1, <2>5, <3>1
    <3>3. Normalize[v] = Null /\ Normalize[w] = Null
      BY <2>5, <3>2, NormalOfOther
    <3> QED
      BY <2>2, <3>3, EqualIsSame DEF ExactlyEqual
  <2>6. CASE v.type \notin {"map", "list"}
    BY <1>1, <2>1, <2>6, NormalOfOther
  <2> QED
    BY <2>3, <2>4, <2>5, <2>6
<1>2. Value \subseteq Good
  <2>1. \A v \in Value : Children(v) \subseteq Good => v \in Good
    BY <1>1
  <2> HIDE DEF Good
  <2> QED
    BY <2>1, ValuesByInduction
<1> QED
  BY <1>2

-----------------------------------------------------------------------------
(***************************************************************************)
(* Fields kept.                                                            *)
(***************************************************************************)

LEMMA CoversDefined ==
    Covers = [p \in Value \X Value |->
        LET after == p[1]
            before == p[2]
        IN  \/ before = Missing
            \/ /\ after.type = before.type /\ after.scalar = before.scalar
               /\ \A k \in DOMAIN before.map : Covers[<<after.map[k], before.map[k]>>]
               /\ \E f \in Matchings(before.list, after.list) :
                      \A i \in DOMAIN before.list : Covers[<<after.list[f[i]], before.list[i]>>]]
<1> DEFINE Item(g, p) ==
               LET after == p[1]
                   before == p[2]
               IN  \/ before = Missing
                   \/ /\ after.type = before.type /\ after.scalar = before.scalar
                      /\ \A k \in DOMAIN before.map : g[<<after.map[k], before.map[k]>>]
                      /\ \E f \in Matchings(before.list, after.list) :
                             \A i \in DOMAIN before.list : g[<<after.list[f[i]], before.list[i]>>]
           Good == {n \in 0 .. MaxDepth : \E g : g = [p \in Level[n] \X Level[n] |-> Item(g, p)]}
<1>1. ASSUME NEW g, NEW h, NEW p \in Value \X Value, \A c \in Children(p[1]), d \in Children(p[2]) : h[<<c, d>>] = g[<<c, d>>]
      PROVE  Item(h, p) = Item(g, p)
  <2> DEFINE after == p[1]
             before == p[2]
  <2>1. after \in Value /\ before \in Value
    OBVIOUS
  <2>2. ASSUME after.type = before.type, NEW k \in DOMAIN before.map
        PROVE  h[<<after.map[k], before.map[k]>>] = g[<<after.map[k], before.map[k]>>]
    <3>1. k \in DOMAIN after.map
      BY <2>1, <2>2, ValueShape DEF NoFields
    <3> QED
      BY <1>1, <3>1 DEF Children
  <2>3. ASSUME NEW f \in Matchings(before.list, after.list), NEW i \in DOMAIN before.list
        PROVE  h[<<after.list[f[i]], before.list[i]>>] = g[<<after.list[f[i]], before.list[i]>>]
    <3>1. f[i] \in DOMAIN after.list
      BY DEF Matchings
    <3> QED
      BY <1>1, <3>1 DEF Children
  <2>4. after.type = before.type =>
            ((\A k \in DOMAIN before.map : h[<<after.map[k], before.map[k]>>])
                <=> (\A k \in DOMAIN before.map : g[<<after.map[k], before.map[k]>>]))
    BY <2>2
  <2>5. (\E f \in Matchings(before.list, after.list) :
            \A i \in DOMAIN before.list : h[<<after.list[f[i]], before.list[i]>>])
        <=> (\E f \in Matchings(before.list, after.list) :
                \A i \in DOMAIN before.list : g[<<after.list[f[i]], before.list[i]>>])
    BY <2>3
  <2> QED
    BY <2>4, <2>5, Zenon
<1> HIDE DEF Item
<1>2. ASSUME NEW n \in 0 .. MaxDepth, n = 0 \/ n - 1 \in Good PROVE n \in Good
  <2>1. PICK g : n # 0 => g = [p \in Level[n - 1] \X Level[n - 1] |-> Item(g, p)]
    BY <1>2
  <2>2. ASSUME NEW p \in Below(n) \X Below(n) PROVE g[p] = Item(g, p)
    BY <2>1, <2>2 DEF Below
  <2> DEFINE h == [p \in Level[n] \X Level[n] |-> Item(g, p)]
  <2>3. ASSUME NEW p \in Below(n) \X Below(n) PROVE h[p] = g[p]
    <3>1. p \in Level[n] \X Level[n]
      BY <2>3, LevelsGrow DEF Below
    <3> QED
      BY <2>2, <2>3, <3>1
  <2>4. ASSUME NEW p \in Level[n] \X Level[n] PROVE Item(h, p) = Item(g, p)
    <3> HIDE DEF h
    <3>1. p \in Value \X Value /\ Children(p[1]) \subseteq Below(n) /\ Children(p[2]) \subseteq Below(n)
      BY LevelShape
    <3>2. \A c \in Children(p[1]), d \in Children(p[2]) : h[<<c, d>>] = g[<<c, d>>]
      BY <2>3, <3>1
    <3> QED
      BY <1>1, <3>1, <3>2
  <2>5. h = [p \in Level[n] \X Level[n] |-> Item(h, p)]
    BY <2>4, Zenon
  <2> HIDE DEF h
  <2>6. \E x : x = [p \in Level[n] \X Level[n] |-> Item(x, p)]
    BY <2>5, Zenon
  <2> QED
    BY <2>6
<1>3. MaxDepth \in Good
  <2> HIDE DEF Good
  <2> QED
    BY <1>2, LevelInduction
<1>4. \E g : g = [p \in Value \X Value |-> Item(g, p)]
  BY <1>3 DEF Value
<1> QED
  BY <1>4 DEF Covers, Item

LEMMA CoversIs ==
    ASSUME NEW after \in Value, NEW before \in Value
    PROVE  Covers[<<after, before>>] <=>
               \/ before = Missing
               \/ /\ after.type = before.type /\ after.scalar = before.scalar
                  /\ \A k \in DOMAIN before.map : Covers[<<after.map[k], before.map[k]>>]
                  /\ \E f \in Matchings(before.list, after.list) :
                         \A i \in DOMAIN before.list : Covers[<<after.list[f[i]], before.list[i]>>]
<1> DEFINE p == <<after, before>>
<1>1. p \in Value \X Value /\ p[1] = after /\ p[2] = before
  OBVIOUS
<1> HIDE DEF p
<1>2. Covers[p] <=>
          \/ p[2] = Missing
          \/ /\ p[1].type = p[2].type /\ p[1].scalar = p[2].scalar
             /\ \A k \in DOMAIN p[2].map : Covers[<<p[1].map[k], p[2].map[k]>>]
             /\ \E f \in Matchings(p[2].list, p[1].list) :
                    \A i \in DOMAIN p[2].list : Covers[<<p[1].list[f[i]], p[2].list[i]>>]
  BY <1>1, CoversDefined
<1>3. Covers[p] <=>
          \/ before = Missing
          \/ /\ after.type = before.type /\ after.scalar = before.scalar
             /\ \A k \in DOMAIN before.map : Covers[<<after.map[k], before.map[k]>>]
             /\ \E f \in Matchings(before.list, after.list) :
                    \A i \in DOMAIN before.list : Covers[<<after.list[f[i]], before.list[i]>>]
  BY <1>1, <1>2, Zenon
<1> QED
  BY <1>3 DEF p

LEMMA CoversMade ==
    ASSUME NEW after \in Value, NEW before \in Value,
           after.type = before.type, after.scalar = before.scalar,
           \A k \in DOMAIN before.map : Covers[<<after.map[k], before.map[k]>>],
           NEW f \in Matchings(before.list, after.list),
           \A i \in DOMAIN before.list : Covers[<<after.list[f[i]], before.list[i]>>]
    PROVE  Covers[<<after, before>>]
BY CoversIs

\* A value covers what is the same up to the order of lists.
LEMMA SameIsCovered ==
    \A v, w \in Value : SameUpToOrder[<<v, w>>] => Covers[<<w, v>>]
<1> DEFINE Good == {v \in Value : \A w \in Value : SameUpToOrder[<<v, w>>] => Covers[<<w, v>>]}
<1>1. ASSUME NEW v \in Value, Children(v) \subseteq Good, NEW w \in Value, SameUpToOrder[<<v, w>>]
      PROVE  Covers[<<w, v>>]
  <2>1. w.type = v.type /\ w.scalar = v.scalar
    BY <1>1, SameIs
  <2>2. ASSUME NEW k \in DOMAIN v.map PROVE Covers[<<w.map[k], v.map[k]>>]
    <3>1. v.map[k] \in Good /\ w.map[k] \in Value /\ SameUpToOrder[<<v.map[k], w.map[k]>>]
      BY <1>1, SameFields DEF Children
    <3> QED
      BY <3>1
  <2>3. PICK f \in Matchings(v.list, w.list) :
            \A i \in DOMAIN v.list : SameUpToOrder[<<v.list[i], w.list[f[i]]>>]
    BY <1>1, SameIs
  <2>4. ASSUME NEW i \in DOMAIN v.list PROVE Covers[<<w.list[f[i]], v.list[i]>>]
    <3>1. v.list[i] \in Good
      BY <1>1 DEF Children
    <3>2. f[i] \in DOMAIN w.list
      BY DEF Matchings
    <3>3. w.list[f[i]] \in Value
      BY <3>2, ValueShape
    <3> QED
      BY <2>3, <3>1, <3>3
  <2> QED
    BY <2>1, <2>2, <2>4, CoversMade
<1>2. Value \subseteq Good
  <2>1. \A v \in Value : Children(v) \subseteq Good => v \in Good
    BY <1>1
  <2> HIDE DEF Good
  <2> QED
    BY <2>1, ValuesByInduction
<1> QED
  BY <1>2

LEMMA CoversItself == \A v \in Value : Covers[<<v, v>>]
<1>1. \A v \in Value : SameUpToOrder[<<v, v>>]
  BY EqualIsSame DEF ExactlyEqual
<1> QED
  BY <1>1, SameIsCovered

LEMMA CoversAgain ==
    \A x, y, z \in Value : Covers[<<x, y>>] /\ Covers[<<y, z>>] => Covers[<<x, z>>]
<1> DEFINE Good == {x \in Value : \A y, z \in Value :
                       Covers[<<x, y>>] /\ Covers[<<y, z>>] => Covers[<<x, z>>]}
<1>1. ASSUME NEW x \in Value, Children(x) \subseteq Good,
             NEW y \in Value, NEW z \in Value, Covers[<<x, y>>], Covers[<<y, z>>]
      PROVE  Covers[<<x, z>>]
  <2>1. CASE z = Missing
    BY <2>1, CoversIs
  <2>2. CASE y = Missing
    <3>1. z = Missing
      BY <1>1, <2>2, CoversIs, MissingShape, MissingIsOne
    <3> QED
      BY <2>1, <3>1
  <2>3. CASE z # Missing /\ y # Missing
    <3>1. /\ x.type = y.type /\ x.scalar = y.scalar
          /\ \A k \in DOMAIN y.map : Covers[<<x.map[k], y.map[k]>>]
      BY <1>1, <2>3, CoversIs
    <3>2. PICK g \in Matchings(y.list, x.list) :
              \A i \in DOMAIN y.list : Covers[<<x.list[g[i]], y.list[i]>>]
      BY <1>1, <2>3, CoversIs
    <3>3. /\ y.type = z.type /\ y.scalar = z.scalar
          /\ \A k \in DOMAIN z.map : Covers[<<y.map[k], z.map[k]>>]
      BY <1>1, <2>3, CoversIs
    <3>4. PICK f \in Matchings(z.list, y.list) :
              \A i \in DOMAIN z.list : Covers[<<y.list[f[i]], z.list[i]>>]
      BY <1>1, <2>3, CoversIs
    <3>5. ASSUME NEW k \in DOMAIN z.map PROVE Covers[<<x.map[k], z.map[k]>>]
      <4>1. /\ k \in DOMAIN x.map /\ k \in DOMAIN y.map
            /\ x.map[k] \in Value /\ y.map[k] \in Value /\ z.map[k] \in Value
        BY <3>1, <3>3, ValueShape DEF NoFields
      <4>2. x.map[k] \in Good
        BY <1>1, <4>1 DEF Children
      <4> QED
        BY <3>1, <3>3, <4>1, <4>2
    <3> DEFINE e == [i \in DOMAIN z.list |-> g[f[i]]]
    <3>6. /\ f \in [DOMAIN z.list -> DOMAIN y.list] /\ g \in [DOMAIN y.list -> DOMAIN x.list]
          /\ e \in Matchings(z.list, x.list)
      BY DEF Matchings
    <3>7. ASSUME NEW i \in DOMAIN z.list PROVE Covers[<<x.list[e[i]], z.list[i]>>]
      <4>1. e[i] = g[f[i]] /\ f[i] \in DOMAIN y.list /\ g[f[i]] \in DOMAIN x.list
        BY <3>6
      <4>2. /\ x.list[g[f[i]]] \in Good
            /\ y.list[f[i]] \in Value
            /\ z.list[i] \in Value
        <5>1. \A j \in DOMAIN x.list : x.list[j] \in Good
          BY <1>1 DEF Children
        <5>2. x.list[g[f[i]]] \in Good
          BY <4>1, <5>1
        <5>3. y.list \in Seq(Value) /\ z.list \in Seq(Value)
          BY ValueShape
        <5> QED
          BY <4>1, <5>2, <5>3
      <4>3. Covers[<<x.list[g[f[i]]], y.list[f[i]]>>] /\ Covers[<<y.list[f[i]], z.list[i]>>]
        BY <3>2, <3>4, <4>1
      <4> QED
        BY <4>1, <4>2, <4>3
    <3> HIDE DEF e
    <3> QED
      BY <3>1, <3>3, <3>5, <3>6, <3>7, CoversMade
  <2> QED
    BY <2>1, <2>2, <2>3
<1>2. Value \subseteq Good
  <2>1. \A v \in Value : Children(v) \subseteq Good => v \in Good
    BY <1>1
  <2> HIDE DEF Good
  <2> QED
    BY <2>1, ValuesByInduction
<1> QED
  BY <1>2

LEMMA FilterToCommonFieldsDefined ==
    FilterToCommonFields = [p \in Value \X Value |->
        LET v == p[1]
            w == p[2]
        IN  CASE v.type = "map" /\ w.type = "map" ->
                     Map([k \in Fields |->
                             IF w.map[k] = Missing THEN Missing ELSE FilterToCommonFields[<<v.map[k], w.map[k]>>]])
              [] v.type = "list" /\ w.type = "list" ->
                     List([i \in DOMAIN v.list \cap DOMAIN w.list |->
                              FilterToCommonFields[<<v.list[i], w.list[i]>>]])
              [] OTHER -> v]
<1> DEFINE Item(g, p) ==
               LET v == p[1]
                   w == p[2]
               IN  CASE v.type = "map" /\ w.type = "map" ->
                            Map([k \in Fields |->
                                    IF w.map[k] = Missing THEN Missing ELSE g[<<v.map[k], w.map[k]>>]])
                     [] v.type = "list" /\ w.type = "list" ->
                            List([i \in DOMAIN v.list \cap DOMAIN w.list |->
                                     g[<<v.list[i], w.list[i]>>]])
                     [] OTHER -> v
           Good == {n \in 0 .. MaxDepth : \E g : g = [p \in Level[n] \X Level[n] |-> Item(g, p)]}
<1>1. ASSUME NEW g, NEW h, NEW p \in Value \X Value, \A c \in Children(p[1]), d \in Children(p[2]) : h[<<c, d>>] = g[<<c, d>>]
      PROVE  Item(h, p) = Item(g, p)
  <2> DEFINE v == p[1]
             w == p[2]
  <2>1. v \in Value /\ w \in Value
    OBVIOUS
  <2>2. CASE v.type = "map" /\ w.type = "map"
    <3>1. \A k \in Fields : h[<<v.map[k], w.map[k]>>] = g[<<v.map[k], w.map[k]>>]
      BY <1>1, <2>1, <2>2, MapFields DEF Children
    <3>2. [k \in Fields |-> IF w.map[k] = Missing THEN Missing ELSE h[<<v.map[k], w.map[k]>>]]
          = [k \in Fields |-> IF w.map[k] = Missing THEN Missing ELSE g[<<v.map[k], w.map[k]>>]]
      BY <3>1
    <3> QED
      BY <2>2, <3>2
  <2>3. \A i \in DOMAIN v.list \cap DOMAIN w.list :
            h[<<v.list[i], w.list[i]>>] = g[<<v.list[i], w.list[i]>>]
    BY <1>1 DEF Children
  <2>4. [i \in DOMAIN v.list \cap DOMAIN w.list |-> h[<<v.list[i], w.list[i]>>]]
        = [i \in DOMAIN v.list \cap DOMAIN w.list |-> g[<<v.list[i], w.list[i]>>]]
    BY <2>3
  <2>5. CASE ~(v.type = "map" /\ w.type = "map")
    BY <2>4, <2>5
  <2> QED
    BY <2>2, <2>5
<1> HIDE DEF Item
<1>2. ASSUME NEW n \in 0 .. MaxDepth, n = 0 \/ n - 1 \in Good PROVE n \in Good
  <2>1. PICK g : n # 0 => g = [p \in Level[n - 1] \X Level[n - 1] |-> Item(g, p)]
    BY <1>2
  <2>2. ASSUME NEW p \in Below(n) \X Below(n) PROVE g[p] = Item(g, p)
    BY <2>1, <2>2 DEF Below
  <2> DEFINE h == [p \in Level[n] \X Level[n] |-> Item(g, p)]
  <2>3. ASSUME NEW p \in Below(n) \X Below(n) PROVE h[p] = g[p]
    <3>1. p \in Level[n] \X Level[n]
      BY <2>3, LevelsGrow DEF Below
    <3> QED
      BY <2>2, <2>3, <3>1
  <2>4. ASSUME NEW p \in Level[n] \X Level[n] PROVE Item(h, p) = Item(g, p)
    <3> HIDE DEF h
    <3>1. p \in Value \X Value /\ Children(p[1]) \subseteq Below(n) /\ Children(p[2]) \subseteq Below(n)
      BY LevelShape
    <3>2. \A c \in Children(p[1]), d \in Children(p[2]) : h[<<c, d>>] = g[<<c, d>>]
      BY <2>3, <3>1
    <3> QED
      BY <1>1, <3>1, <3>2
  <2>5. h = [p \in Level[n] \X Level[n] |-> Item(h, p)]
    BY <2>4, Zenon
  <2> HIDE DEF h
  <2>6. \E x : x = [p \in Level[n] \X Level[n] |-> Item(x, p)]
    BY <2>5, Zenon
  <2> QED
    BY <2>6
<1>3. MaxDepth \in Good
  <2> HIDE DEF Good
  <2> QED
    BY <1>2, LevelInduction
<1>4. \E g : g = [p \in Value \X Value |-> Item(g, p)]
  BY <1>3 DEF Value
<1> QED
  BY <1>4 DEF FilterToCommonFields, Item

LEMMA FilterIs ==
    ASSUME NEW v \in Value, NEW w \in Value
    PROVE  FilterToCommonFields[<<v, w>>] =
               CASE v.type = "map" /\ w.type = "map" ->
                        Map([k \in Fields |-> IF w.map[k] = Missing THEN Missing
                                              ELSE FilterToCommonFields[<<v.map[k], w.map[k]>>]])
                 [] v.type = "list" /\ w.type = "list" ->
                        List([i \in DOMAIN v.list \cap DOMAIN w.list |->
                                 FilterToCommonFields[<<v.list[i], w.list[i]>>]])
                 [] OTHER -> v
<1> DEFINE p == <<v, w>>
<1>1. p \in Value \X Value /\ p[1] = v /\ p[2] = w
  OBVIOUS
<1> HIDE DEF p
<1>2. FilterToCommonFields[p] =
          CASE p[1].type = "map" /\ p[2].type = "map" ->
                   Map([k \in Fields |-> IF p[2].map[k] = Missing THEN Missing
                                         ELSE FilterToCommonFields[<<p[1].map[k], p[2].map[k]>>]])
            [] p[1].type = "list" /\ p[2].type = "list" ->
                   List([i \in DOMAIN p[1].list \cap DOMAIN p[2].list |->
                            FilterToCommonFields[<<p[1].list[i], p[2].list[i]>>]])
            [] OTHER -> p[1]
  BY <1>1, FilterToCommonFieldsDefined
<1>3. FilterToCommonFields[p] =
          CASE v.type = "map" /\ w.type = "map" ->
                   Map([k \in Fields |-> IF w.map[k] = Missing THEN Missing
                                         ELSE FilterToCommonFields[<<v.map[k], w.map[k]>>]])
            [] v.type = "list" /\ w.type = "list" ->
                   List([i \in DOMAIN v.list \cap DOMAIN w.list |->
                            FilterToCommonFields[<<v.list[i], w.list[i]>>]])
            [] OTHER -> v
  BY <1>1, <1>2, Zenon
<1> QED
  BY <1>3 DEF p

LEMMA FilterOfMaps ==
    ASSUME NEW v \in Value, NEW w \in Value, v.type = "map", w.type = "map"
    PROVE  FilterToCommonFields[<<v, w>>] =
               Map([k \in Fields |-> IF w.map[k] = Missing THEN Missing
                                     ELSE FilterToCommonFields[<<v.map[k], w.map[k]>>]])
BY FilterIs

LEMMA FilterOfLists ==
    ASSUME NEW v \in Value, NEW w \in Value, v.type = "list", w.type = "list"
    PROVE  FilterToCommonFields[<<v, w>>] =
               List([i \in DOMAIN v.list \cap DOMAIN w.list |->
                        FilterToCommonFields[<<v.list[i], w.list[i]>>]])
BY FilterIs

LEMMA FilterOfOthers ==
    ASSUME NEW v \in Value, NEW w \in Value,
           ~(v.type = "map" /\ w.type = "map"), ~(v.type = "list" /\ w.type = "list")
    PROVE  FilterToCommonFields[<<v, w>>] = v
BY FilterIs

LEMMA FilterIsMissing ==
    ASSUME NEW v \in Value, NEW w \in Value, FilterToCommonFields[<<v, w>>].type = "missing"
    PROVE  v.type = "missing"
<1>1. CASE v.type = "map" /\ w.type = "map"
  <2> DEFINE m == [k \in Fields |-> IF w.map[k] = Missing THEN Missing
                                    ELSE FilterToCommonFields[<<v.map[k], w.map[k]>>]]
  <2>1. FilterToCommonFields[<<v, w>>] = Map(m)
    BY <1>1, FilterOfMaps
  <2> HIDE DEF m
  <2> QED
    BY <2>1 DEF Map, Content
<1>2. CASE v.type = "list" /\ w.type = "list"
  <2> DEFINE l == [i \in DOMAIN v.list \cap DOMAIN w.list |-> FilterToCommonFields[<<v.list[i], w.list[i]>>]]
  <2>1. FilterToCommonFields[<<v, w>>] = List(l)
    BY <1>2, FilterOfLists
  <2> HIDE DEF l
  <2> QED
    BY <2>1 DEF List, Content
<1>3. CASE ~(v.type = "map" /\ w.type = "map") /\ ~(v.type = "list" /\ w.type = "list")
  BY <1>3, FilterOfOthers
<1> QED
  BY <1>1, <1>2, <1>3

LEMMA CommonPositions ==
    ASSUME NEW S, NEW s \in Seq(S), NEW t \in Seq(S)
    PROVE  \E n \in Nat : DOMAIN s \cap DOMAIN t = 1 .. n
<1>1. Len(s) \in Nat /\ DOMAIN s = 1 .. Len(s) /\ Len(t) \in Nat /\ DOMAIN t = 1 .. Len(t)
  OBVIOUS
<1>2. CASE Len(s) <= Len(t)
  BY <1>1, <1>2
<1>3. CASE Len(t) <= Len(s)
  BY <1>1, <1>3
<1> QED
  BY <1>1, <1>2, <1>3

\* What the filter leaves of a value is nested as deep as the value at most.
LEMMA FilterStays == \A v, w \in Value : FilterToCommonFields[<<v, w>>] \in Value
<1> DEFINE Good == {n \in 0 .. MaxDepth : \A v \in Level[n], w \in Value :
                       FilterToCommonFields[<<v, w>>] \in Level[n]}
<1>1. ASSUME NEW n \in 0 .. MaxDepth, n = 0 \/ n - 1 \in Good, NEW v \in Level[n], NEW w \in Value
      PROVE  FilterToCommonFields[<<v, w>>] \in Level[n]
  <2>1. v \in Value /\ Children(v) \subseteq Below(n) /\ Level[n] = Node(Below(n))
    BY LevelShape, LevelIs DEF Below
  <2>2. \A c \in Children(v), d \in Value : c \in Value /\ FilterToCommonFields[<<c, d>>] \in Below(n)
    BY <1>1, <2>1, LevelsAreValues DEF Below
  <2>3. CASE v.type = "map" /\ w.type = "map"
    <3>1. \A k \in Fields : v.map[k] \in Children(v) /\ w.map[k] \in Value
      BY <2>1, <2>3, MapFields, ValueShape DEF Children
    <3>2. Fields # {} => Missing \in Below(n)
      BY <2>1, <2>2, <3>1, MissingBelow DEF Below
    <3> DEFINE field(k) == IF w.map[k] = Missing THEN Missing ELSE FilterToCommonFields[<<v.map[k], w.map[k]>>]
    <3>3. \A k \in Fields : field(k) \in Below(n)
      BY <2>2, <3>1, <3>2
    <3>4. FilterToCommonFields[<<v, w>>] = Map([k \in Fields |-> field(k)])
      BY <2>1, <2>3, FilterOfMaps
    <3> HIDE DEF field
    <3>5. [k \in Fields |-> field(k)] \in [Fields -> Below(n)]
      BY <3>3
    <3> QED
      BY <2>1, <3>4, <3>5, NodeMade
  <2>4. CASE v.type = "list" /\ w.type = "list"
    <3>1. /\ v.list \in Seq(Value) /\ w.list \in Seq(Value)
          /\ \A i \in DOMAIN v.list : v.list[i] # Missing /\ v.list[i] \in Children(v)
      BY <2>1, ValueShape DEF Children
    <3>2. PICK m \in Nat : DOMAIN v.list \cap DOMAIN w.list = 1 .. m
      BY <3>1, CommonPositions
    <3> DEFINE item(i) == FilterToCommonFields[<<v.list[i], w.list[i]>>]
    <3>3. ASSUME NEW i \in 1 .. m PROVE item(i) \in Below(n) /\ item(i) # Missing
      <4>1. i \in DOMAIN v.list /\ i \in DOMAIN w.list
        BY <3>2
      <4>2. v.list[i] \in Children(v) /\ v.list[i] # Missing /\ v.list[i] \in Value /\ w.list[i] \in Value
        BY <3>1, <4>1
      <4> QED
        BY <2>2, <4>2, MissingIsOne, MissingShape, FilterIsMissing
    <3>4. FilterToCommonFields[<<v, w>>] = List([i \in 1 .. m |-> item(i)])
      BY <2>1, <2>4, <3>2, FilterOfLists
    <3> HIDE DEF item
    <3> DEFINE l == [i \in 1 .. m |-> item(i)]
    <3>5. l \in [1 .. m -> Below(n)] /\ \A i \in 1 .. m : l[i] # Missing
      BY <3>3
    <3> HIDE DEF l
    <3>6. List(l) \in Node(Below(n))
      BY <3>5, ListMade
    <3> QED
      BY <2>1, <3>4, <3>6 DEF l
  <2>5. CASE ~(v.type = "map" /\ w.type = "map") /\ ~(v.type = "list" /\ w.type = "list")
    BY <2>1, <2>5, FilterOfOthers
  <2> QED
    BY <2>3, <2>4, <2>5
<1>2. MaxDepth \in Good
  <2>1. \A n \in 0 .. MaxDepth : n = 0 \/ n - 1 \in Good => n \in Good
    BY <1>1
  <2> HIDE DEF Good
  <2> QED
    BY <2>1, LevelInduction
<1> QED
  BY <1>2 DEF Value

\* The filter only takes away.
LEMMA FilterIsCovered == \A v, w \in Value : Covers[<<v, FilterToCommonFields[<<v, w>>]>>]
<1> DEFINE Good == {v \in Value : \A w \in Value : Covers[<<v, FilterToCommonFields[<<v, w>>]>>]}
<1>1. ASSUME NEW v \in Value, Children(v) \subseteq Good, NEW w \in Value
      PROVE  Covers[<<v, FilterToCommonFields[<<v, w>>]>>]
  <2> DEFINE u == FilterToCommonFields[<<v, w>>]
  <2>1. u \in Value
    BY FilterStays
  <2>2. CASE v.type = "map" /\ w.type = "map"
    <3> DEFINE field(k) == IF w.map[k] = Missing THEN Missing ELSE FilterToCommonFields[<<v.map[k], w.map[k]>>]
    <3>1. u = Map([k \in Fields |-> field(k)])
      BY <2>2, FilterOfMaps
    <3>2. ASSUME NEW k \in Fields PROVE Covers[<<v.map[k], field(k)>>]
      <4>1. v.map[k] \in Good /\ v.map[k] \in Value /\ w.map[k] \in Value
        BY <1>1, <2>2, MapFields, ValueShape DEF Children
      <4>2. CASE w.map[k] = Missing
        BY <4>1, <4>2, CoversIs, MissingShape
      <4>3. CASE w.map[k] # Missing
        BY <4>1, <4>3
      <4> QED
        BY <4>2, <4>3
    <3> HIDE DEF field, u
    <3>3. u.type = "map" /\ u.scalar = 0 /\ u.list = <<>> /\ u.map = [k \in Fields |-> field(k)]
      BY <3>1 DEF Map, Content
    <3>4. v.type = u.type /\ v.scalar = u.scalar /\ v.list = <<>>
      BY <2>2, <3>3, ValueShape
    <3>5. \A k \in DOMAIN u.map : Covers[<<v.map[k], u.map[k]>>]
      BY <3>2, <3>3
    <3>6. /\ <<>> \in Matchings(u.list, v.list)
          /\ \A i \in DOMAIN u.list : Covers[<<v.list[<<>>[i]], u.list[i]>>]
      BY <3>3, <3>4, NoElements
    <3>7. Covers[<<v, u>>]
      BY <2>1, <3>4, <3>5, <3>6, CoversMade
    <3> QED
      BY <3>7 DEF u
  <2>3. CASE v.type = "list" /\ w.type = "list"
    <3> DEFINE D == DOMAIN v.list \cap DOMAIN w.list
               item(i) == FilterToCommonFields[<<v.list[i], w.list[i]>>]
               f == [i \in D |-> i]
    <3>1. u = List([i \in D |-> item(i)])
      BY <2>3, FilterOfLists
    <3>2. ASSUME NEW i \in D PROVE Covers[<<v.list[i], item(i)>>]
      <4>1. v.list[i] \in Good
        BY <1>1 DEF Children
      <4>2. w.list[i] \in Value
        BY ValueShape
      <4> QED
        BY <4>1, <4>2
    <3> HIDE DEF item, u
    <3>3. u.type = "list" /\ u.scalar = 0 /\ u.map = NoFields /\ u.list = [i \in D |-> item(i)]
      BY <3>1 DEF List, Content
    <3>4. v.type = u.type /\ v.scalar = u.scalar
      BY <2>3, <3>3, ValueShape
    <3>5. \A k \in DOMAIN u.map : Covers[<<v.map[k], u.map[k]>>]
      BY <3>3 DEF NoFields
    <3>6. f \in Matchings(u.list, v.list) /\ \A i \in DOMAIN u.list : Covers[<<v.list[f[i]], u.list[i]>>]
      BY <3>2, <3>3 DEF Matchings
    <3> HIDE DEF f
    <3>7. Covers[<<v, u>>]
      BY <2>1, <3>4, <3>5, <3>6, CoversMade
    <3> QED
      BY <3>7 DEF u
  <2>4. CASE ~(v.type = "map" /\ w.type = "map") /\ ~(v.type = "list" /\ w.type = "list")
    BY <2>4, FilterOfOthers, CoversItself
  <2> QED
    BY <2>2, <2>3, <2>4
<1>2. Value \subseteq Good
  <2>1. \A v \in Value : Children(v) \subseteq Good => v \in Good
    BY <1>1
  <2> HIDE DEF Good
  <2> QED
    BY <2>1, ValuesByInduction
<1> QED
  BY <1>2

-----------------------------------------------------------------------------
(***************************************************************************)
(* The two passes.                                                         *)
(***************************************************************************)

Exact(i, j) == ExactlyEqual(Docs1[i], Docs2[j])

\* Some document of the other file equals the one at i.
Twin(i) == \E j \in DOMAIN Docs2 : Exact(i, j)

\* m assigns to each used document of two its own document of one: an equal one or, in
\* the second pass, one treated that has no equal.  Documents treated that have an equal
\* find one that was used for an equal document; in the second pass the others are
\* assigned.
Assigns(m) ==
    /\ m \in [used -> DOMAIN Docs1]
    /\ \A j, k \in used : m[j] = m[k] => j = k
    /\ \A j \in used :
           \/ Exact(m[j], j)
           \/ /\ pass = "second" /\ m[j] <= treated /\ ~Twin(m[j])
              /\ CompareStructures(Docs1[m[j]], Docs2[j], isBackwards)
    /\ pass = "exact" => \A j \in used : m[j] <= treated
    /\ \A i \in DOMAIN Docs1 :
           Twin(i) /\ (pass = "exact" => i <= treated) => \E j \in used : Exact(i, j) /\ Exact(m[j], j)
    /\ pass = "second" => \A i \in 1 .. treated : Twin(i) \/ \E j \in used : m[j] = i

CompareInv ==
    /\ TypeOK
    /\ pass = "read" => used = {} /\ treated = 0
    /\ pass # "read" => Len(Docs1) = Len(Docs2) /\ \E m \in [used -> DOMAIN Docs1] : Assigns(m)
    /\ verdict = "different" => Len(Docs1) # Len(Docs2) \/ \E i \in DOMAIN Docs1 : ~Twin(i)
    /\ verdict = "equivalent" => pass = "second" /\ treated = Len(Docs1)

LEMMA DocumentsAreValues ==
    ASSUME NEW file \in Seq(Value)
    PROVE  Documents(file) \in Seq(Value)
<1> DEFINE kept == {i \in DOMAIN file : file[i].type # "null"}
           L == [i \in kept |-> {j \in kept : j <= i}]
           m == Cardinality(kept)
<1>1. DOMAIN file = 1 .. Len(file) /\ Len(file) \in Nat /\ IsFiniteSet(DOMAIN file)
  BY SameLength
<1>2. kept \subseteq DOMAIN file /\ kept \subseteq Nat /\ IsFiniteSet(kept)
  BY <1>1, FS_Subset
<1>3. m \in Nat
  BY <1>2, FS_CardinalityType
<1>4. L \in [kept -> SUBSET kept] /\ \A i, j \in kept : j \in L[i] <=> j <= i
  OBVIOUS
<1>5. Documents(file) = [n \in 1 .. m |-> file[CHOOSE i \in kept : Cardinality(L[i]) = n]]
  <2>1. \A i \in kept : Cardinality({j \in kept : j <= i}) = Cardinality(L[i])
    OBVIOUS
  <2>2. \A n \in 1 .. m : (CHOOSE i \in kept : Cardinality({j \in kept : j <= i}) = n)
                          = (CHOOSE i \in kept : Cardinality(L[i]) = n)
    BY <2>1
  <2>3. Documents(file) = [n \in 1 .. m |-> file[CHOOSE i \in kept : Cardinality({j \in kept : j <= i}) = n]]
    BY DEF Documents
  <2> HIDE DEF kept, L, m
  <2> DEFINE old(n) == CHOOSE i \in kept : Cardinality({j \in kept : j <= i}) = n
             new(n) == CHOOSE i \in kept : Cardinality(L[i]) = n
  <2>4. Documents(file) = [n \in 1 .. m |-> file[old(n)]] /\ \A n \in 1 .. m : old(n) = new(n)
    BY <2>2, <2>3, Zenon
  <2> HIDE DEF old, new
  <2>5. Documents(file) = [n \in 1 .. m |-> file[new(n)]]
    BY <2>4
  <2> QED
    BY <2>5 DEF new
<1> HIDE DEF L, kept
<1>6. ToldApart(kept, L)
  <2>1. \A i \in kept : i \in L[i]
    BY <1>2, <1>4
  <2>2. \A i, j \in kept : i \in L[j] \/ j \in L[i]
    BY <1>2, <1>4
  <2>3. \A i, j \in kept : i \in L[j] => L[i] \subseteq L[j]
    BY <1>2, <1>4
  <2>4. \A i, j \in kept : i \in L[j] /\ j \in L[i] => i = j
    BY <1>2, <1>4
  <2> QED
    BY <1>2, <1>4, <2>1, <2>2, <2>3, <2>4, ChainRanks, Zenon
<1>7. \A n \in 1 .. m : (CHOOSE i \in kept : Cardinality(L[i]) = n) \in kept
  BY <1>6 DEF ToldApart
<1>8. \A n \in 1 .. m : file[CHOOSE i \in kept : Cardinality(L[i]) = n] \in Value
  BY <1>1, <1>2, <1>7
<1>9. Documents(file) \in [1 .. m -> Value]
  BY <1>5, <1>8
<1> QED
  BY <1>3, <1>9, SequenceMade

LEMMA DocsAreValues ==
    ASSUME TypeOK
    PROVE  /\ Docs1 \in Seq(Value) /\ Docs2 \in Seq(Value)
           /\ Len(Docs1) \in Nat /\ DOMAIN Docs1 = 1 .. Len(Docs1)
           /\ Len(Docs2) \in Nat /\ DOMAIN Docs2 = 1 .. Len(Docs2)
           /\ \A i \in DOMAIN Docs1 : Docs1[i] \in Value
           /\ \A j \in DOMAIN Docs2 : Docs2[j] \in Value
<1>1. one \in Seq(Value) /\ two \in Seq(Value)
  BY FilesAssumption DEF TypeOK
<1>2. Docs1 \in Seq(Value) /\ Docs2 \in Seq(Value)
  BY <1>1, DocumentsAreValues DEF Docs1, Docs2
<1> QED
  BY <1>2

LEMMA LeastIsOne ==
    ASSUME NEW S \in SUBSET Nat, S # {}
    PROVE  LeastOf(S) \in S
BY LeastNumber DEF LeastOf

LEMMA InitKeeps ==
    ASSUME Init
    PROVE  CompareInv
<1>1. one \in Seq(Value) /\ two \in Seq(Value)
  BY FilesAssumption DEF Init
<1>2. Docs1 \in Seq(Value)
  BY <1>1, DocumentsAreValues DEF Docs1
<1>3. 0 \in 0 .. Len(Docs1)
  BY <1>2
<1> QED
  BY <1>3 DEF Init, CompareInv, TypeOK

\* No step changes what is compared.
LEMMA InputKept ==
    ASSUME input' = input
    PROVE  /\ one' = one /\ two' = two /\ isBackwards' = isBackwards
           /\ Docs1' = Docs1 /\ Docs2' = Docs2
           /\ \A i, j : Exact(i, j)' <=> Exact(i, j)
           /\ \A i : Twin(i)' <=> Twin(i)
<1>1. one' = one /\ two' = two /\ isBackwards' = isBackwards
  BY DEF input
<1>2. Docs1' = Docs1 /\ Docs2' = Docs2
  BY <1>1 DEF Docs1, Docs2
<1> QED
  BY <1>1, <1>2 DEF Exact, Twin

LEMMA PlacesAreNumbers ==
    ASSUME CompareInv
    PROVE  DOMAIN Docs1 \subseteq Nat /\ DOMAIN Docs2 \subseteq Nat /\ 0 \in 0 .. Len(Docs1)
<1>1. TypeOK
  BY DEF CompareInv
<1>2. /\ Len(Docs1) \in Nat /\ DOMAIN Docs1 = 1 .. Len(Docs1)
      /\ Len(Docs2) \in Nat /\ DOMAIN Docs2 = 1 .. Len(Docs2)
  BY <1>1, DocsAreValues
<1> QED
  BY <1>2

LEMMA CompareFailsKeeps ==
    ASSUME CompareInv, CompareFails
    PROVE  CompareInv'
<1>1. input' = input /\ pass' = pass /\ treated' = treated /\ used' = used
  BY DEF CompareFails
<1>2. TypeOK' /\ verdict' = "error" /\ pass' = "read"
  BY <1>1, InputKept DEF CompareInv, TypeOK, CompareFails
<1> QED
  BY <1>1, <1>2 DEF CompareInv

LEMMA ReadKeeps ==
    ASSUME CompareInv, Read
    PROVE  CompareInv'
<1>1. input' = input /\ treated' = treated /\ used' = used /\ pass = "read" /\ used = {} /\ treated = 0
  BY DEF Read, CompareInv
<1>2. Docs1' = Docs1 /\ Docs2' = Docs2 /\ (\A i : Twin(i)' <=> Twin(i))
  BY <1>1, InputKept
<1>3. TypeOK'
  BY <1>1, InputKept DEF CompareInv, TypeOK, Read
<1>4. CASE Len(Docs1) = Len(Docs2)
  <2>1. pass' = "exact" /\ verdict' = "pending"
    BY <1>4 DEF Read
  <2> DEFINE m == [j \in {} |-> 0]
  <2>2. m \in [used -> DOMAIN Docs1]
    BY <1>1
  <2>3. PICK x : x = m
    OBVIOUS
  <2>4. Assigns(x)'
    <3>1. x \in [used -> DOMAIN Docs1]'
      BY <1>1, <1>2, <2>2, <2>3
    <3>2. \A i \in DOMAIN Docs1 : ~(i <= treated)
      <4>1. DOMAIN Docs1 = 1 .. Len(Docs1)
        BY DocsAreValues DEF CompareInv
      <4> QED
        BY <1>1, <4>1
    <3> HIDE DEF m
    <3> QED
      BY <1>1, <1>2, <2>1, <3>1, <3>2 DEF Assigns
  <2>5. x \in [used -> DOMAIN Docs1]'
    BY <1>1, <1>2, <2>2, <2>3
  <2> QED
    BY <1>2, <1>3, <1>4, <2>1, <2>4, <2>5 DEF CompareInv
<1>5. CASE Len(Docs1) # Len(Docs2)
  <2>1. pass' = "read" /\ verdict' = "different"
    BY <1>5 DEF Read
  <2> QED
    BY <1>1, <1>2, <1>3, <1>5, <2>1 DEF CompareInv
<1> QED
  BY <1>4, <1>5

\* What a document of two is assigned to, when j joins the used ones.
Extended(m, j, i) == [k \in used \cup {j} |-> IF k = j THEN i ELSE m[k]]

LEMMA MatchExactlyKeeps ==
    ASSUME CompareInv, MatchExactly
    PROVE  CompareInv'
<1> DEFINE new == treated + 1
           equal == {j \in Unused : ExactlyEqual(Docs1[new], Docs2[j])}
<1>1. /\ input' = input /\ pass = "exact" /\ pass' = "exact" /\ verdict = "pending" /\ verdict' = "pending"
      /\ treated' = new /\ treated \in Nat /\ new \in DOMAIN Docs1 /\ new \in 0 .. Len(Docs1)
  <2>1. treated \in 0 .. Len(Docs1) /\ Len(Docs1) \in Nat /\ DOMAIN Docs1 = 1 .. Len(Docs1)
    BY DocsAreValues DEF CompareInv, TypeOK
  <2> QED
    BY <2>1 DEF MatchExactly, Treating
<1>2. /\ Docs1' = Docs1 /\ Docs2' = Docs2 /\ isBackwards' = isBackwards
      /\ \A i : Twin(i)' <=> Twin(i)
      /\ \A i, j : Exact(i, j)' <=> Exact(i, j)
  BY <1>1, InputKept
<1>3. used' = IF equal = {} THEN used ELSE used \cup {LeastOf(equal)}
  BY DEF MatchExactly
<1>4. equal \subseteq Unused /\ \A j \in equal : j \in DOMAIN Docs2 /\ j \notin used /\ Exact(new, j)
  BY DEF Unused, Exact
<1>5. Len(Docs1) = Len(Docs2) /\ used \subseteq DOMAIN Docs2 /\ DOMAIN Docs2 \subseteq Nat
  BY <1>1, DocsAreValues DEF CompareInv, TypeOK
<1>6. PICK m \in [used -> DOMAIN Docs1] : Assigns(m)
  BY <1>1 DEF CompareInv
<1>7. /\ \A j, k \in used : m[j] = m[k] => j = k
      /\ \A j \in used : Exact(m[j], j) /\ m[j] <= treated
      /\ \A i \in DOMAIN Docs1 : Twin(i) /\ i <= treated => \E j \in used : Exact(i, j) /\ Exact(m[j], j)
  BY <1>1, <1>6 DEF Assigns
<1>8. \A i \in DOMAIN Docs1 : i <= new => i <= treated \/ i = new
  BY <1>1, DocsAreValues DEF CompareInv
<1>9. \A j \in used : m[j] \in Nat /\ m[j] \in DOMAIN Docs1
  <2>1. DOMAIN Docs1 \subseteq Nat
    BY PlacesAreNumbers
  <2> QED
    BY <1>6, <2>1
<1>10. CASE equal = {}
  <2>1. used' = used
    BY <1>3, <1>10
  <2>2. Twin(new) => \E j \in used : Exact(new, j) /\ Exact(m[j], j)
    <3> SUFFICES ASSUME Twin(new) PROVE \E j \in used : Exact(new, j) /\ Exact(m[j], j)
      OBVIOUS
    <3>1. PICK j \in DOMAIN Docs2 : Exact(new, j)
      BY DEF Twin
    <3>2. j \in used
      BY <1>10, <3>1 DEF Exact, Unused
    <3> QED
      BY <1>7, <3>1, <3>2
  <2> HIDE DEF new, equal
  <2>3. Assigns(m)'
    <3>1. m \in [used -> DOMAIN Docs1]'
      BY <1>2, <1>6, <2>1
    <3>2. \A j \in used : m[j] <= new
      BY <1>1, <1>7, <1>9 DEF new
    <3>3. \A i \in DOMAIN Docs1 : Twin(i) /\ i <= new => \E j \in used : Exact(i, j) /\ Exact(m[j], j)
      BY <1>7, <1>8, <2>2
    <3> QED
      BY <1>1, <1>2, <1>7, <2>1, <3>1, <3>2, <3>3 DEF Assigns
  <2>4. m \in [used -> DOMAIN Docs1]'
    BY <1>2, <1>6, <2>1
  <2>5. TypeOK'
    BY <1>1, <1>2, <2>1, InputKept DEF CompareInv, TypeOK
  <2> QED
    BY <1>1, <1>2, <1>5, <2>3, <2>4, <2>5 DEF CompareInv
<1>11. CASE equal # {}
  <2> DEFINE least == LeastOf(equal)
  <2>1. least \in equal
    BY <1>4, <1>5, <1>11, LeastIsOne DEF Unused
  <2>2. used' = used \cup {least} /\ least \notin used /\ least \in DOMAIN Docs2 /\ Exact(new, least)
    BY <1>3, <1>4, <1>11, <2>1
  <2> HIDE DEF new, equal, least
  <2>3. PICK x : x = Extended(m, least, new)
    OBVIOUS
  <2>4. /\ x \in [used \cup {least} -> DOMAIN Docs1]
        /\ x[least] = new /\ \A j \in used : x[j] = m[j]
    BY <1>1, <1>6, <2>2, <2>3 DEF Extended
  <2>5. Assigns(x)'
    <3>1. x \in [used -> DOMAIN Docs1]'
      BY <1>2, <2>2, <2>4
    <3>2. \A j \in used : m[j] # new /\ m[j] <= new
      BY <1>1, <1>7, <1>9 DEF new
    <3>3. \A j, k \in used \cup {least} : x[j] = x[k] => j = k
      BY <1>7, <2>4, <3>2
    <3>4. \A j \in used \cup {least} : Exact(x[j], j) /\ x[j] <= new
      <4>1. new <= new
        BY <1>1 DEF new
      <4> QED
        BY <1>7, <2>2, <2>4, <3>2, <4>1
    <3>5. \A i \in DOMAIN Docs1 : Twin(i) /\ i <= new =>
              \E j \in used \cup {least} : Exact(i, j) /\ Exact(x[j], j)
      BY <1>7, <1>8, <2>2, <2>4, <3>4
    <3> QED
      BY <1>1, <1>2, <2>2, <3>1, <3>3, <3>4, <3>5 DEF Assigns
  <2>6. x \in [used -> DOMAIN Docs1]'
    BY <1>2, <2>2, <2>4
  <2>7. TypeOK'
    <3>1. used' \subseteq DOMAIN Docs2
      BY <1>5, <2>2
    <3> QED
      BY <1>1, <1>2, <3>1, InputKept DEF CompareInv, TypeOK
  <2> QED
    BY <1>1, <1>2, <1>5, <2>5, <2>6, <2>7 DEF CompareInv
<1> QED
  BY <1>10, <1>11

LEMMA BeginSecondKeeps ==
    ASSUME CompareInv, BeginSecond
    PROVE  CompareInv'
<1>1. /\ input' = input /\ pass = "exact" /\ pass' = "second" /\ verdict = "pending" /\ verdict' = "pending"
      /\ treated = Len(Docs1) /\ treated' = 0 /\ used' = used
  BY DEF BeginSecond, AtEnd
<1>2. /\ Docs1' = Docs1 /\ Docs2' = Docs2 /\ isBackwards' = isBackwards
      /\ \A i : Twin(i)' <=> Twin(i)
      /\ \A i, j : Exact(i, j)' <=> Exact(i, j)
  BY <1>1, InputKept
<1>3. PICK m \in [used -> DOMAIN Docs1] : Assigns(m)
  BY <1>1 DEF CompareInv
<1>4. \A i \in DOMAIN Docs1 : i <= treated
  BY <1>1, DocsAreValues DEF CompareInv
<1>5. Assigns(m)'
  <2>1. m \in [used -> DOMAIN Docs1]'
    BY <1>1, <1>2, <1>3
  <2>2. \A j \in used : Exact(m[j], j)
    BY <1>1, <1>3 DEF Assigns
  <2>3. \A i \in DOMAIN Docs1 : Twin(i) => \E j \in used : Exact(i, j) /\ Exact(m[j], j)
    BY <1>3, <1>4 DEF Assigns
  <2>4. \A j, k \in used : m[j] = m[k] => j = k
    BY <1>3 DEF Assigns
  <2>5. 1 .. 0 = {}
    OBVIOUS
  <2> QED
    BY <1>1, <1>2, <2>1, <2>2, <2>3, <2>4, <2>5 DEF Assigns
<1>6. m \in [used -> DOMAIN Docs1]'
  BY <1>1, <1>2, <1>3
<1>7. TypeOK'
  <2>1. 0 \in 0 .. Len(Docs1)
    BY PlacesAreNumbers
  <2> QED
    BY <1>1, <1>2, <2>1, InputKept DEF CompareInv, TypeOK
<1> QED
  BY <1>1, <1>2, <1>5, <1>6, <1>7 DEF CompareInv

LEMMA SkipKeeps ==
    ASSUME CompareInv, Skip
    PROVE  CompareInv'
<1> DEFINE new == treated + 1
<1>1. /\ input' = input /\ pass = "second" /\ pass' = "second" /\ verdict = "pending" /\ verdict' = "pending"
      /\ treated' = new /\ treated \in Nat /\ new \in DOMAIN Docs1 /\ new \in 0 .. Len(Docs1) /\ used' = used
  <2>1. treated \in 0 .. Len(Docs1) /\ Len(Docs1) \in Nat /\ DOMAIN Docs1 = 1 .. Len(Docs1)
    BY DocsAreValues DEF CompareInv, TypeOK
  <2> QED
    BY <2>1 DEF Skip, Treating
<1>2. /\ Docs1' = Docs1 /\ Docs2' = Docs2 /\ isBackwards' = isBackwards
      /\ \A i : Twin(i)' <=> Twin(i)
      /\ \A i, j : Exact(i, j)' <=> Exact(i, j)
  BY <1>1, InputKept
<1>3. Len(Docs1) = Len(Docs2) /\ used \subseteq DOMAIN Docs2
  BY <1>1 DEF CompareInv, TypeOK
<1>4. PICK m \in [used -> DOMAIN Docs1] : Assigns(m)
  BY <1>1 DEF CompareInv
<1>5. /\ \A j, k \in used : m[j] = m[k] => j = k
      /\ \A j \in used :
             \/ Exact(m[j], j)
             \/ /\ m[j] <= treated /\ ~Twin(m[j])
                /\ CompareStructures(Docs1[m[j]], Docs2[j], isBackwards)
      /\ \A i \in DOMAIN Docs1 : Twin(i) => \E j \in used : Exact(i, j) /\ Exact(m[j], j)
      /\ \A i \in 1 .. treated : Twin(i) \/ \E j \in used : m[j] = i
  BY <1>1, <1>4 DEF Assigns
<1>6. Twin(new) \/ \E j \in used : m[j] = new
  <2>1. CASE Matched(new)
    BY <1>3, <2>1 DEF Matched, Twin, Exact
  <2>2. CASE Unused = {}
    <3>1. used = DOMAIN Docs2
      BY <1>3, <2>2 DEF Unused
    <3>2. DOMAIN Docs1 = DOMAIN Docs2 /\ IsFiniteSet(DOMAIN Docs1)
      BY <1>3, SameLength, DocsAreValues DEF CompareInv
    <3>3. m \in Injection(DOMAIN Docs2, DOMAIN Docs1)
      BY <1>4, <1>5, <3>1 DEF Injection, IsInjective
    <3>4. m \in Surjection(DOMAIN Docs2, DOMAIN Docs1)
      BY <3>2, <3>3, FS_Injection
    <3> QED
      BY <1>1, <3>1, <3>4 DEF Surjection
  <2> QED
    BY <2>1, <2>2 DEF Skip
<1>7. ASSUME NEW i \in 1 .. new PROVE Twin(i) \/ \E j \in used : m[j] = i
  <2>1. i \in 1 .. treated \/ i = new
    BY <1>1
  <2> QED
    BY <1>5, <1>6, <2>1
<1>8. \A j \in used : m[j] <= treated => m[j] <= new
  <2>1. \A j \in used : m[j] \in Nat
    <3>1. DOMAIN Docs1 \subseteq Nat
      BY PlacesAreNumbers
    <3> QED
      BY <1>4, <3>1
  <2> QED
    BY <1>1, <2>1
<1> HIDE DEF new
<1>9. m \in [used -> DOMAIN Docs1]'
  BY <1>1, <1>2, <1>4
<1>10. \A j \in used :
           \/ Exact(m[j], j)
           \/ /\ m[j] <= new /\ ~Twin(m[j])
              /\ CompareStructures(Docs1[m[j]], Docs2[j], isBackwards)
  BY <1>5, <1>8
<1>11. Assigns(m)'
  BY <1>1, <1>2, <1>5, <1>7, <1>9, <1>10 DEF Assigns
<1>12. TypeOK'
  BY <1>1, <1>2, InputKept DEF CompareInv, TypeOK
<1> QED
  BY <1>1, <1>2, <1>3, <1>9, <1>11, <1>12 DEF CompareInv

LEMMA CompareWithNextKeeps ==
    ASSUME CompareInv, CompareWithNext
    PROVE  CompareInv'
<1> DEFINE new == treated + 1
           next == LeastOf(Unused)
<1>1. /\ input' = input /\ pass = "second" /\ pass' = "second" /\ verdict = "pending"
      /\ treated \in Nat /\ new \in DOMAIN Docs1 /\ new \in 0 .. Len(Docs1)
  <2>1. treated \in 0 .. Len(Docs1) /\ Len(Docs1) \in Nat /\ DOMAIN Docs1 = 1 .. Len(Docs1)
    BY DocsAreValues DEF CompareInv, TypeOK
  <2> QED
    BY <2>1 DEF CompareWithNext, Treating
<1>2. /\ Docs1' = Docs1 /\ Docs2' = Docs2 /\ isBackwards' = isBackwards
      /\ \A i : Twin(i)' <=> Twin(i)
      /\ \A i, j : Exact(i, j)' <=> Exact(i, j)
  BY <1>1, InputKept
<1>3. Len(Docs1) = Len(Docs2) /\ used \subseteq DOMAIN Docs2 /\ DOMAIN Docs2 \subseteq Nat
  BY <1>1, DocsAreValues DEF CompareInv, TypeOK
<1>4. PICK m \in [used -> DOMAIN Docs1] : Assigns(m)
  BY <1>1 DEF CompareInv
<1>5. /\ \A j, k \in used : m[j] = m[k] => j = k
      /\ \A j \in used :
             \/ Exact(m[j], j)
             \/ /\ m[j] <= treated /\ ~Twin(m[j])
                /\ CompareStructures(Docs1[m[j]], Docs2[j], isBackwards)
      /\ \A i \in DOMAIN Docs1 : Twin(i) => \E j \in used : Exact(i, j) /\ Exact(m[j], j)
      /\ \A i \in 1 .. treated : Twin(i) \/ \E j \in used : m[j] = i
  BY <1>1, <1>4 DEF Assigns
<1>6. \A j \in used : ~Exact(new, j)
  BY DEF CompareWithNext, Matched, Exact
<1>7. ~Twin(new)
  BY <1>1, <1>5, <1>6
<1>8. \A j \in used : m[j] \in Nat
  <2>1. DOMAIN Docs1 \subseteq Nat
    BY PlacesAreNumbers
  <2> QED
    BY <1>4, <2>1
<1>9. CASE CompareStructures(Docs1[new], Docs2[next], isBackwards)
  <2>1. next \in Unused
    BY <1>3, LeastIsOne DEF CompareWithNext, Unused
  <2>2. /\ used' = used \cup {next} /\ treated' = new /\ verdict' = "pending"
        /\ next \notin used /\ next \in DOMAIN Docs2
    BY <1>1, <1>9, <2>1 DEF CompareWithNext, Use, Unused
  <2>3. \A j \in used : m[j] # new
    BY <1>1, <1>5, <1>6, <1>8
  <2>4. /\ \A j \in used : m[j] <= treated => m[j] <= new
        /\ new <= new
        /\ \A i \in 1 .. new : i \in 1 .. treated \/ i = new
    BY <1>1, <1>8
  <2> HIDE DEF new, next
  <2>5. PICK x : x = Extended(m, next, new)
    OBVIOUS
  <2>6. /\ x \in [used \cup {next} -> DOMAIN Docs1]
        /\ x[next] = new /\ \A j \in used : x[j] = m[j]
    BY <1>1, <1>4, <2>2, <2>5 DEF Extended
  <2>7. x \in [used -> DOMAIN Docs1]'
    BY <1>2, <2>2, <2>6
  <2>8. \A j, k \in used \cup {next} : x[j] = x[k] => j = k
    BY <1>5, <2>3, <2>6
  <2>9. \A j \in used \cup {next} :
            \/ Exact(x[j], j)
            \/ /\ x[j] <= new /\ ~Twin(x[j])
               /\ CompareStructures(Docs1[x[j]], Docs2[j], isBackwards)
    BY <1>5, <1>7, <1>9, <2>4, <2>6
  <2>10. \A i \in DOMAIN Docs1 : Twin(i) => \E j \in used \cup {next} : Exact(i, j) /\ Exact(x[j], j)
    BY <1>5, <2>6
  <2>11. \A i \in 1 .. new : Twin(i) \/ \E j \in used \cup {next} : x[j] = i
    BY <1>5, <2>4, <2>6
  <2>12. Assigns(x)'
    BY <1>1, <1>2, <2>2, <2>7, <2>8, <2>9, <2>10, <2>11 DEF Assigns
  <2>13. TypeOK'
    <3>1. used' \subseteq DOMAIN Docs2
      BY <1>3, <2>2
    <3> QED
      BY <1>1, <1>2, <2>2, <3>1, InputKept DEF CompareInv, TypeOK
  <2> QED
    BY <1>1, <1>2, <1>3, <2>2, <2>7, <2>12, <2>13 DEF CompareInv
<1>10. CASE ~CompareStructures(Docs1[new], Docs2[next], isBackwards)
  <2>1. used' = used /\ treated' = treated /\ verdict' = "different"
    BY <1>10 DEF CompareWithNext
  <2>2. TypeOK'
    BY <1>1, <1>2, <2>1, InputKept DEF CompareInv, TypeOK
  <2>3. Assigns(m)' /\ m \in [used -> DOMAIN Docs1]'
    BY <1>1, <1>2, <1>4, <2>1 DEF Assigns
  <2> QED
    BY <1>1, <1>2, <1>3, <1>7, <2>1, <2>2, <2>3 DEF CompareInv
<1> QED
  BY <1>9, <1>10

LEMMA AcceptKeeps ==
    ASSUME CompareInv, Accept
    PROVE  CompareInv'
<1>1. /\ input' = input /\ pass = "second" /\ pass' = "second" /\ verdict' = "equivalent"
      /\ treated = Len(Docs1) /\ treated' = treated /\ used' = used
  BY DEF Accept, AtEnd
<1>2. /\ Docs1' = Docs1 /\ Docs2' = Docs2 /\ isBackwards' = isBackwards
      /\ \A i : Twin(i)' <=> Twin(i)
      /\ \A i, j : Exact(i, j)' <=> Exact(i, j)
  BY <1>1, InputKept
<1>3. PICK m \in [used -> DOMAIN Docs1] : Assigns(m)
  BY <1>1 DEF CompareInv
<1>4. Assigns(m)' /\ m \in [used -> DOMAIN Docs1]'
  BY <1>1, <1>2, <1>3 DEF Assigns
<1>5. TypeOK'
  BY <1>1, <1>2, InputKept DEF CompareInv, TypeOK
<1> QED
  BY <1>1, <1>2, <1>4, <1>5 DEF CompareInv

LEMMA ComparedKeeps ==
    ASSUME CompareInv, UNCHANGED compareVars
    PROVE  CompareInv'
<1>1. /\ input' = input /\ pass' = pass /\ treated' = treated /\ used' = used /\ verdict' = verdict
      /\ one' = one /\ two' = two /\ isBackwards' = isBackwards
  BY DEF compareVars, input
<1>2. Docs1' = Docs1 /\ Docs2' = Docs2
  BY <1>1, InputKept
<1>3. (\A i : Twin(i)' <=> Twin(i)) /\ (\A i, j : Exact(i, j)' <=> Exact(i, j))
  BY <1>1, InputKept
<1>4. \A m : Assigns(m)' <=> Assigns(m)
  BY <1>1, <1>2, <1>3 DEF Assigns
<1>5. TypeOK'
  BY <1>1, <1>2 DEF CompareInv, TypeOK
<1> QED
  BY <1>1, <1>2, <1>3, <1>4, <1>5 DEF CompareInv

\* The inductive invariant of the two passes: what the documents of two were used for
\* can be told apart, and nothing treated was passed over without reason.
THEOREM CompareInductive == Spec => []CompareInv
<1>1. Init => CompareInv
  BY InitKeeps
<1>2. CompareInv /\ [Next]_compareVars => CompareInv'
  <2> SUFFICES ASSUME CompareInv, [Next]_compareVars PROVE CompareInv'
    OBVIOUS
  <2>1. CASE CompareFails
    BY <2>1, CompareFailsKeeps
  <2>2. CASE Read
    BY <2>2, ReadKeeps
  <2>3. CASE MatchExactly
    BY <2>3, MatchExactlyKeeps
  <2>4. CASE BeginSecond
    BY <2>4, BeginSecondKeeps
  <2>5. CASE Skip
    BY <2>5, SkipKeeps
  <2>6. CASE CompareWithNext
    BY <2>6, CompareWithNextKeeps
  <2>7. CASE Accept
    BY <2>7, AcceptKeeps
  <2>8. CASE UNCHANGED compareVars
    BY <2>8, ComparedKeeps
  <2> QED
    BY <2>1, <2>2, <2>3, <2>4, <2>5, <2>6, <2>7, <2>8 DEF Next, Compared
<1> QED
  BY <1>1, <1>2, PTL DEF Spec

\* Permuted documents whose spec.artifacts are permuted are accepted in both modes: in
\* the first pass each document of the first file finds its own twin (compareDocumentLists,
\* sortSlice).
THEOREM PermutationsAcceptedHolds == Spec => []PermutationsAccepted
<1>1. CompareInv => PermutationsAccepted
  <2> SUFFICES ASSUME CompareInv, verdict = "different", Len(Docs1) = Len(Docs2),
                      NEW f \in Matchings(Docs1, Docs2),
                      \A i \in DOMAIN Docs1 : SamePlan(Docs1[i], Docs2[f[i]])
               PROVE  FALSE
    BY DEF PermutationsAccepted, CanBeMatched
  <2>1. PICK i \in DOMAIN Docs1 : ~Twin(i)
    BY DEF CompareInv
  <2>2. f[i] \in DOMAIN Docs2
    BY DEF Matchings
  <2>3. Docs1[i] \in Value /\ Docs2[f[i]] \in Value
    BY <2>2, DocsAreValues DEF CompareInv
  <2>4. ExactlyEqual(Docs1[i], Docs2[f[i]])
    BY <2>3, PlansAreEqual
  <2> QED
    BY <2>1, <2>2, <2>4 DEF Twin, Exact
<1> QED
  BY <1>1, CompareInductive, PTL

LEMMA EqualKeeps ==
    ASSUME NEW v \in Value, NEW w \in Value, ExactlyEqual(v, w)
    PROVE  /\ SameUpToOrder[<<Normalize[v], Normalize[w]>>]
           /\ Covers[<<Normalize[w], Normalize[v]>>]
<1>1. SameUpToOrder[<<Normalize[v], Normalize[w]>>]
  BY EqualIsSame, NormalIsSame
<1> QED
  BY <1>1, SameIsCovered, NormalizeStays

LEMMA StructuresKeep ==
    ASSUME NEW v \in Value, NEW w \in Value, NEW backwards \in BOOLEAN, CompareStructures(v, w, backwards)
    PROVE  /\ ~backwards => SameUpToOrder[<<Normalize[v], Normalize[w]>>]
           /\ Covers[<<Normalize[w], Normalize[v]>>]
<1>1. Normalize[v] \in Value /\ Normalize[w] \in Value
  BY NormalizeStays
<1>2. CASE ~backwards
  <2>1. ExactlyEqual(Normalize[v], Normalize[w])
    BY <1>2 DEF CompareStructures
  <2>2. SameUpToOrder[<<Normalize[v], Normalize[w]>>]
    BY <1>1, <2>1, EqualIsSame
  <2> QED
    BY <1>1, <2>2, SameIsCovered
<1>3. CASE backwards
  <2> DEFINE left == FilterToCommonFields[<<Normalize[w], Normalize[v]>>]
  <2>1. ExactlyEqual(Normalize[v], left) /\ left \in Value
    BY <1>1, <1>3, FilterStays DEF CompareStructures
  <2>2. Covers[<<Normalize[w], left>>]
    BY <1>1, FilterIsCovered
  <2>3. Covers[<<left, Normalize[v]>>]
    BY <1>1, <2>1, EqualIsSame, SameIsCovered
  <2> HIDE DEF left
  <2> QED
    BY <1>1, <1>3, <2>1, <2>2, <2>3, CoversAgain
<1> QED
  BY <1>2, <1>3

\* What is accepted without --backwards-compatible is a permutation: unless the first
\* file repeats a document, its documents can be matched one to one with those of the
\* second that have the same normal form, up to the order of lists (the two passes of
\* compareDocumentLists).
THEOREM AcceptedMeansMatchedHolds == Spec => []AcceptedMeansMatched
<1>1. CompareInv => AcceptedMeansMatched
  <2> SUFFICES ASSUME CompareInv, verdict = "equivalent", ~isBackwards,
                      \A i, j \in DOMAIN Docs1 : ExactlyEqual(Docs1[i], Docs1[j]) => i = j
               PROVE  CanBeMatched(SameButOrder)
    BY DEF AcceptedMeansMatched
  <2>1. pass = "second" /\ treated = Len(Docs1) /\ used \subseteq DOMAIN Docs2 /\ isBackwards \in BOOLEAN
    BY DEF CompareInv, TypeOK
  <2>2. PICK m \in [used -> DOMAIN Docs1] : Assigns(m)
    BY <2>1 DEF CompareInv
  <2>3. /\ DOMAIN Docs1 = 1 .. treated
        /\ \A i \in DOMAIN Docs1 : Docs1[i] \in Value
        /\ \A j \in DOMAIN Docs2 : Docs2[j] \in Value
    BY <2>1, DocsAreValues DEF CompareInv
  <2>4. ASSUME NEW i \in DOMAIN Docs1 PROVE \E j \in used : m[j] = i
    <3>1. CASE Twin(i)
      <4>1. PICK j \in used : Exact(i, j) /\ Exact(m[j], j)
        BY <2>1, <2>2, <3>1 DEF Assigns
      <4>2. ExactlyEqual(Docs1[i], Docs1[m[j]]) /\ m[j] \in DOMAIN Docs1
        BY <2>2, <4>1 DEF Exact, ExactlyEqual
      <4> QED
        BY <4>2
    <3>2. CASE ~Twin(i)
      BY <2>1, <2>2, <2>3, <3>2 DEF Assigns
    <3> QED
      BY <3>1, <3>2
  <2>5. ASSUME NEW j \in used
        PROVE  SameUpToOrder[<<Normalize[Docs1[m[j]]], Normalize[Docs2[j]]>>]
    <3>1. Docs1[m[j]] \in Value /\ Docs2[j] \in Value
      BY <2>1, <2>2, <2>3
    <3>2. Exact(m[j], j) \/ CompareStructures(Docs1[m[j]], Docs2[j], isBackwards)
      BY <2>2 DEF Assigns
    <3> QED
      BY <2>1, <3>1, <3>2, EqualKeeps, StructuresKeep DEF Exact
  <2> DEFINE f == [i \in DOMAIN Docs1 |-> CHOOSE j \in used : m[j] = i]
  <2>6. \A i \in DOMAIN Docs1 : f[i] \in used /\ m[f[i]] = i
    BY <2>4
  <2>7. f \in Matchings(Docs1, Docs2)
    <3>1. f \in [DOMAIN Docs1 -> DOMAIN Docs2]
      BY <2>1, <2>6
    <3>2. \A i, j \in DOMAIN Docs1 : f[i] = f[j] => i = j
      BY <2>6
    <3> HIDE DEF f
    <3> QED
      BY <3>1, <3>2 DEF Matchings
  <2> HIDE DEF f
  <2>8. \A i \in DOMAIN Docs1 : SameButOrder(Docs1[i], Docs2[f[i]])
    BY <2>5, <2>6 DEF SameButOrder
  <2>9. Len(Docs1) = Len(Docs2)
    BY DEF CompareInv
  <2> QED
    BY <2>7, <2>8, <2>9 DEF CanBeMatched
<1> QED
  BY <1>1, CompareInductive, PTL

\* What is accepted, in either mode, keeps the first file's fields: each of its documents
\* has one in the second that has everything it has (filterToCommonFields,
\* compareStructures).
THEOREM FieldsOfBeforeKeptHolds == Spec => []FieldsOfBeforeKept
<1>1. CompareInv => FieldsOfBeforeKept
  <2> SUFFICES ASSUME CompareInv, verdict = "equivalent", NEW i \in DOMAIN Docs1
               PROVE  \E j \in DOMAIN Docs2 : Covers[<<Normalize[Docs2[j]], Normalize[Docs1[i]]>>]
    BY DEF FieldsOfBeforeKept
  <2>1. pass = "second" /\ treated = Len(Docs1) /\ used \subseteq DOMAIN Docs2 /\ isBackwards \in BOOLEAN
    BY DEF CompareInv, TypeOK
  <2>2. PICK m \in [used -> DOMAIN Docs1] : Assigns(m)
    BY <2>1 DEF CompareInv
  <2>3. /\ DOMAIN Docs1 = 1 .. treated
        /\ Docs1[i] \in Value
        /\ \A j \in DOMAIN Docs2 : Docs2[j] \in Value
    BY <2>1, DocsAreValues DEF CompareInv
  <2>4. CASE Twin(i)
    <3>1. PICK j \in DOMAIN Docs2 : Exact(i, j)
      BY <2>4 DEF Twin
    <3> QED
      BY <2>3, <3>1, EqualKeeps DEF Exact
  <2>5. CASE ~Twin(i)
    <3>1. PICK j \in used : m[j] = i
      BY <2>1, <2>2, <2>3, <2>5 DEF Assigns
    <3>2. j \in DOMAIN Docs2 /\ ~Exact(i, j)
      BY <2>1, <2>5 DEF Twin
    <3>3. CompareStructures(Docs1[i], Docs2[j], isBackwards)
      BY <2>2, <3>1, <3>2 DEF Assigns
    <3> QED
      BY <2>1, <2>3, <3>2, <3>3, StructuresKeep
  <2> QED
    BY <2>4, <2>5
<1> QED
  BY <1>1, CompareInductive, PTL
=============================================================================
