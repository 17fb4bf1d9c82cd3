--------------------------- MODULE KnowledgeProofs ---------------------------
(***************************************************************************)
(* Theorems of Knowledge, for any repositories whose files are well-formed *)
(* syntax trees of any size, any replies of the model, and any limits: the *)
(* invariants its run checks on small files.                               *)
(*                                                                         *)
(* KnowledgeInv says that the rows are those of the repository and every   *)
(* answer what they give in some order of the database; each property is   *)
(* then a lemma about the operators of SourceFacts and KnowledgeGraph.     *)
(* The recursive functions of Above, Qualified and of two properties are   *)
(* shown to be defined first, each by induction over the interval it is    *)
(* defined on.                                                             *)
(***************************************************************************)
EXTENDS Knowledge, TLAPS, FiniteSetTheorems, SequenceTheorems, WellFoundedInduction

-----------------------------------------------------------------------------
(* Numbers and orders.                                                     *)

(* A set of numbers that is not empty has a least one.                     *)
LEMMA Least ==
  ASSUME NEW S, S \subseteq Nat, S # {}
  PROVE  \E n \in S : \A m \in S : n <= m
<1>1. PICK n \in S : \A m \in S : ~ (<<m, n>> \in OpToRel(<, Nat))
  BY NatLessThanWellFounded, WFMin
<1>2. \A m \in S : ~ (m < n)
  <2> SUFFICES ASSUME NEW m \in S, m < n PROVE FALSE
    OBVIOUS
  <2>1. <<m, n>> \in OpToRel(<, Nat)
    BY DEF OpToRel
  <2> QED BY <1>1, <2>1
<1> QED BY <1>2

(* What holds of a number whenever it holds of the smaller ones holds of   *)
(* all: a set of numbers with each number above whose predecessors it      *)
(* contains is the whole interval.                                         *)
LEMMA Climb ==
  ASSUME NEW n \in Nat, NEW S,
         \A k \in 0 .. n : (\A j \in 0 .. k - 1 : j \in S) => k \in S
  PROVE  \A k \in 0 .. n : k \in S
<1> SUFFICES ASSUME NEW k \in 0 .. n, k \notin S PROVE FALSE
  OBVIOUS
<1> DEFINE bad == {j \in 0 .. n : j \notin S}
<1>1. PICK j \in bad : \A m \in bad : j <= m
  <2>1. bad \subseteq Nat /\ bad # {}
    OBVIOUS
  <2> HIDE DEF bad
  <2> QED BY <2>1, Least
<1>2. \A m \in 0 .. j - 1 : m \in S
  BY <1>1
<1> QED BY <1>1, <1>2

(* Max of a bounded set of numbers, and Min of any, is one of them.        *)
LEMMA MaxInSet ==
  ASSUME NEW S, S \subseteq Nat, S # {}, NEW n \in Nat, \A m \in S : m <= n
  PROVE  Max(S) \in S /\ \A m \in S : m <= Max(S)
<1> DEFINE gaps == {n - m : m \in S}
<1>1. gaps \subseteq Nat /\ gaps # {}
  <2>1. \A m \in S : n - m \in Nat
    <3> TAKE m \in S
    <3>1. m \in Nat /\ m <= n
      OBVIOUS
    <3> QED BY <3>1
  <2> QED BY <2>1
<1>2. PICK g \in gaps : \A h \in gaps : g <= h
  <2> HIDE DEF gaps
  <2> QED BY <1>1, Least
<1>3. PICK x \in S : g = n - x
  BY <1>2
<1>4. \A y \in S : x >= y
  <2> SUFFICES ASSUME NEW y \in S PROVE x >= y
    OBVIOUS
  <2>1. g <= n - y
    BY <1>2
  <2>2. n \in Nat /\ x \in Nat /\ y \in Nat
    OBVIOUS
  <2> QED BY <2>1, <2>2, <1>3
<1>5. \E z \in S : \A y \in S : z >= y
  BY <1>4
<1>6. Max(S) \in S /\ \A y \in S : Max(S) >= y
  BY <1>5 DEF Max
<1> QED BY <1>6

(* The least of a set of numbers is one of them.                           *)
LEMMA MinInSet ==
  ASSUME NEW S, S \subseteq Nat, S # {}
  PROVE  Min(S) \in S /\ \A m \in S : Min(S) <= m
<1>1. \E n \in S : \A m \in S : n <= m
  BY Least
<1> QED BY <1>1 DEF Min

(* A strict order numbers the members of a finite set from 0 on.           *)
IsOrder(R, S) ==
  /\ \A a, b \in S : a # b => <<a, b>> \in R \/ <<b, a>> \in R
  /\ \A a \in S : <<a, a>> \notin R
  /\ \A a, b, c \in S : <<a, b>> \in R /\ <<b, c>> \in R => <<a, c>> \in R

(* How many members of S come before e.                                    *)
Place(R, S, e) == Cardinality({d \in S : <<d, e>> \in R})

(* Every place from 0 on is that of one member, and every member has one.  *)
LEMMA Ranks ==
  ASSUME NEW S, IsFiniteSet(S), NEW R, IsOrder(R, S)
  PROVE  /\ \A i \in 1 .. Cardinality(S) : \E e \in S : Place(R, S, e) = i - 1
         /\ \A e \in S : \E i \in 1 .. Cardinality(S) : Place(R, S, e) = i - 1
         /\ \A a, b \in S : Place(R, S, a) = Place(R, S, b) => a = b
<1> DEFINE below(e) == {d \in S : <<d, e>> \in R}
<1> DEFINE n == Cardinality(S)
<1>1. n \in Nat
  BY FS_CardinalityType
<1>2. \A e \in S : IsFiniteSet(below(e)) /\ Cardinality(below(e)) \in 0 .. n - 1
  <2> SUFFICES ASSUME NEW e \in S PROVE IsFiniteSet(below(e)) /\ Cardinality(below(e)) \in 0 .. n - 1
    OBVIOUS
  <2>1. below(e) \in SUBSET (S \ {e})
    BY DEF IsOrder
  <2>2. IsFiniteSet(S \ {e}) /\ Cardinality(S \ {e}) = n - 1
    BY FS_RemoveElement
  <2> HIDE DEF below, n
  <2>3. IsFiniteSet(below(e)) /\ Cardinality(below(e)) <= n - 1
    BY <2>1, <2>2, FS_Subset
  <2>4. Cardinality(below(e)) \in Nat
    BY <2>3, FS_CardinalityType
  <2> QED BY <2>3, <2>4, <1>1
<1>3. \A a, b \in S : <<a, b>> \in R => Cardinality(below(a)) < Cardinality(below(b))
  <2> SUFFICES ASSUME NEW a \in S, NEW b \in S, <<a, b>> \in R
               PROVE  Cardinality(below(a)) < Cardinality(below(b))
    OBVIOUS
  <2>1. below(a) \in SUBSET below(b) /\ a \in below(b) /\ a \notin below(a)
    BY DEF IsOrder
  <2>2. IsFiniteSet(below(b)) /\ Cardinality(below(a)) \in Int /\ Cardinality(below(b)) \in Int
    <3> HIDE DEF below, n
    <3> QED BY <1>1, <1>2
  <2> HIDE DEF below, n
  <2>3. Cardinality(below(a)) <= Cardinality(below(b)) /\ Cardinality(below(a)) # Cardinality(below(b))
    BY <2>1, <2>2, FS_Subset
  <2> QED BY <2>2, <2>3
<1>4. \A a, b \in S : Cardinality(below(a)) = Cardinality(below(b)) => a = b
  <2> SUFFICES ASSUME NEW a \in S, NEW b \in S, a # b PROVE Cardinality(below(a)) # Cardinality(below(b))
    OBVIOUS
  <2>1. Cardinality(below(a)) \in Int /\ Cardinality(below(b)) \in Int
    <3> HIDE DEF below, n
    <3> QED BY <1>1, <1>2
  <2>2. <<a, b>> \in R \/ <<b, a>> \in R
    BY DEF IsOrder
  <2> HIDE DEF below, n
  <2> QED BY <1>3, <2>1, <2>2
<1> DEFINE rank == [e \in S |-> Cardinality(below(e)) + 1]
<1>5. rank \in Injection(S, 1 .. n)
  <2> HIDE DEF below, n
  <2>1. rank \in [S -> 1 .. n]
    BY <1>1, <1>2
  <2>2. \A a, b \in S : rank[a] = rank[b] => a = b
    BY <1>2, <1>4
  <2> QED BY <2>1, <2>2 DEF Injection, IsInjective
<1>6. rank \in Surjection(S, 1 .. n)
  <2>1. IsFiniteSet(1 .. n) /\ Cardinality(1 .. n) = n
    BY <1>1, FS_Interval
  <2> HIDE DEF rank
  <2> QED BY <1>5, <2>1, FS_Injection
<1>7. \A i \in 1 .. n : \E e \in S : Cardinality(below(e)) = i - 1
  <2> SUFFICES ASSUME NEW i \in 1 .. n PROVE \E e \in S : Cardinality(below(e)) = i - 1
    OBVIOUS
  <2>1. PICK e \in S : rank[e] = i
    BY <1>6 DEF Surjection
  <2>2. Cardinality(below(e)) + 1 = i /\ Cardinality(below(e)) \in Int
    BY <2>1, <1>2
  <2> HIDE DEF below, n
  <2> QED BY <2>2
<1>8. \A e \in S : \E i \in 1 .. n : Cardinality(below(e)) = i - 1
  <2> SUFFICES ASSUME NEW e \in S PROVE \E i \in 1 .. n : Cardinality(below(e)) = i - 1
    OBVIOUS
  <2> HIDE DEF below, n
  <2>1. Cardinality(below(e)) \in 0 .. n - 1
    BY <1>2
  <2>2. PICK c : c = Cardinality(below(e))
    OBVIOUS
  <2>3. c + 1 \in 1 .. n /\ c = (c + 1) - 1
    BY <1>1, <2>1, <2>2
  <2> QED BY <2>2, <2>3
<1> HIDE DEF n
<1> QED BY <1>4, <1>7, <1>8 DEF Place, n

(* The numbers in a set, from the least on.                                *)
LEMMA SortedNumbers ==
  ASSUME NEW S, IsFiniteSet(S), S \subseteq Int
  PROVE  \A i \in 1 .. Cardinality(S) :
           (CHOOSE e \in S : Cardinality({d \in S : d < e}) = i - 1) \in S
<1> DEFINE R == {p \in S \X S : p[1] < p[2]}
<1>2. \A i \in 1 .. Cardinality(S) : \E e \in S : Place(R, S, e) = i - 1
  <2>1. /\ \A a, b \in S : <<a, b>> \in R <=> a < b
        /\ \A a \in S : a \in Int
    OBVIOUS
  <2> HIDE DEF R
  <2>2. \A a, b \in S : a # b => <<a, b>> \in R \/ <<b, a>> \in R
    BY <2>1
  <2>3. \A a \in S : <<a, a>> \notin R
    BY <2>1
  <2>4. ASSUME NEW a \in S, NEW b \in S, NEW c \in S, <<a, b>> \in R, <<b, c>> \in R
        PROVE  <<a, c>> \in R
    <3>1. a < b /\ b < c /\ a \in Int /\ b \in Int /\ c \in Int
      BY <2>1, <2>4
    <3>2. a < c
      BY <3>1
    <3> QED BY <2>1, <3>2
  <2>5. IsOrder(R, S)
    BY <2>2, <2>3, <2>4 DEF IsOrder
  <2>6. /\ \A i \in 1 .. Cardinality(S) : \E e \in S : Place(R, S, e) = i - 1
        /\ \A e \in S : \E i \in 1 .. Cardinality(S) : Place(R, S, e) = i - 1
        /\ \A a, b \in S : Place(R, S, a) = Place(R, S, b) => a = b
    BY <2>5, Ranks
  <2> QED BY <2>6
<1>3. \A e \in S : Place(R, S, e) = Cardinality({d \in S : d < e})
  <2> SUFFICES ASSUME NEW e \in S PROVE Place(R, S, e) = Cardinality({d \in S : d < e})
    OBVIOUS
  <2>1. {d \in S : <<d, e>> \in R} = {d \in S : d < e}
    OBVIOUS
  <2> QED BY <2>1 DEF Place
<1>4. \A i \in 1 .. Cardinality(S) : \E e \in S : Cardinality({d \in S : d < e}) = i - 1
  <2> HIDE DEF R
  <2> QED BY <1>2, <1>3
<1> QED BY <1>4

-----------------------------------------------------------------------------
(* Syntax trees: what stands above a node and what it is called.           *)

(* The recursive functions of Above and Qualified, named.                  *)
Chain(t) ==
  CHOOSE chain : chain = [m \in 0 .. Len(t.nodes) |->
    IF m = 0 THEN {} ELSE {m} \union chain[t.nodes[m].up]]

Path(t) ==
  CHOOSE name : name = [m \in 0 .. Len(t.nodes) |->
    IF m = 0 THEN <<>> ELSE Append(name[t.nodes[m].up], t.nodes[m].name)]

(* Both are defined: a node's own place comes before it.                   *)
LEMMA ChainDefined ==
  ASSUME NEW t, IsSource(t)
  PROVE  Chain(t) = [m \in 0 .. Len(t.nodes) |->
           IF m = 0 THEN {} ELSE {m} \union Chain(t)[t.nodes[m].up]]
<1>1. PICK N \in Nat : N = Len(t.nodes)
  BY DEF IsSource
<1>2. \A m \in 1 .. N : t.nodes[m].up \in 0 .. m - 1
  BY <1>1 DEF IsSource, Nodes
<1> DEFINE Upto(k, g) == g = [m \in 0 .. k |-> IF m = 0 THEN {} ELSE {m} \union g[t.nodes[m].up]]
<1> DEFINE some == {k \in 0 .. N : \E g : Upto(k, g)}
<1>3. \A k \in 0 .. N : (\A j \in 0 .. k - 1 : j \in some) => k \in some
  <2> SUFFICES ASSUME NEW k \in 0 .. N, \A j \in 0 .. k - 1 : j \in some
               PROVE  \E g : Upto(k, g)
    OBVIOUS
  <2>1. CASE k = 0
    <3> DEFINE g == [m \in 0 .. 0 |-> {}]
    <3>1. g = [m \in 0 .. k |-> IF m = 0 THEN {} ELSE {m} \union g[t.nodes[m].up]]
      BY <2>1
    <3> HIDE DEF g
    <3> QED BY <3>1
  <2>2. CASE k # 0
    <3>1. k - 1 \in 0 .. k - 1
      BY <2>2
    <3>2. PICK h : Upto(k - 1, h)
      BY <3>1
    <3> DEFINE g == [m \in 0 .. k |-> IF m = k THEN {k} \union h[t.nodes[k].up] ELSE h[m]]
    <3>3. \A m \in 0 .. k - 1 : g[m] = h[m]
      BY <2>2
    <3>4. \A m \in 1 .. k : t.nodes[m].up \in 0 .. k - 1
      BY <1>2
    <3>5. \A m \in 0 .. k : g[m] = IF m = 0 THEN {} ELSE {m} \union g[t.nodes[m].up]
      <4> SUFFICES ASSUME NEW m \in 0 .. k
                   PROVE  g[m] = IF m = 0 THEN {} ELSE {m} \union g[t.nodes[m].up]
        OBVIOUS
      <4>1. ASSUME m # 0 PROVE g[t.nodes[m].up] = h[t.nodes[m].up]
        <5> HIDE DEF g
        <5> QED BY <4>1, <3>3, <3>4
      <4>2. CASE m = k
        <5>1. g[m] = {m} \union h[t.nodes[m].up]
          BY <4>2
        <5> HIDE DEF g
        <5> QED BY <5>1, <4>1, <4>2, <2>2
      <4>3. CASE m # k
        <5>1. m \in 0 .. k - 1 /\ g[m] = h[m]
          BY <4>3
        <5>2. h[m] = IF m = 0 THEN {} ELSE {m} \union h[t.nodes[m].up]
          BY <5>1, <3>2
        <5> HIDE DEF g
        <5> QED BY <5>1, <5>2, <4>1
      <4> QED BY <4>2, <4>3
    <3>6. g = [m \in 0 .. k |-> g[m]]
      OBVIOUS
    <3>7. Upto(k, g)
      <4> HIDE DEF g
      <4> QED BY <3>5, <3>6
    <3> HIDE DEF g
    <3> QED BY <3>7
  <2> QED BY <2>1, <2>2
<1>4. N \in some
  <2>1. N \in 0 .. N
    OBVIOUS
  <2> HIDE DEF some
  <2> QED BY <1>3, <2>1, Climb
<1>5. \E g : g = [m \in 0 .. Len(t.nodes) |-> IF m = 0 THEN {} ELSE {m} \union g[t.nodes[m].up]]
  BY <1>1, <1>4
<1> QED BY <1>5 DEF Chain

(* The path of names is defined in the same way.                           *)
LEMMA PathDefined ==
  ASSUME NEW t, IsSource(t)
  PROVE  Path(t) = [m \in 0 .. Len(t.nodes) |->
           IF m = 0 THEN <<>> ELSE Append(Path(t)[t.nodes[m].up], t.nodes[m].name)]
<1>1. PICK N \in Nat : N = Len(t.nodes)
  BY DEF IsSource
<1>2. \A m \in 1 .. N : t.nodes[m].up \in 0 .. m - 1
  BY <1>1 DEF IsSource, Nodes
<1> DEFINE Upto(k, g) == g = [m \in 0 .. k |-> IF m = 0 THEN <<>> ELSE Append(g[t.nodes[m].up], t.nodes[m].name)]
<1> DEFINE some == {k \in 0 .. N : \E g : Upto(k, g)}
<1>3. \A k \in 0 .. N : (\A j \in 0 .. k - 1 : j \in some) => k \in some
  <2> SUFFICES ASSUME NEW k \in 0 .. N, \A j \in 0 .. k - 1 : j \in some
               PROVE  \E g : Upto(k, g)
    OBVIOUS
  <2>1. CASE k = 0
    <3> DEFINE g == [m \in 0 .. 0 |-> <<>>]
    <3>1. g = [m \in 0 .. k |-> IF m = 0 THEN <<>> ELSE Append(g[t.nodes[m].up], t.nodes[m].name)]
      BY <2>1
    <3> HIDE DEF g
    <3> QED BY <3>1
  <2>2. CASE k # 0
    <3>1. k - 1 \in 0 .. k - 1
      BY <2>2
    <3>2. PICK h : Upto(k - 1, h)
      BY <3>1
    <3> DEFINE g == [m \in 0 .. k |-> IF m = k THEN Append(h[t.nodes[k].up], t.nodes[k].name) ELSE h[m]]
    <3>3. \A m \in 0 .. k - 1 : g[m] = h[m]
      BY <2>2
    <3>4. \A m \in 1 .. k : t.nodes[m].up \in 0 .. k - 1
      BY <1>2
    <3>5. \A m \in 0 .. k : g[m] = IF m = 0 THEN <<>> ELSE Append(g[t.nodes[m].up], t.nodes[m].name)
      <4> SUFFICES ASSUME NEW m \in 0 .. k
                   PROVE  g[m] = IF m = 0 THEN <<>> ELSE Append(g[t.nodes[m].up], t.nodes[m].name)
        OBVIOUS
      <4>1. ASSUME m # 0 PROVE g[t.nodes[m].up] = h[t.nodes[m].up]
        <5> HIDE DEF g
        <5> QED BY <4>1, <3>3, <3>4
      <4>2. CASE m = k
        <5>1. g[m] = Append(h[t.nodes[m].up], t.nodes[m].name)
          BY <4>2
        <5> HIDE DEF g
        <5> QED BY <5>1, <4>1, <4>2, <2>2
      <4>3. CASE m # k
        <5>1. m \in 0 .. k - 1 /\ g[m] = h[m]
          BY <4>3
        <5>2. h[m] = IF m = 0 THEN <<>> ELSE Append(h[t.nodes[m].up], t.nodes[m].name)
          BY <5>1, <3>2
        <5> HIDE DEF g
        <5> QED BY <5>1, <5>2, <4>1
      <4> QED BY <4>2, <4>3
    <3>6. g = [m \in 0 .. k |-> g[m]]
      OBVIOUS
    <3>7. Upto(k, g)
      <4> HIDE DEF g
      <4> QED BY <3>5, <3>6
    <3> HIDE DEF g
    <3> QED BY <3>7
  <2> QED BY <2>1, <2>2
<1>4. N \in some
  <2>1. N \in 0 .. N
    OBVIOUS
  <2> HIDE DEF some
  <2> QED BY <1>3, <2>1, Climb
<1>5. \E g : g = [m \in 0 .. Len(t.nodes) |-> IF m = 0 THEN <<>> ELSE Append(g[t.nodes[m].up], t.nodes[m].name)]
  BY <1>1, <1>4
<1> QED BY <1>5 DEF Path

(* What stands above a node: its place, and what stands above that.        *)
LEMMA AboveUnfolds ==
  ASSUME NEW t, IsSource(t), NEW n \in Nodes(t)
  PROVE  /\ t.nodes[n].up = 0 => Above(t, n) = {}
         /\ t.nodes[n].up # 0 => /\ t.nodes[n].up \in Nodes(t) /\ t.nodes[n].up \in 1 .. n - 1
                                 /\ Above(t, n) = {t.nodes[n].up} \union Above(t, t.nodes[n].up)
<1>1. \A m : Above(t, m) = Chain(t)[t.nodes[m].up]
  BY DEF Above, Chain
<1>2. Len(t.nodes) \in Nat /\ Nodes(t) = 1 .. Len(t.nodes) /\ t.nodes[n].up \in 0 .. n - 1
  BY DEF IsSource
<1>3. PICK u : u = t.nodes[n].up
  OBVIOUS
<1>4. u \in 0 .. n - 1 /\ u \in 0 .. Len(t.nodes) /\ n \in 1 .. Len(t.nodes)
  BY <1>2, <1>3
<1>5. Chain(t)[u] = IF u = 0 THEN {} ELSE {u} \union Chain(t)[t.nodes[u].up]
  <2>1. \A m \in 0 .. Len(t.nodes) :
          Chain(t)[m] = IF m = 0 THEN {} ELSE {m} \union Chain(t)[t.nodes[m].up]
    <3>1. PICK c : c = Chain(t)
      OBVIOUS
    <3>2. c = [m \in 0 .. Len(t.nodes) |-> IF m = 0 THEN {} ELSE {m} \union c[t.nodes[m].up]]
      BY <3>1, ChainDefined
    <3>3. \A m \in 0 .. Len(t.nodes) : c[m] = IF m = 0 THEN {} ELSE {m} \union c[t.nodes[m].up]
      BY ONLY <3>2
    <3> QED BY <3>1, <3>3
  <2> QED BY <1>4, <2>1
<1> QED BY <1>1, <1>2, <1>3, <1>4, <1>5

(* A qualified name: that of the place, and then the name.                 *)
LEMMA QualifiedUnfolds ==
  ASSUME NEW t, IsSource(t)
  PROVE  /\ Qualified(t, 0) = <<>>
         /\ \A n \in Nodes(t) :
              Qualified(t, n) = Append(Qualified(t, t.nodes[n].up), t.nodes[n].name)
<1>1. \A m : Qualified(t, m) = Path(t)[m]
  BY DEF Qualified, Path
<1>2. Len(t.nodes) \in Nat /\ Nodes(t) = 1 .. Len(t.nodes)
  BY DEF IsSource
<1>3. 0 \in 0 .. Len(t.nodes) /\ \A n \in Nodes(t) : n \in 0 .. Len(t.nodes) /\ n # 0
  BY <1>2
<1>4. Path(t)[0] = <<>>
  BY <1>3, PathDefined
<1>5. \A n \in Nodes(t) : Path(t)[n] = Append(Path(t)[t.nodes[n].up], t.nodes[n].name)
  BY <1>3, PathDefined
<1> QED BY <1>1, <1>4, <1>5

(* What stands above a node is a chain of definitions and blocks, each     *)
(* above the later ones.                                                   *)
IsNested(t, n) ==
  /\ \A m \in Above(t, n) :
       /\ m \in Nodes(t) /\ m \in 1 .. n - 1
       /\ t.nodes[m].kind \in {"class", "def", "block"}
       /\ Above(t, m) \subseteq Above(t, n)
  /\ \A a, b \in Above(t, n) : a < b => a \in Above(t, b)

(* Every node of a syntax tree is nested so.                               *)
LEMMA Nested ==
  ASSUME NEW t, IsSource(t), NEW n \in Nodes(t)
  PROVE  IsNested(t, n)
<1>1. PICK N \in Nat : N = Len(t.nodes)
  BY DEF IsSource
<1>2. Nodes(t) = 1 .. N
  BY <1>1 DEF IsSource
<1> DEFINE good == {k \in 0 .. N : k # 0 => IsNested(t, k)}
<1>3. ASSUME NEW k \in 0 .. N, \A j \in 0 .. k - 1 : j \in good, k # 0
      PROVE  IsNested(t, k)
  <2>1. k \in Nodes(t) /\ k \in Nat
    BY <1>2, <1>3
  <2>2. CASE t.nodes[k].up = 0
    <3>1. Above(t, k) = {}
      BY <2>1, <2>2, AboveUnfolds
    <3> QED BY <3>1 DEF IsNested
  <2>3. CASE t.nodes[k].up # 0
    <3>1. PICK u : u = t.nodes[k].up
      OBVIOUS
    <3>2. u \in Nodes(t) /\ u \in 1 .. k - 1 /\ Above(t, k) = {u} \union Above(t, u)
      BY <2>1, <2>3, <3>1, AboveUnfolds
    <3>3. t.nodes[u].kind \in {"class", "def", "block"}
      BY <2>1, <2>3, <3>1 DEF IsSource
    <3>4. u \in 0 .. k - 1 /\ u # 0
      BY <3>2
    <3>5. IsNested(t, u)
      BY <3>4, <1>3
    <3>6. \A m \in Above(t, u) : m \in Nodes(t) /\ m \in 1 .. k - 1 /\ m < u
      BY <3>2, <3>5 DEF IsNested
    <3>7. ASSUME NEW m \in Above(t, k)
          PROVE  /\ m \in Nodes(t) /\ m \in 1 .. k - 1
                 /\ t.nodes[m].kind \in {"class", "def", "block"}
                 /\ Above(t, m) \subseteq Above(t, k)
      <4>1. CASE m = u
        BY <4>1, <3>2, <3>3
      <4>2. CASE m # u
        <5>1. m \in Above(t, u)
          BY <4>2, <3>2
        <5>2. m \in Nodes(t) /\ m \in 1 .. k - 1
          BY <5>1, <3>6
        <5>3. t.nodes[m].kind \in {"class", "def", "block"} /\ Above(t, m) \subseteq Above(t, u)
          BY <5>1, <3>5 DEF IsNested
        <5> QED BY <5>2, <5>3, <3>2
      <4> QED BY <4>1, <4>2
    <3>8. ASSUME NEW a \in Above(t, k), NEW b \in Above(t, k), a < b
          PROVE  a \in Above(t, b)
      <4>1. CASE b = u
        <5>1. a # u
          BY <4>1, <3>8, <3>2
        <5> QED BY <5>1, <4>1, <3>2
      <4>2. CASE b # u
        <5>1. b \in Above(t, u) /\ b < u
          BY <4>2, <3>2, <3>6
        <5>2. a # u
          BY <5>1, <3>8, <3>2, <3>6
        <5>3. a \in Above(t, u)
          BY <5>2, <3>2
        <5> QED BY <5>1, <5>3, <3>5, <3>8 DEF IsNested
      <4> QED BY <4>1, <4>2
    <3> QED BY <3>7, <3>8 DEF IsNested
  <2> QED BY <2>2, <2>3
<1>4. \A k \in 0 .. N : (\A j \in 0 .. k - 1 : j \in good) => k \in good
  BY <1>3
<1>5. n \in 0 .. N /\ n # 0
  BY <1>2
<1>6. n \in good
  <2> HIDE DEF good
  <2> QED BY <1>4, <1>5, Climb
<1> QED BY <1>5, <1>6

(* The names written in a file.                                            *)
NamesIn(t) == {t.nodes[m].name : m \in Nodes(t)}

(* A qualified name is that of the place, and then the name.               *)
LEMMA QualifiedIs ==
  ASSUME NEW t, IsSource(t), NEW n \in Nodes(t)
  PROVE  /\ Qualified(t, n) \in Seq(NamesIn(t)) /\ Qualified(t, n) # <<>>
         /\ Last(Qualified(t, n)) = t.nodes[n].name
         /\ Front(Qualified(t, n)) = Qualified(t, t.nodes[n].up)
         /\ Len(Qualified(t, n)) = Len(Qualified(t, t.nodes[n].up)) + 1
         /\ Qualified(t, t.nodes[n].up) \in Seq(NamesIn(t))
<1>1. PICK N \in Nat : N = Len(t.nodes)
  BY DEF IsSource
<1>2. Nodes(t) = 1 .. N
  BY <1>1 DEF IsSource
<1> DEFINE good == {k \in 0 .. N : Qualified(t, k) \in Seq(NamesIn(t))}
<1>3. ASSUME NEW k \in 0 .. N, \A j \in 0 .. k - 1 : j \in good
      PROVE  Qualified(t, k) \in Seq(NamesIn(t))
  <2>1. CASE k = 0
    <3>1. Qualified(t, 0) = <<>>
      BY QualifiedUnfolds
    <3>2. <<>> \in Seq(NamesIn(t))
      OBVIOUS
    <3> QED BY <2>1, <3>1, <3>2
  <2>2. CASE k # 0
    <3>1. k \in Nodes(t)
      BY <1>2, <2>2
    <3>2. t.nodes[k].up \in 0 .. k - 1
      BY <3>1 DEF IsSource
    <3>3. Qualified(t, t.nodes[k].up) \in Seq(NamesIn(t))
      BY <3>2, <1>3
    <3>4. Qualified(t, k) = Append(Qualified(t, t.nodes[k].up), t.nodes[k].name)
      BY <3>1, QualifiedUnfolds
    <3>5. t.nodes[k].name \in NamesIn(t)
      BY <3>1 DEF NamesIn
    <3> QED BY <3>3, <3>4, <3>5
  <2> QED BY <2>1, <2>2
<1>4. \A k \in 0 .. N : (\A j \in 0 .. k - 1 : j \in good) => k \in good
  BY <1>3
<1>5. \A k \in 0 .. N : k \in good
  <2> HIDE DEF good
  <2> QED BY <1>4, Climb
<1>6. n \in 0 .. N /\ t.nodes[n].up \in 0 .. N /\ t.nodes[n].name \in NamesIn(t)
  <2>1. n \in 1 .. N /\ t.nodes[n].up \in 0 .. n - 1
    BY <1>2 DEF IsSource
  <2>2. t.nodes[n].name \in NamesIn(t)
    BY DEF NamesIn
  <2> QED BY <2>1, <2>2
<1>7. PICK s \in Seq(NamesIn(t)) : s = Qualified(t, t.nodes[n].up)
  BY <1>5, <1>6
<1>8. PICK x \in NamesIn(t) : x = t.nodes[n].name
  BY <1>6
<1>9. Qualified(t, n) = Append(s, x)
  BY <1>7, <1>8, QualifiedUnfolds
<1>10. /\ Append(s, x) \in Seq(NamesIn(t)) /\ Append(s, x) # <<>>
       /\ Len(Append(s, x)) = Len(s) + 1 /\ Append(s, x)[Len(s) + 1] = x
  BY AppendProperties
<1>11. SubSeq(Append(s, x), 1, Len(s)) = s
  OBVIOUS
<1>12. Last(Append(s, x)) = x
  BY <1>10 DEF Last
<1>13. Len(s) + 1 - 1 = Len(s)
  OBVIOUS
<1>14. Front(Append(s, x)) = s
  BY <1>10, <1>11, <1>13 DEF Front
<1> QED BY <1>7, <1>8, <1>9, <1>10, <1>12, <1>14

(* A definition an entity stands in is an entity.                          *)
LEMMA EntitiesAreNodes ==
  ASSUME NEW t, IsSource(t), NEW n \in Entities(t)
  PROVE  /\ n \in Nodes(t) /\ n \in Nat \ {0}
         /\ t.nodes[n].kind \in {"class", "def"}
         /\ t.language = "java" => \A m \in Above(t, n) : t.nodes[m].kind = "class"
         /\ Above(t, n) \subseteq Entities(t)
         /\ t.nodes[n].up # 0 => t.nodes[n].up \in Entities(t) /\ t.nodes[n].up < n
<1>1. n \in Nodes(t) /\ t.nodes[n].kind \in {"class", "def"}
  BY DEF Entities, Defs, OfKind
<1>2. n \in Nat \ {0}
  <2>1. Len(t.nodes) \in Nat /\ Nodes(t) = 1 .. Len(t.nodes)
    BY DEF IsSource
  <2> QED BY <1>1, <2>1
<1>3. t.language = "java" => \A m \in Above(t, n) : t.nodes[m].kind = "class"
  BY DEF Entities, OfKind
<1>4. IsNested(t, n)
  BY <1>1, Nested
<1>5. ASSUME NEW m \in Above(t, n) PROVE m \in Entities(t)
  <2>1. m \in Nodes(t) /\ Above(t, m) \subseteq Above(t, n)
    BY <1>4 DEF IsNested
  <2> QED BY <2>1 DEF Entities, Defs, OfKind
<1>6. ASSUME t.nodes[n].up # 0
      PROVE  t.nodes[n].up \in Entities(t) /\ t.nodes[n].up < n
  <2>1. t.nodes[n].up \in Above(t, n) /\ t.nodes[n].up \in 1 .. n - 1
    BY <1>1, <1>6, AboveUnfolds
  <2> QED BY <2>1, <1>2, <1>5
<1> QED BY <1>1, <1>2, <1>3, <1>5, <1>6

(* Of definitions that are not none one comes first and one last.          *)
LEMMA FirstAndLast ==
  ASSUME NEW t, IsSource(t), NEW ns, ns \subseteq Entities(t), ns # {}
  PROVE  FirstOf(t, ns) \in ns /\ LastOf(t, ns) \in ns
<1>1. PICK N \in Nat : N = Len(t.nodes)
  BY DEF IsSource
<1>2. \A n \in ns : n \in Nat /\ n <= N /\ t.nodes[n].kind \in {"class", "def"}
  <2> SUFFICES ASSUME NEW n \in ns PROVE n \in Nat /\ n <= N /\ t.nodes[n].kind \in {"class", "def"}
    OBVIOUS
  <2>1. n \in Nodes(t) /\ t.nodes[n].kind \in {"class", "def"}
    BY EntitiesAreNodes
  <2>2. Nodes(t) = 1 .. N
    BY <1>1 DEF IsSource
  <2> QED BY <2>1, <2>2
<1> DEFINE of(kind) == {n \in ns : t.nodes[n].kind = kind}
<1>3. ASSUME NEW S, S \subseteq ns, S # {}
      PROVE  /\ \E x \in S : \A m \in S : m <= x
             /\ \E x \in S : \A m \in S : x <= m
  <2>1. S \subseteq Nat /\ \A m \in S : m <= N
    BY <1>2, <1>3
  <2>2. Max(S) \in S /\ \A m \in S : m <= Max(S)
    BY <2>1, <1>3, MaxInSet
  <2>3. Min(S) \in S /\ \A m \in S : Min(S) <= m
    BY <2>1, <1>3, MinInSet
  <2> QED BY <2>2, <2>3
<1>4. ASSUME NEW S, S \subseteq ns, S # {},
             \A x \in S, m \in ns \ S : Before(t, m, x),
             \A x, m \in S : m < x => Before(t, m, x)
      PROVE  LastOf(t, ns) \in ns
  <2>1. PICK x \in S : \A m \in S : m <= x
    BY <1>3, <1>4
  <2>2. \A m \in ns : m = x \/ Before(t, m, x)
    <3> SUFFICES ASSUME NEW m \in ns, m # x PROVE Before(t, m, x)
      OBVIOUS
    <3>1. CASE m \notin S
      BY <3>1, <1>4
    <3>2. CASE m \in S
      <4>1. m < x
        BY <3>2, <2>1, <1>2, <1>4
      <4> QED BY <4>1, <3>2, <1>4
    <3> QED BY <3>1, <3>2
  <2>3. x \in ns
    BY <1>4
  <2> QED BY <2>2, <2>3 DEF LastOf
<1>5. ASSUME NEW S, S \subseteq ns, S # {},
             \A x \in S, m \in ns \ S : Before(t, x, m),
             \A x, m \in S : x < m => Before(t, x, m)
      PROVE  FirstOf(t, ns) \in ns
  <2>1. PICK x \in S : \A m \in S : x <= m
    BY <1>3, <1>5
  <2>2. \A m \in ns : m = x \/ Before(t, x, m)
    <3> SUFFICES ASSUME NEW m \in ns, m # x PROVE Before(t, x, m)
      OBVIOUS
    <3>1. CASE m \notin S
      BY <3>1, <1>5
    <3>2. CASE m \in S
      <4>1. x < m
        BY <3>2, <2>1, <1>2, <1>5
      <4> QED BY <4>1, <3>2, <1>5
    <3> QED BY <3>1, <3>2
  <2>3. x \in ns
    BY <1>5
  <2> QED BY <2>2, <2>3 DEF FirstOf
<1>6. \A x, m \in ns : t.nodes[x].kind = t.nodes[m].kind => (Before(t, x, m) <=> x < m)
  BY DEF Before
<1>7. \A x, m \in ns : t.language # "java" => (Before(t, x, m) <=> x < m)
  BY DEF Before
<1>8. ASSUME t.language = "java" PROVE \A x \in of("class"), m \in of("def") : Before(t, x, m)
  BY <1>8 DEF Before
<1>9. of("class") \union of("def") = ns
  BY <1>2
<1>10. LastOf(t, ns) \in ns
  <2>1. CASE t.language = "java" /\ of("def") # {}
    <3>1. \A x \in of("def"), m \in ns \ of("def") : Before(t, m, x)
      BY <1>8, <1>9, <2>1
    <3>2. \A x, m \in of("def") : m < x => Before(t, m, x)
      BY <1>6
    <3>3. of("def") \subseteq ns
      OBVIOUS
    <3> HIDE DEF of
    <3> QED BY <3>1, <3>2, <3>3, <2>1, <1>4
  <2>2. CASE t.language # "java" \/ of("def") = {}
    <3>1. \A x, m \in ns : m < x => Before(t, m, x)
      BY <1>6, <1>7, <1>9, <2>2
    <3>2. \A x \in ns, m \in ns \ ns : Before(t, m, x)
      OBVIOUS
    <3> HIDE DEF of
    <3> QED BY <3>1, <3>2, <1>4
  <2> QED BY <2>1, <2>2
<1>11. FirstOf(t, ns) \in ns
  <2>1. CASE t.language = "java" /\ of("class") # {}
    <3>1. \A x \in of("class"), m \in ns \ of("class") : Before(t, x, m)
      BY <1>8, <1>9, <2>1
    <3>2. \A x, m \in of("class") : x < m => Before(t, x, m)
      BY <1>6
    <3>3. of("class") \subseteq ns
      OBVIOUS
    <3> HIDE DEF of
    <3> QED BY <3>1, <3>2, <3>3, <2>1, <1>5
  <2>2. CASE t.language # "java" \/ of("class") = {}
    <3>1. \A x, m \in ns : x < m => Before(t, x, m)
      BY <1>6, <1>7, <1>9, <2>2
    <3>2. \A x \in ns, m \in ns \ ns : Before(t, x, m)
      OBVIOUS
    <3> HIDE DEF of
    <3> QED BY <3>1, <3>2, <1>5
  <2> QED BY <2>1, <2>2
<1> QED BY <1>10, <1>11

(* entity_ids gives an entity with that qualified name, if there is one.   *)
LEMMA EntityIdFinds ==
  ASSUME NEW t, IsSource(t), NEW q
  PROVE  /\ EntityId(t, q) # 0 => /\ EntityId(t, q) \in Entities(t)
                                  /\ Qualified(t, EntityId(t, q)) = q
         /\ \A n \in Entities(t) : Qualified(t, n) = q => EntityId(t, q) # 0
<1> DEFINE ns == {n \in Entities(t) : Qualified(t, n) = q}
<1>1. EntityId(t, q) = IF ns = {} THEN 0 ELSE LastOf(t, ns)
  BY DEF EntityId
<1>2. ns # {} => LastOf(t, ns) \in ns
  <2>1. ns \subseteq Entities(t)
    OBVIOUS
  <2> HIDE DEF ns
  <2> QED BY <2>1, FirstAndLast
<1>3. 0 \notin ns
  BY EntitiesAreNodes
<1> QED BY <1>1, <1>2, <1>3

(* For the name of an entity it always finds one.                          *)
LEMMA EntityIdOfEntity ==
  ASSUME NEW t, IsSource(t), NEW n \in Entities(t)
  PROVE  /\ EntityId(t, Qualified(t, n)) \in Entities(t)
         /\ Qualified(t, EntityId(t, Qualified(t, n))) = Qualified(t, n)
         /\ EntityId(t, Qualified(t, n)) # 0
BY EntityIdFinds

(* name_to_id gives an entity of that name, if there is one.               *)
LEMMA NameToIdFinds ==
  ASSUME NEW t, IsSource(t), NEW x
  PROVE  /\ NameToId(t, x) # 0 => /\ NameToId(t, x) \in Entities(t)
                                  /\ t.nodes[NameToId(t, x)].name = x
         /\ x \in LocalNames(t) => NameToId(t, x) # 0
<1> DEFINE ns == {n \in Entities(t) : t.nodes[n].name = x}
<1>1. NameToId(t, x) = IF ns = {} THEN 0 ELSE EntityId(t, Qualified(t, FirstOf(t, ns)))
  BY DEF NameToId
<1>2. x \in LocalNames(t) => ns # {}
  BY DEF LocalNames
<1>3. ASSUME ns # {}
      PROVE  /\ NameToId(t, x) # 0 /\ NameToId(t, x) \in Entities(t)
             /\ t.nodes[NameToId(t, x)].name = x
  <2>1. FirstOf(t, ns) \in ns
    <3>1. ns \subseteq Entities(t)
      OBVIOUS
    <3> HIDE DEF ns
    <3> QED BY <3>1, <1>3, FirstAndLast
  <2>2. PICK n \in Entities(t) : n = FirstOf(t, ns) /\ t.nodes[n].name = x
    BY <2>1
  <2> DEFINE m == EntityId(t, Qualified(t, n))
  <2>3. m = NameToId(t, x)
    BY <1>1, <1>3, <2>2
  <2>4. m \in Entities(t) /\ Qualified(t, m) = Qualified(t, n) /\ m # 0
    BY EntityIdOfEntity
  <2> HIDE DEF m
  <2>5. m \in Nodes(t) /\ n \in Nodes(t)
    BY <2>4, EntitiesAreNodes
  <2>6. t.nodes[m].name = t.nodes[n].name
    <3>1. Last(Qualified(t, m)) = t.nodes[m].name /\ Last(Qualified(t, n)) = t.nodes[n].name
      BY <2>5, QualifiedIs
    <3> QED BY <3>1, <2>4
  <2> QED BY <2>2, <2>3, <2>4, <2>6
<1> QED BY <1>1, <1>2, <1>3

-----------------------------------------------------------------------------
(* The rows stored of a repository (analysis.py).                          *)

(* What RepositoriesAssumption says of a member of Repositories.           *)
IsRepository(r) ==
  /\ Len(r) \in Nat /\ DOMAIN r = 1 .. Len(r)
  /\ \A f \in DOMAIN r : IsSource(r[f]) /\ r[f].stem # None

(* The row of call c of file f, made by definition n (0 is the file).      *)
CallRow(t, f, n, c) ==
  [site |-> <<f, c>>, line |-> t.nodes[c].line, on |-> t.nodes[c].on,
   name |-> t.nodes[c].name, dynamic |-> t.nodes[c].dynamic,
   caller |-> IF n = 0 THEN None ELSE Row(f, EntityId(t, Qualified(t, n))),
   callee |-> IF Resolved(t, c) THEN Row(f, NameToId(t, t.nodes[c].name)) ELSE None]

(* The rows of the definitions: one for each entity of each file.          *)
LEMMA EntityRows ==
  ASSUME NEW r, IsRepository(r), NEW s, s = StoreParseResults(r)
  PROVE  /\ \A e \in DOMAIN s.entities :
              /\ e = <<e[1], e[2]>> /\ e[1] \in DOMAIN r /\ e[2] \in Entities(r[e[1]])
              /\ IsSource(r[e[1]])
              /\ e[2] \in Nodes(r[e[1]]) /\ e \in Nat \X Nat /\ e # None
              /\ s.entities[e].name = r[e[1]].nodes[e[2]].name
              /\ s.entities[e].qualified = Qualified(r[e[1]], e[2])
              /\ s.entities[e].name = Last(s.entities[e].qualified)
              /\ s.entities[e].parent =
                   IF EntityId(r[e[1]], Qualified(r[e[1]], e[2])) = e[2]
                   THEN Row(e[1], EntityId(r[e[1]], Front(Qualified(r[e[1]], e[2]))))
                   ELSE None
         /\ \A f \in DOMAIN r : \A n \in Entities(r[f]) : <<f, n>> \in DOMAIN s.entities
<1> DEFINE ids == UNION {{<<f, n>> : n \in Entities(r[f])} : f \in DOMAIN r}
<1>1. s.entities = [e \in ids |-> EntityRow(r[e[1]], e[1], e[2])]
  BY DEF StoreParseResults
<1>2. DOMAIN s.entities = ids /\ \A e \in ids : s.entities[e] = EntityRow(r[e[1]], e[1], e[2])
  <2> HIDE DEF ids
  <2> QED BY <1>1
<1>3. \A f \in DOMAIN r : \A n \in Entities(r[f]) : <<f, n>> \in ids
  OBVIOUS
<1>4. ASSUME NEW e \in ids
      PROVE  e = <<e[1], e[2]>> /\ e[1] \in DOMAIN r /\ e[2] \in Entities(r[e[1]])
  OBVIOUS
<1> HIDE DEF ids
<1>5. ASSUME NEW e \in ids
      PROVE  /\ e[2] \in Nodes(r[e[1]]) /\ e \in Nat \X Nat /\ e # None
             /\ IsSource(r[e[1]])
             /\ s.entities[e].name = r[e[1]].nodes[e[2]].name
             /\ s.entities[e].qualified = Qualified(r[e[1]], e[2])
             /\ s.entities[e].name = Last(s.entities[e].qualified)
             /\ s.entities[e].parent =
                  IF EntityId(r[e[1]], Qualified(r[e[1]], e[2])) = e[2]
                  THEN Row(e[1], EntityId(r[e[1]], Front(Qualified(r[e[1]], e[2]))))
                  ELSE None
  <2>0. PICK f \in DOMAIN r : f = e[1]
    BY <1>4
  <2>1. PICK n \in Entities(r[f]) : e = <<f, n>>
    BY <1>4, <2>0
  <2>2. e[1] = f /\ e[2] = n
    BY <2>1
  <2>3. IsSource(r[f]) /\ f \in Nat
    BY DEF IsRepository
  <2>4. n \in Nodes(r[f]) /\ n \in Nat
    BY <2>3, EntitiesAreNodes
  <2>5. e \in Nat \X Nat /\ e # None
    BY <2>1, <2>3, <2>4, NoneAssumption
  <2>6. s.entities[e] = EntityRow(r[f], f, n)
    BY <1>2, <2>2
  <2>7. /\ s.entities[e].name = r[f].nodes[n].name
        /\ s.entities[e].qualified = Qualified(r[f], n)
        /\ s.entities[e].parent =
             IF EntityId(r[f], Qualified(r[f], n)) = n
             THEN Row(f, EntityId(r[f], Front(Qualified(r[f], n)))) ELSE None
    BY <2>6 DEF EntityRow
  <2>8. Last(Qualified(r[f], n)) = r[f].nodes[n].name
    BY <2>3, <2>4, QualifiedIs
  <2> QED BY <2>2, <2>3, <2>4, <2>5, <2>7, <2>8
<1> QED BY <1>2, <1>3, <1>4, <1>5

(* The rows of the calls: one for each call a definition, or the file,     *)
(* makes itself.                                                           *)
LEMMA CallRowsAre ==
  ASSUME NEW r, IsRepository(r), NEW s, s = StoreParseResults(r)
  PROVE  /\ \A c \in s.calls : \E f \in DOMAIN r : \E n \in Entities(r[f]) \union {0} :
              \E k \in OwnCalls(r[f], n) : c = CallRow(r[f], f, n, k)
         /\ \A f \in DOMAIN r : \A n \in Entities(r[f]) \union {0} :
              \A k \in OwnCalls(r[f], n) : CallRow(r[f], f, n, k) \in s.calls
<1>1. s.calls = UNION {CallRows(r[f], f) : f \in DOMAIN r}
  BY DEF StoreParseResults
<1>2. ASSUME NEW f \in DOMAIN r
      PROVE  CallRows(r[f], f) = UNION {{CallRow(r[f], f, n, k) : k \in OwnCalls(r[f], n)} :
                                          n \in Entities(r[f]) \union {0}}
  BY DEF CallRows, CallRow
<1> QED BY <1>1, <1>2

(* A row found by a name is an entity of that name.                        *)
LEMMA RowsFound ==
  ASSUME NEW r, IsRepository(r), NEW s, s = StoreParseResults(r), NEW f \in DOMAIN r
  PROVE  /\ \A x : Row(f, NameToId(r[f], x)) # None =>
              /\ Row(f, NameToId(r[f], x)) \in DOMAIN s.entities
              /\ s.entities[Row(f, NameToId(r[f], x))].name = x
         /\ \A x \in LocalNames(r[f]) : Row(f, NameToId(r[f], x)) # None
         /\ \A q : Row(f, EntityId(r[f], q)) # None =>
              /\ Row(f, EntityId(r[f], q)) \in DOMAIN s.entities
              /\ Row(f, EntityId(r[f], q))[1] = f
              /\ s.entities[Row(f, EntityId(r[f], q))].qualified = q
         /\ \A n \in Entities(r[f]) : Row(f, EntityId(r[f], Qualified(r[f], n))) # None
<1>1. IsSource(r[f])
  BY DEF IsRepository
<1>2. ASSUME NEW n \in Entities(r[f])
      PROVE  /\ Row(f, n) = <<f, n>> /\ <<f, n>> \in DOMAIN s.entities /\ <<f, n>> # None
             /\ s.entities[<<f, n>>].name = r[f].nodes[n].name
             /\ s.entities[<<f, n>>].qualified = Qualified(r[f], n)
  <2>1. n # 0
    BY <1>1, EntitiesAreNodes
  <2>2. <<f, n>> \in DOMAIN s.entities
    BY EntityRows
  <2>3. PICK e \in DOMAIN s.entities : e = <<f, n>>
    BY <2>2
  <2>4. e[1] = f /\ e[2] = n
    BY <2>3
  <2>5. e # None /\ s.entities[e].name = r[e[1]].nodes[e[2]].name
        /\ s.entities[e].qualified = Qualified(r[e[1]], e[2])
    BY EntityRows
  <2> QED BY <2>1, <2>3, <2>4, <2>5 DEF Row
<1>3. Row(f, 0) = None
  BY DEF Row
<1>4. ASSUME NEW x, Row(f, NameToId(r[f], x)) # None
      PROVE  /\ Row(f, NameToId(r[f], x)) \in DOMAIN s.entities
             /\ s.entities[Row(f, NameToId(r[f], x))].name = x
  <2>1. PICK n : n = NameToId(r[f], x)
    OBVIOUS
  <2>2. n # 0
    BY <2>1, <1>3, <1>4
  <2>3. n \in Entities(r[f]) /\ r[f].nodes[n].name = x
    BY <2>1, <2>2, <1>1, NameToIdFinds
  <2>4. Row(f, n) \in DOMAIN s.entities /\ s.entities[Row(f, n)].name = x
    BY <2>3, <1>2
  <2> QED BY <2>1, <2>4
<1>5. ASSUME NEW x \in LocalNames(r[f]) PROVE Row(f, NameToId(r[f], x)) # None
  <2>1. PICK n : n = NameToId(r[f], x)
    OBVIOUS
  <2>2. n \in Entities(r[f])
    BY <2>1, <1>1, NameToIdFinds
  <2> QED BY <2>1, <2>2, <1>2
<1>6. ASSUME NEW q, Row(f, EntityId(r[f], q)) # None
      PROVE  /\ Row(f, EntityId(r[f], q)) \in DOMAIN s.entities
             /\ Row(f, EntityId(r[f], q))[1] = f
             /\ s.entities[Row(f, EntityId(r[f], q))].qualified = q
  <2>1. PICK n : n = EntityId(r[f], q)
    OBVIOUS
  <2>2. n # 0
    BY <2>1, <1>3, <1>6
  <2>3. n \in Entities(r[f]) /\ Qualified(r[f], n) = q
    BY <2>1, <2>2, <1>1, EntityIdFinds
  <2>4. Row(f, n) = <<f, n>>
    BY <2>3, <1>2
  <2>5. Row(f, n) \in DOMAIN s.entities /\ s.entities[Row(f, n)].qualified = q
    BY <2>3, <2>4, <1>2
  <2>6. Row(f, n)[1] = f
    BY <2>4
  <2> QED BY <2>1, <2>5, <2>6
<1>7. ASSUME NEW n \in Entities(r[f]) PROVE Row(f, EntityId(r[f], Qualified(r[f], n))) # None
  <2>1. PICK m : m = EntityId(r[f], Qualified(r[f], n))
    OBVIOUS
  <2>2. m \in Entities(r[f])
    BY <2>1, <1>1, EntityIdOfEntity
  <2> QED BY <2>1, <2>2, <1>2
<1> QED BY <1>4, <1>5, <1>6, <1>7

(* What a call's row refers to: its caller, an entity of its own file, and *)
(* an entity of its name.                                                  *)
LEMMA CallsRefer ==
  ASSUME NEW r, IsRepository(r), NEW s, s = StoreParseResults(r), NEW c \in s.calls
  PROVE  /\ c.site[1] \in DOMAIN r /\ c.site = <<c.site[1], c.site[2]>>
         /\ c.line = r[c.site[1]].nodes[c.site[2]].line
         /\ c.caller # None => c.caller \in DOMAIN s.entities /\ c.caller[1] = c.site[1]
         /\ c.callee # None =>
              /\ c.callee \in DOMAIN s.entities
              /\ s.entities[c.callee].name = c.name
              /\ ~c.dynamic /\ c.name \in LocalNames(r[c.site[1]])
<1>1. PICK f \in DOMAIN r : \E n \in Entities(r[f]) \union {0} :
              \E k \in OwnCalls(r[f], n) : c = CallRow(r[f], f, n, k)
  BY CallRowsAre
<1>2. PICK n \in Entities(r[f]) \union {0} : \E k \in OwnCalls(r[f], n) : c = CallRow(r[f], f, n, k)
  BY <1>1
<1>3. PICK k \in OwnCalls(r[f], n) : c = CallRow(r[f], f, n, k)
  BY <1>2
<1>4. /\ c.site = <<f, k>> /\ c.name = r[f].nodes[k].name /\ c.dynamic = r[f].nodes[k].dynamic
      /\ c.line = r[f].nodes[k].line
      /\ c.caller = IF n = 0 THEN None ELSE Row(f, EntityId(r[f], Qualified(r[f], n)))
      /\ c.callee = IF Resolved(r[f], k) THEN Row(f, NameToId(r[f], r[f].nodes[k].name)) ELSE None
  BY <1>3 DEF CallRow
<1>5. c.site[1] = f /\ c.site[2] = k
  BY <1>4
<1>6. ASSUME c.caller # None PROVE c.caller \in DOMAIN s.entities /\ c.caller[1] = f
  BY <1>4, <1>6, RowsFound
<1>7. ASSUME c.callee # None
      PROVE  /\ c.callee \in DOMAIN s.entities /\ s.entities[c.callee].name = c.name
             /\ ~c.dynamic /\ c.name \in LocalNames(r[f])
  <2>1. Resolved(r[f], k)
    BY <1>4, <1>7
  <2>2. c.callee = Row(f, NameToId(r[f], c.name))
    BY <1>4, <2>1
  <2>3. ~c.dynamic /\ c.name \in LocalNames(r[f])
    BY <1>4, <2>1 DEF Resolved
  <2>4. c.callee \in DOMAIN s.entities /\ s.entities[c.callee].name = c.name
    BY <2>2, <1>7, RowsFound
  <2> QED BY <2>3, <2>4
<1> QED BY <1>4, <1>5, <1>6, <1>7

(* The innermost entity a call is written in, 0 outside any.               *)
Owner(t, c) == Max((Above(t, c) \intersect Entities(t)) \union {0})

(* The entity a call is filed under is the innermost one above it.         *)
LEMMA OwnerMakesCall ==
  ASSUME NEW t, IsSource(t), NEW k \in Nodes(t)
  PROVE  /\ Owner(t, k) \in Entities(t) \union {0}
         /\ Owner(t, k) # 0 => Owner(t, k) \in Above(t, k)
         /\ \A n \in Entities(t) \union {0} : k \in OwnCalls(t, n) => n = Owner(t, k)
<1>1. IsNested(t, k)
  BY Nested
<1>2. PICK N \in Nat : N = Len(t.nodes)
  BY DEF IsSource
<1>3. Nodes(t) = 1 .. N
  BY <1>2 DEF IsSource
<1> DEFINE mine == (Above(t, k) \intersect Entities(t)) \union {0}
<1> DEFINE any == (Above(t, k) \intersect Defs(t)) \union {0}
<1>4. \A S \in SUBSET (Above(t, k) \union {0}) : S # {} => Max(S) \in S /\ \A m \in S : m <= Max(S)
  <2> SUFFICES ASSUME NEW S \in SUBSET (Above(t, k) \union {0}), S # {}
               PROVE  Max(S) \in S /\ \A m \in S : m <= Max(S)
    OBVIOUS
  <2>1. \A m \in S : m \in Nat /\ m <= N
    BY <1>1, <1>3 DEF IsNested
  <2>2. S \subseteq Nat
    BY <2>1
  <2> QED BY <2>1, <2>2, MaxInSet
<1>5. Owner(t, k) = Max(mine) /\ Enclosing(t, k) = Max(any)
  BY DEF Owner, Enclosing
<1>6. mine \subseteq any
  <2>1. \A n \in Entities(t) : n \in Defs(t)
    BY DEF Entities
  <2> QED BY <2>1
<1>7. mine \in SUBSET (Above(t, k) \union {0}) /\ any \in SUBSET (Above(t, k) \union {0})
      /\ 0 \in mine /\ 0 \in any
  OBVIOUS
<1>8. \A m \in any : m \in Nat
  BY <1>1, <1>3 DEF IsNested
<1>9. /\ Max(mine) \in mine /\ \A m \in mine : m <= Max(mine)
      /\ Max(any) \in any /\ \A m \in any : m <= Max(any)
  <2> HIDE DEF mine, any
  <2> QED BY <1>4, <1>7
<1>10. Owner(t, k) \in mine
  BY <1>5, <1>9
<1>11. ASSUME NEW n \in Entities(t) \union {0}, k \in OwnCalls(t, n)
       PROVE  n = Owner(t, k)
  <2>1. CASE t.language = "python"
    <3>1. Enclosing(t, k) = n
      BY <2>1, <1>11 DEF OwnCalls
    <3>2. n \in any
      BY <3>1, <1>5, <1>9
    <3>3. n \in mine
      BY <3>2, <1>11
    <3>4. n <= Max(mine) /\ Max(mine) <= n
      <4> HIDE DEF mine, any
      <4> QED BY <3>1, <3>3, <1>5, <1>6, <1>9
    <3>5. n \in Nat /\ Max(mine) \in Nat
      <4> HIDE DEF mine, any
      <4> QED BY <3>3, <1>6, <1>8, <1>9
    <3> HIDE DEF mine
    <3> QED BY <3>4, <3>5, <1>5
  <2>2. CASE t.language # "python"
    <3>1. n \in OfKind(t, {"def"}) /\ n \in Above(t, k)
      BY <2>2, <1>11 DEF OwnCalls
    <3>2. t.nodes[n].kind = "def" /\ n \in Nodes(t)
      BY <3>1 DEF OfKind
    <3>3. n # 0 /\ n \in Entities(t)
      BY <3>2, <1>3, <1>11
    <3>4. PICK o : o = Owner(t, k)
      OBVIOUS
    <3>5. o \in mine /\ n \in mine /\ n <= o
      <4>1. n \in mine
        BY <3>1, <3>3
      <4> HIDE DEF mine
      <4> QED BY <3>4, <4>1, <1>5, <1>9
    <3>6. o \in Nat /\ n \in Nat /\ o # 0 /\ o \in Entities(t) /\ o \in Above(t, k)
      <4>1. o \in Nat /\ n \in Nat
        BY <3>5, <1>6, <1>8
      <4>2. n > 0
        BY <3>3, <4>1
      <4>3. o # 0
        BY <4>1, <4>2, <3>5
      <4> QED BY <4>1, <4>3, <3>5
    <3>7. t.language = "java"
      BY <2>2 DEF IsSource
    <3>8. ASSUME n # o PROVE FALSE
      <4>1. n < o
        BY <3>8, <3>5, <3>6
      <4>2. n \in Above(t, o)
        BY <4>1, <3>1, <3>6, <1>1 DEF IsNested
      <4>3. t.nodes[n].kind = "class"
        BY <4>2, <3>6, <3>7, EntitiesAreNodes
      <4> QED BY <4>3, <3>2
    <3> QED BY <3>4, <3>8
  <2> QED BY <2>1, <2>2
<1> QED BY <1>10, <1>11

(* One row for one call, and none for a call that no entity makes.         *)
LEMMA OneRowPerCall ==
  ASSUME NEW r, IsRepository(r), NEW s, s = StoreParseResults(r)
  PROVE  \A c, d \in s.calls : c.site = d.site => c = d
<1> SUFFICES ASSUME NEW c \in s.calls, NEW d \in s.calls, c.site = d.site PROVE c = d
  OBVIOUS
<1>1. ASSUME NEW x \in s.calls
      PROVE  \E f \in DOMAIN r : \E k \in Nodes(r[f]) :
               x.site = <<f, k>> /\ x = CallRow(r[f], f, Owner(r[f], k), k)
  <2>1. PICK f \in DOMAIN r : \E n \in Entities(r[f]) \union {0} :
              \E k \in OwnCalls(r[f], n) : x = CallRow(r[f], f, n, k)
    BY CallRowsAre
  <2>2. PICK n \in Entities(r[f]) \union {0} : \E k \in OwnCalls(r[f], n) : x = CallRow(r[f], f, n, k)
    BY <2>1
  <2>3. PICK k \in OwnCalls(r[f], n) : x = CallRow(r[f], f, n, k)
    BY <2>2
  <2>4. IsSource(r[f]) /\ k \in Nodes(r[f])
    BY <2>3 DEF IsRepository, OwnCalls, OfKind
  <2>5. n = Owner(r[f], k)
    BY <2>4, OwnerMakesCall
  <2>6. x.site = <<f, k>>
    BY <2>3 DEF CallRow
  <2> QED BY <2>3, <2>4, <2>5, <2>6
<1>2. PICK f \in DOMAIN r : \E k \in Nodes(r[f]) : c.site = <<f, k>> /\ c = CallRow(r[f], f, Owner(r[f], k), k)
  BY <1>1
<1>3. PICK k \in Nodes(r[f]) : c.site = <<f, k>> /\ c = CallRow(r[f], f, Owner(r[f], k), k)
  BY <1>2
<1>4. PICK g \in DOMAIN r : \E j \in Nodes(r[g]) : d.site = <<g, j>> /\ d = CallRow(r[g], g, Owner(r[g], j), j)
  BY <1>1
<1>5. PICK j \in Nodes(r[g]) : d.site = <<g, j>> /\ d = CallRow(r[g], g, Owner(r[g], j), j)
  BY <1>4
<1>6. f = g /\ k = j
  <2>1. <<f, k>> = <<g, j>>
    BY <1>3, <1>5
  <2> QED BY <2>1
<1> QED BY <1>3, <1>5, <1>6

(* What CallsAreFiledUnderTheirCaller says of call k of file f.            *)
Filed(r, s, f, k) ==
  LET t == r[f]
      at == {c \in s.calls : c.site = <<f, k>>}
  IN IF \/ t.language = "python" /\ Enclosing(t, k) # Owner(t, k)
        \/ t.language = "java" /\ Owner(t, k) \notin OfKind(t, {"def"})
     THEN at = {}
     ELSE /\ Cardinality(at) = 1
          /\ \A c \in at :
               IF Owner(t, k) = 0 THEN c.caller = None
               ELSE s.entities[c.caller].qualified = Qualified(t, Owner(t, k))

(* A call is filed once, under its owner, unless it has none.              *)
LEMMA CallsFiled ==
  ASSUME NEW r, IsRepository(r), NEW s, s = StoreParseResults(r),
         NEW f \in DOMAIN r, NEW k \in OfKind(r[f], {"call"})
  PROVE  Filed(r, s, f, k)
<1> DEFINE t == r[f]
<1> DEFINE at == {c \in s.calls : c.site = <<f, k>>}
<1> DEFINE o == Owner(t, k)
<1>1. IsSource(t) /\ k \in Nodes(t)
  BY DEF IsRepository, OfKind
<1>2. o \in Entities(t) \union {0} /\ (o # 0 => o \in Above(t, k))
  BY <1>1, OwnerMakesCall
<1>3. ASSUME NEW c \in at
      PROVE  k \in OwnCalls(t, o)
  <2>1. PICK g \in DOMAIN r : \E n \in Entities(r[g]) \union {0} :
              \E j \in OwnCalls(r[g], n) : c = CallRow(r[g], g, n, j)
    BY CallRowsAre
  <2>2. PICK n \in Entities(r[g]) \union {0} : \E j \in OwnCalls(r[g], n) : c = CallRow(r[g], g, n, j)
    BY <2>1
  <2>3. PICK j \in OwnCalls(r[g], n) : c = CallRow(r[g], g, n, j)
    BY <2>2
  <2>4. c.site = <<g, j>>
    BY <2>3 DEF CallRow
  <2>5. c.site = <<f, k>>
    OBVIOUS
  <2>6. g = f /\ j = k
    BY <2>4, <2>5
  <2>7. n = o
    BY <2>3, <2>6, <1>1, OwnerMakesCall
  <2> QED BY <2>3, <2>6, <2>7
<1>4. CASE \/ t.language = "python" /\ Enclosing(t, k) # o
           \/ t.language = "java" /\ o \notin OfKind(t, {"def"})
  <2>1. k \notin OwnCalls(t, o)
    BY <1>4 DEF OwnCalls
  <2>2. at = {}
    BY <2>1, <1>3
  <2> QED BY <1>4, <2>2 DEF Filed
<1>5. CASE ~ (\/ t.language = "python" /\ Enclosing(t, k) # o
              \/ t.language = "java" /\ o \notin OfKind(t, {"def"}))
  <2>1. k \in OwnCalls(t, o)
    <3>1. CASE t.language = "python"
      BY <3>1, <1>5 DEF OwnCalls
    <3>2. CASE t.language # "python"
      <4>1. t.language = "java"
        BY <3>2, <1>1 DEF IsSource
      <4>2. o \in OfKind(t, {"def"})
        BY <4>1, <1>5
      <4>3. o # 0
        <5>1. o \in Nodes(t) /\ Nodes(t) = 1 .. Len(t.nodes) /\ Len(t.nodes) \in Nat
          BY <4>2, <1>1 DEF OfKind, IsSource
        <5> HIDE DEF o, t
        <5> QED BY <5>1
      <4> QED BY <3>2, <4>2, <4>3, <1>2 DEF OwnCalls
    <3> QED BY <3>1, <3>2
  <2> DEFINE row == CallRow(t, f, o, k)
  <2>2. row \in s.calls
    BY <2>1, <1>2, CallRowsAre
  <2>3. row.site = <<f, k>> /\ row.caller = IF o = 0 THEN None ELSE Row(f, EntityId(t, Qualified(t, o)))
    BY DEF CallRow
  <2>4. at = {row}
    <3>1. \A c \in at : c = row
      <4> SUFFICES ASSUME NEW c \in s.calls, c.site = <<f, k>> PROVE c = row
        OBVIOUS
      <4> HIDE DEF row
      <4> QED BY <2>2, <2>3, OneRowPerCall
    <3>2. row \in at
      <4> HIDE DEF row
      <4> QED BY <2>2, <2>3
    <3> HIDE DEF at, row
    <3> QED BY <3>1, <3>2
  <2>5. Cardinality(at) = 1
    BY <2>4, FS_Singleton
  <2>6. ASSUME o # 0 PROVE s.entities[row.caller].qualified = Qualified(t, o)
    <3>1. row.caller = Row(f, EntityId(t, Qualified(t, o)))
      BY <2>3, <2>6
    <3>2. o \in Entities(t)
      BY <2>6, <1>2
    <3> HIDE DEF row, o
    <3> QED BY <3>1, <3>2, RowsFound
  <2>7. ASSUME o = 0 PROVE row.caller = None
    BY <2>3, <2>7
  <2>8. \A c \in at : IF o = 0 THEN c.caller = None
                      ELSE s.entities[c.caller].qualified = Qualified(t, o)
    BY <2>4, <2>6, <2>7
  <2> HIDE DEF at, row, o
  <2> QED BY <1>5, <2>5, <2>8 DEF at, o, Filed
<1> QED BY <1>4, <1>5

(* Every reference between rows resolves.                                  *)
LEMMA RowsRefer ==
  ASSUME NEW r, IsRepository(r), NEW s, s = StoreParseResults(r)
  PROVE  /\ \A e \in DOMAIN s.entities : s.entities[e].parent \in DOMAIN s.entities \union {None}
         /\ \A c \in s.calls : {c.caller, c.callee} \subseteq DOMAIN s.entities \union {None}
         /\ \A b \in s.bases : b.entity \in DOMAIN s.entities
                               /\ b.parent \in DOMAIN s.entities \union {None}
<1>1. ASSUME NEW e \in DOMAIN s.entities
      PROVE  s.entities[e].parent \in DOMAIN s.entities \union {None}
  <2>1. PICK f \in DOMAIN r : f = e[1]
    BY EntityRows
  <2>2. PICK q : q = Front(Qualified(r[f], e[2]))
    OBVIOUS
  <2>3. s.entities[e].parent = Row(f, EntityId(r[f], q)) \/ s.entities[e].parent = None
    BY <2>1, <2>2, EntityRows
  <2>4. Row(f, EntityId(r[f], q)) # None => Row(f, EntityId(r[f], q)) \in DOMAIN s.entities
    BY RowsFound
  <2> QED BY <2>3, <2>4
<1>2. ASSUME NEW c \in s.calls
      PROVE  {c.caller, c.callee} \subseteq DOMAIN s.entities \union {None}
  BY CallsRefer
<1>3. ASSUME NEW b \in s.bases
      PROVE  b.entity \in DOMAIN s.entities /\ b.parent \in DOMAIN s.entities \union {None}
  <2>1. s.bases = UNION {BaseRows(r[f], f) : f \in DOMAIN r}
    BY DEF StoreParseResults
  <2>2. PICK f \in DOMAIN r : b \in BaseRows(r[f], f)
    BY <2>1
  <2>3. PICK n \in Entities(r[f]) : \E x : b.entity = Row(f, EntityId(r[f], Qualified(r[f], n)))
                                           /\ b.parent = Row(f, NameToId(r[f], x))
    BY <2>2 DEF BaseRows
  <2>4. PICK x : b.entity = Row(f, EntityId(r[f], Qualified(r[f], n)))
                 /\ b.parent = Row(f, NameToId(r[f], x))
    BY <2>3
  <2>5. b.entity \in DOMAIN s.entities
    BY <2>4, RowsFound
  <2>6. b.parent = None \/ b.parent \in DOMAIN s.entities
    BY <2>4, RowsFound
  <2> QED BY <2>5, <2>6
<1> QED BY <1>1, <1>2, <1>3

-----------------------------------------------------------------------------
(* Finite sets of rows, and the orders they are returned in.               *)

(* A finite function has finitely many values.                             *)
LEMMA ImageFinite ==
  ASSUME NEW g, IsFiniteSet(DOMAIN g)
  PROVE  /\ IsFiniteSet({g[x] : x \in DOMAIN g})
         /\ Cardinality({g[x] : x \in DOMAIN g}) <= Cardinality(DOMAIN g)
<1> DEFINE T == {g[x] : x \in DOMAIN g}
<1> DEFINE h == [x \in DOMAIN g |-> g[x]]
<1>1. h \in [DOMAIN g -> T] /\ \A y \in T : \E x \in DOMAIN g : h[x] = y
  OBVIOUS
<1>2. h \in Surjection(DOMAIN g, T)
  <2> HIDE DEF h, T
  <2> QED BY <1>1 DEF Surjection
<1> HIDE DEF h, T
<1>3. IsFiniteSet(T) /\ Cardinality(T) <= Cardinality(DOMAIN g)
  BY <1>2, FS_Surjection
<1> QED BY <1>3 DEF T

(* A file has finitely many nodes,                                         *)
LEMMA EntitiesFinite ==
  ASSUME NEW t, IsSource(t)
  PROVE  IsFiniteSet(Nodes(t)) /\ IsFiniteSet(Entities(t))
<1>1. Len(t.nodes) \in Nat /\ Nodes(t) = 1 .. Len(t.nodes)
  BY DEF IsSource
<1>2. IsFiniteSet(Nodes(t))
  BY <1>1, FS_Interval
<1>3. Entities(t) \in SUBSET Nodes(t)
  BY EntitiesAreNodes
<1> QED BY <1>2, <1>3, FS_Subset

(* and a repository finitely many definitions.                             *)
LEMMA RowsFinite ==
  ASSUME NEW r, IsRepository(r), NEW s, s = StoreParseResults(r)
  PROVE  IsFiniteSet(DOMAIN r) /\ IsFiniteSet(DOMAIN s.entities)
<1>1. IsFiniteSet(DOMAIN r)
  BY FS_Interval DEF IsRepository
<1> DEFINE h == [f \in DOMAIN r |-> {<<f, n>> : n \in Entities(r[f])}]
<1> DEFINE all == {h[f] : f \in DOMAIN h}
<1>2. DOMAIN h = DOMAIN r /\ \A f \in DOMAIN r : h[f] = {<<f, n>> : n \in Entities(r[f])}
  OBVIOUS
<1>3. IsFiniteSet(all)
  <2> HIDE DEF h
  <2> QED BY <1>1, <1>2, ImageFinite
<1>4. ASSUME NEW f \in DOMAIN r PROVE IsFiniteSet(h[f])
  <2> DEFINE g == [n \in Entities(r[f]) |-> <<f, n>>]
  <2>1. IsFiniteSet(Entities(r[f]))
    BY EntitiesFinite DEF IsRepository
  <2>2. DOMAIN g = Entities(r[f]) /\ {g[n] : n \in DOMAIN g} = h[f]
    OBVIOUS
  <2> HIDE DEF g, h
  <2> QED BY <2>1, <2>2, ImageFinite
<1>5. IsFiniteSet(UNION all)
  <2>1. \A T \in all : IsFiniteSet(T)
    <3> HIDE DEF h
    <3> QED BY <1>2, <1>4
  <2> HIDE DEF all
  <2> QED BY <1>3, <2>1, FS_UNION
<1>6. DOMAIN s.entities \in SUBSET (UNION all)
  <2> SUFFICES ASSUME NEW e \in DOMAIN s.entities PROVE e \in UNION all
    OBVIOUS
  <2>1. PICK f \in DOMAIN r : f = e[1] /\ e = <<f, e[2]>> /\ e[2] \in Entities(r[f])
    BY EntityRows
  <2>2. e \in h[f]
    BY <2>1
  <2> HIDE DEF h
  <2> QED BY <2>2, <1>2
<1> HIDE DEF all
<1> QED BY <1>1, <1>5, <1>6, FS_Subset

(* seq lists the members of S.                                             *)
Lists(seq, S) ==
  /\ seq \in Seq(S) /\ Len(seq) \in Nat /\ DOMAIN seq = 1 .. Len(seq)
  /\ \A i \in DOMAIN seq : seq[i] \in S
  /\ \A e \in S : \E i \in DOMAIN seq : seq[i] = e

(* What numbers the members of S in a strict order lists them.             *)
LEMMA SortedLists ==
  ASSUME NEW S, IsFiniteSet(S), NEW R, IsOrder(R, S),
         NEW seq, seq = [i \in 1 .. Cardinality(S) |-> seq[i]],
         \A i \in 1 .. Cardinality(S) :
           (\E e \in S : Place(R, S, e) = i - 1) => seq[i] \in S /\ Place(R, S, seq[i]) = i - 1
  PROVE  Lists(seq, S)
<1>1. PICK n \in Nat : n = Cardinality(S)
  BY FS_CardinalityType
<1>2. /\ \A i \in 1 .. n : \E e \in S : Place(R, S, e) = i - 1
      /\ \A e \in S : \E i \in 1 .. n : Place(R, S, e) = i - 1
      /\ \A a, b \in S : Place(R, S, a) = Place(R, S, b) => a = b
  BY <1>1, Ranks
<1>3. DOMAIN seq = 1 .. n
  BY <1>1
<1>4. \A i \in 1 .. n : seq[i] \in S /\ Place(R, S, seq[i]) = i - 1
  BY <1>1, <1>2
<1>5. \A e \in S : \E i \in 1 .. n : seq[i] = e
  <2> SUFFICES ASSUME NEW e \in S PROVE \E i \in 1 .. n : seq[i] = e
    OBVIOUS
  <2>1. PICK i \in 1 .. n : Place(R, S, e) = i - 1
    BY <1>2
  <2> QED BY <2>1, <1>2, <1>4
<1>6. seq = [i \in 1 .. n |-> seq[i]]
  BY <1>1
<1>7. seq \in Seq(S) /\ Len(seq) = n
  <2>1. seq \in [1 .. n -> S]
    BY <1>4, <1>6
  <2>2. PICK u \in [1 .. n -> S] : u = seq
    BY <2>1
  <2>3. u \in Seq(S) /\ Len(u) = n
    OBVIOUS
  <2> QED BY <2>2, <2>3
<1> QED BY <1>3, <1>4, <1>5, <1>7 DEF Lists

(* Two lists after one another, and one in reverse.                        *)
LEMMA ListsJoin ==
  ASSUME NEW S, NEW T, NEW s, NEW t, Lists(s, S), Lists(t, T)
  PROVE  Lists(s \o t, S \union T) /\ Lists(Reverse(t), T)
<1>1. s \in Seq(S \union T) /\ t \in Seq(S \union T) /\ Len(s) \in Nat /\ Len(t) \in Nat
  <2>1. s \in Seq(S) /\ t \in Seq(T) /\ Len(s) \in Nat /\ Len(t) \in Nat
    BY DEF Lists
  <2> QED BY <2>1
<1>2. PICK m \in Nat : m = Len(s)
  BY <1>1
<1>3. PICK n \in Nat : n = Len(t)
  BY <1>1
<1>4. /\ s \o t \in Seq(S \union T) /\ Len(s \o t) = m + n
      /\ \A i \in 1 .. m + n : (s \o t)[i] = IF i <= m THEN s[i] ELSE t[i - m]
  BY <1>1, <1>2, <1>3, ConcatProperties
<1>5. DOMAIN (s \o t) = 1 .. m + n
  BY <1>4
<1>6. /\ DOMAIN s = 1 .. m /\ \A i \in 1 .. m : s[i] \in S
      /\ DOMAIN t = 1 .. n /\ \A i \in 1 .. n : t[i] \in T
      /\ \A e \in S : \E i \in 1 .. m : s[i] = e
      /\ \A e \in T : \E i \in 1 .. n : t[i] = e
  BY <1>2, <1>3 DEF Lists
<1>7. \A i \in 1 .. m + n : (s \o t)[i] \in S \union T
  <2> SUFFICES ASSUME NEW i \in 1 .. m + n PROVE (s \o t)[i] \in S \union T
    OBVIOUS
  <2>1. CASE i <= m
    <3>1. i \in 1 .. m
      BY <2>1
    <3> QED BY <2>1, <3>1, <1>4, <1>6
  <2>2. CASE ~ (i <= m)
    <3>1. i - m \in 1 .. n
      BY <2>2
    <3> QED BY <2>2, <3>1, <1>4, <1>6
  <2> QED BY <2>1, <2>2
<1>8. \A e \in S \union T : \E i \in 1 .. m + n : (s \o t)[i] = e
  <2> SUFFICES ASSUME NEW e \in S \union T PROVE \E i \in 1 .. m + n : (s \o t)[i] = e
    OBVIOUS
  <2>1. CASE e \in S
    <3>1. PICK i \in 1 .. m : s[i] = e
      BY <2>1, <1>6
    <3>2. i \in 1 .. m + n /\ i <= m
      OBVIOUS
    <3> QED BY <3>1, <3>2, <1>4
  <2>2. CASE e \in T
    <3>1. PICK i \in 1 .. n : t[i] = e
      BY <2>2, <1>6
    <3>2. i + m \in 1 .. m + n /\ ~ (i + m <= m) /\ (i + m) - m = i
      OBVIOUS
    <3> QED BY <3>1, <3>2, <1>4
  <2> QED BY <2>1, <2>2
<1>9. Lists(s \o t, S \union T)
  <2>1. Len(s \o t) \in Nat /\ DOMAIN (s \o t) = 1 .. Len(s \o t)
    BY <1>4, <1>5
  <2> QED BY <2>1, <1>4, <1>5, <1>7, <1>8 DEF Lists
<1> DEFINE b == Reverse(t)
<1>10. b = [i \in 1 .. n |-> t[(n - i) + 1]]
  BY <1>3 DEF Reverse
<1>11. \A i \in 1 .. n : (n - i) + 1 \in 1 .. n /\ (n - ((n - i) + 1)) + 1 = i
  OBVIOUS
<1>12. \A i \in 1 .. n : b[i] = t[(n - i) + 1] /\ b[i] \in T
  BY <1>6, <1>10, <1>11
<1>13. \A e \in T : \E i \in 1 .. n : b[i] = e
  <2> SUFFICES ASSUME NEW e \in T PROVE \E i \in 1 .. n : b[i] = e
    OBVIOUS
  <2>1. PICK i \in 1 .. n : t[i] = e
    BY <1>6
  <2>2. PICK j \in 1 .. n : j = (n - i) + 1 /\ (n - j) + 1 = i
    BY <1>11
  <2>3. b[j] = e
    BY <2>1, <2>2, <1>12
  <2> QED BY <2>3
<1>14. b \in Seq(T) /\ Len(b) = n /\ DOMAIN b = 1 .. n
  <2> HIDE DEF b
  <2>1. b \in [1 .. n -> T]
    BY <1>10, <1>12
  <2> QED BY <2>1
<1>15. Lists(b, T)
  <2> HIDE DEF b
  <2> QED BY <1>12, <1>13, <1>14 DEF Lists
<1> QED BY <1>9, <1>15

(* The order of _load: a comes before b by the first place they differ at. *)
Comes(a, b) == \E i \in DOMAIN a : a[i] < b[i] /\ \A j \in 1 .. i - 1 : a[j] = b[j]

(* The rows of S in that order.                                            *)
RankSorted(r, S) ==
  [i \in 1 .. Cardinality(S) |->
     CHOOSE e \in S : Cardinality({d \in S : Comes(Rank(r, d), Rank(r, e))}) = i - 1]

(* It is a strict order of rows,                                           *)
LEMMA RankComes ==
  ASSUME NEW r, NEW S, \A e \in S : e = <<e[1], e[2]>> /\ e[1] \in Nat /\ e[2] \in Nat
  PROVE  IsOrder({p \in S \X S : Comes(Rank(r, p[1]), Rank(r, p[2]))}, S)
<1> DEFINE k(e) == IF r[e[1]].language = "java" /\ r[e[1]].nodes[e[2]].kind = "def" THEN 1 ELSE 0
<1> DEFINE lt(a, b) == \/ a[1] < b[1]
                       \/ a[1] = b[1] /\ k(a) < k(b)
                       \/ a[1] = b[1] /\ k(a) = k(b) /\ a[2] < b[2]
<1>1. \A e : Rank(r, e) = <<e[1], k(e), e[2]>>
  BY DEF Rank
<1>2. ASSUME NEW a \in S, NEW b \in S PROVE Comes(Rank(r, a), Rank(r, b)) <=> lt(a, b)
  <2>1. PICK x : x = Rank(r, a)
    OBVIOUS
  <2>2. PICK y : y = Rank(r, b)
    OBVIOUS
  <2>3. x = <<a[1], k(a), a[2]>> /\ y = <<b[1], k(b), b[2]>>
    BY <2>1, <2>2, <1>1
  <2> HIDE DEF k
  <2>4. /\ DOMAIN x = 1 .. 3 /\ x[1] = a[1] /\ x[2] = k(a) /\ x[3] = a[2]
        /\ y[1] = b[1] /\ y[2] = k(b) /\ y[3] = b[2]
    BY <2>3
  <2>5. Comes(x, y) <=> \E i \in 1 .. 3 : x[i] < y[i] /\ \A j \in 1 .. i - 1 : x[j] = y[j]
    BY <2>4 DEF Comes
  <2>6. (\E i \in 1 .. 3 : x[i] < y[i] /\ \A j \in 1 .. i - 1 : x[j] = y[j])
        <=> \/ x[1] < y[1]
            \/ x[1] = y[1] /\ x[2] < y[2]
            \/ x[1] = y[1] /\ x[2] = y[2] /\ x[3] < y[3]
    <3>1. 1 .. 3 = {1, 2, 3} /\ 1 .. 1 - 1 = {} /\ 1 .. 2 - 1 = {1} /\ 1 .. 3 - 1 = {1, 2}
      OBVIOUS
    <3> QED BY <3>1
  <2> QED BY <2>1, <2>2, <2>4, <2>5, <2>6
<1>3. \A e \in S : k(e) \in Nat
  OBVIOUS
<1> DEFINE R == {p \in S \X S : Comes(Rank(r, p[1]), Rank(r, p[2]))}
<1>4. \A a, b \in S : <<a, b>> \in R <=> lt(a, b)
  <2> HIDE DEF lt
  <2> QED BY <1>2
<1> HIDE DEF R, k
<1>5. ASSUME NEW a \in S, NEW b \in S, a # b PROVE <<a, b>> \in R \/ <<b, a>> \in R
  <2>1. a[1] # b[1] \/ a[2] # b[2]
    BY <1>5
  <2>2. lt(a, b) \/ lt(b, a)
    BY <2>1, <1>3
  <2> HIDE DEF lt
  <2> QED BY <2>2, <1>4
<1>6. ASSUME NEW a \in S PROVE <<a, a>> \notin R
  <2>1. ~ lt(a, a)
    BY <1>3
  <2> HIDE DEF lt
  <2> QED BY <2>1, <1>4
<1>7. ASSUME NEW a \in S, NEW b \in S, NEW c \in S, <<a, b>> \in R, <<b, c>> \in R
      PROVE  <<a, c>> \in R
  <2>1. lt(a, b) /\ lt(b, c)
    <3> HIDE DEF lt
    <3> QED BY <1>4, <1>7
  <2>2. /\ a[1] \in Nat /\ b[1] \in Nat /\ c[1] \in Nat
        /\ a[2] \in Nat /\ b[2] \in Nat /\ c[2] \in Nat
        /\ k(a) \in Nat /\ k(b) \in Nat /\ k(c) \in Nat
    BY <1>3
  <2>3. lt(a, c)
    BY <2>1, <2>2
  <2> HIDE DEF lt
  <2> QED BY <2>3, <1>4
<1>8. IsOrder(R, S)
  BY <1>5, <1>6, <1>7 DEF IsOrder
<1> QED BY <1>8 DEF R

(* so that the sorted rows are all rows.                                   *)
LEMMA RankSortedLists ==
  ASSUME NEW r, NEW S, IsFiniteSet(S),
         \A e \in S : e = <<e[1], e[2]>> /\ e[1] \in Nat /\ e[2] \in Nat
  PROVE  Lists(RankSorted(r, S), S)
<1> DEFINE R == {p \in S \X S : Comes(Rank(r, p[1]), Rank(r, p[2]))}
<1> DEFINE seq == RankSorted(r, S)
<1>1. IsOrder(R, S)
  BY RankComes
<1>2. ASSUME NEW e \in S PROVE Place(R, S, e) = Cardinality({d \in S : Comes(Rank(r, d), Rank(r, e))})
  <2>1. {d \in S : <<d, e>> \in R} = {d \in S : Comes(Rank(r, d), Rank(r, e))}
    OBVIOUS
  <2> HIDE DEF R
  <2> QED BY <2>1 DEF Place
<1> HIDE DEF R
<1>3. seq = [i \in 1 .. Cardinality(S) |-> seq[i]]
  BY DEF RankSorted
<1>4. \A i \in 1 .. Cardinality(S) :
        seq[i] = CHOOSE e \in S : Cardinality({d \in S : Comes(Rank(r, d), Rank(r, e))}) = i - 1
  BY DEF RankSorted
<1>5. ASSUME NEW i \in 1 .. Cardinality(S), \E e \in S : Place(R, S, e) = i - 1
      PROVE  seq[i] \in S /\ Place(R, S, seq[i]) = i - 1
  <2>1. \E e \in S : Cardinality({d \in S : Comes(Rank(r, d), Rank(r, e))}) = i - 1
    BY <1>2, <1>5
  <2>2. seq[i] \in S /\ Cardinality({d \in S : Comes(Rank(r, d), Rank(r, seq[i]))}) = i - 1
    <3> HIDE DEF seq
    <3> QED BY <2>1, <1>4
  <2> HIDE DEF seq
  <2> QED BY <2>2, <1>2
<1> HIDE DEF seq
<1>6. Lists(seq, S)
  BY <1>1, <1>3, <1>5, SortedLists
<1> QED BY <1>6 DEF seq

(* Whatever order the rows come in, every file and every definition comes. *)
LEMMA OrdersList ==
  ASSUME NEW r, IsRepository(r), NEW s, s = StoreParseResults(r), NEW o \in Orders(r, s)
  PROVE  Lists(o.files, DOMAIN r) /\ Lists(o.entities, DOMAIN s.entities)
<1> DEFINE ids == DOMAIN s.entities
<1> DEFINE moved == {e \in ids : s.entities[e].parent # None}
<1>1. IsFiniteSet(DOMAIN r) /\ IsFiniteSet(ids)
  BY RowsFinite
<1>2. IsFiniteSet(moved) /\ IsFiniteSet(ids \ moved) /\ ids = (ids \ moved) \union moved
  <2>1. moved \in SUBSET ids /\ (ids \ moved) \in SUBSET ids
    OBVIOUS
  <2>2. ids = (ids \ moved) \union moved
    OBVIOUS
  <2> HIDE DEF ids, moved
  <2> QED BY <2>1, <2>2, <1>1, FS_Subset
<1>3. /\ o.files \in SetToSeqs(DOMAIN r)
      /\ o.entities \in {RankSorted(r, ids), RankSorted(r, ids \ moved) \o RankSorted(r, moved),
                         RankSorted(r, ids \ moved) \o Reverse(RankSorted(r, moved))}
  BY DEF Orders, Sorted, RankSorted, Comes
<1>4. \A e \in ids : e = <<e[1], e[2]>> /\ e[1] \in Nat /\ e[2] \in Nat
  <2> SUFFICES ASSUME NEW e \in ids PROVE e = <<e[1], e[2]>> /\ e[1] \in Nat /\ e[2] \in Nat
    OBVIOUS
  <2>1. e = <<e[1], e[2]>> /\ e \in Nat \X Nat
    BY EntityRows
  <2> QED BY <2>1
<1>5. /\ Lists(RankSorted(r, ids), ids)
      /\ Lists(RankSorted(r, moved), moved) /\ Lists(RankSorted(r, ids \ moved), ids \ moved)
  <2>1. (\A e \in moved : e \in ids) /\ (\A e \in ids \ moved : e \in ids)
    OBVIOUS
  <2> HIDE DEF ids, moved
  <2> QED BY <2>1, <1>1, <1>2, <1>4, RankSortedLists
<1>6. Lists(o.entities, ids)
  <2>1. Lists(Reverse(RankSorted(r, moved)), moved)
    BY <1>5, ListsJoin
  <2> HIDE DEF ids, moved
  <2>2. PICK rest : rest = ids \ moved
    OBVIOUS
  <2>3. /\ Lists(RankSorted(r, rest) \o RankSorted(r, moved), rest \union moved)
        /\ Lists(RankSorted(r, rest) \o Reverse(RankSorted(r, moved)), rest \union moved)
    BY <2>1, <2>2, <1>5, ListsJoin
  <2> QED BY <2>2, <2>3, <1>2, <1>3, <1>5
<1>7. Lists(o.files, DOMAIN r)
  <2>1. PICK n \in Nat : n = Cardinality(DOMAIN r)
    BY <1>1, FS_CardinalityType
  <2>2. /\ o.files \in [1 .. n -> DOMAIN r]
        /\ \A i, j \in 1 .. n : i # j => o.files[i] # o.files[j]
    BY <1>3, <2>1 DEF SetToSeqs
  <2>3. o.files \in Seq(DOMAIN r) /\ Len(o.files) = n /\ DOMAIN o.files = 1 .. n
    BY <2>2
  <2>4. o.files \in Injection(1 .. n, DOMAIN r)
    BY <2>2 DEF Injection, IsInjective
  <2>5. IsFiniteSet(1 .. n) /\ Cardinality(1 .. n) = n
    BY FS_Interval
  <2>6. o.files \in Surjection(1 .. n, DOMAIN r)
    BY <2>1, <2>4, <2>5, <1>1, FS_Injection
  <2>7. \A f \in DOMAIN r : \E i \in 1 .. n : o.files[i] = f
    BY <2>6 DEF Surjection
  <2> QED BY <2>2, <2>3, <2>7 DEF Lists
<1> QED BY <1>6, <1>7

-----------------------------------------------------------------------------
(* What a name is resolved to (graph.py:57-129).                           *)

(* What Found gives of the least position selected, or of none.            *)
LEMMA Selected ==
  ASSUME NEW seq, NEW n \in Nat, NEW I, I \subseteq 1 .. n,
         NEW k, k = IF I # {} THEN Min(I) ELSE 0
  PROVE  /\ I = {} => Found(seq, k) = None
         /\ I # {} => k \in I /\ Found(seq, k) = seq[k] /\ \A j \in I : k <= j
<1>1. CASE I = {}
  BY <1>1 DEF Found
<1>2. CASE I # {}
  <2>1. I \subseteq Nat
    OBVIOUS
  <2>2. Min(I) \in I /\ \A m \in I : Min(I) <= m
    BY <1>2, <2>1, MinInSet
  <2>3. k \in I /\ \A m \in I : k <= m
    BY <1>2, <2>2
  <2>4. k # 0
    BY <2>3
  <2> QED BY <1>2, <2>3, <2>4 DEF Found
<1> QED BY <1>1, <1>2

(* The first of those found; None when none is.                            *)
LEMMA FirstFoundIs ==
  ASSUME NEW n \in Nat, NEW seq, Len(seq) = n
  PROVE  /\ FirstFound(seq) # None => \E i \in 1 .. n : FirstFound(seq) = seq[i]
         /\ \A i \in 1 .. n : seq[i] # None /\ (\A j \in 1 .. i - 1 : seq[j] = None)
                              => FirstFound(seq) = seq[i]
         /\ (\A i \in 1 .. n : seq[i] = None) => FirstFound(seq) = None
<1> DEFINE I == {i \in 1 .. n : seq[i] # None}
<1> DEFINE k == IF I # {} THEN Min(I) ELSE 0
<1>1. FirstFound(seq) = Found(seq, k)
  BY DEF FirstFound, SelectInSeq
<1>2. /\ I = {} => Found(seq, k) = None
      /\ I # {} => k \in I /\ Found(seq, k) = seq[k] /\ \A j \in I : k <= j
  <2>1. I \subseteq 1 .. n
    OBVIOUS
  <2> HIDE DEF I
  <2> QED BY <2>1, Selected
<1> HIDE DEF k
<1>3. ASSUME NEW i \in 1 .. n, seq[i] # None, \A j \in 1 .. i - 1 : seq[j] = None
      PROVE  FirstFound(seq) = seq[i]
  <2>1. i \in I
    BY <1>3
  <2>2. k \in I /\ k <= i /\ Found(seq, k) = seq[k]
    <3> HIDE DEF I
    <3> QED BY <2>1, <1>2
  <2>3. k \in 1 .. n /\ seq[k] # None
    BY <2>2
  <2>4. ~ (k < i)
    BY <2>3, <1>3
  <2>5. k = i
    BY <2>2, <2>3, <2>4
  <2> QED BY <2>2, <2>5, <1>1
<1> QED BY <1>1, <1>2, <1>3

(* What _import_target and _find_in_file find.                             *)
LEMMA ImportTargetIs ==
  ASSUME NEW r, IsRepository(r), NEW s, s = StoreParseResults(r), NEW o \in Orders(r, s), NEW stem
  PROVE  /\ ImportTarget(s, o, stem) # None =>
              ImportTarget(s, o, stem) \in DOMAIN r /\ r[ImportTarget(s, o, stem)].stem = stem
         /\ \A g \in DOMAIN r : r[g].stem = stem => ImportTarget(s, o, stem) # None
<1>1. Lists(o.files, DOMAIN r)
  BY OrdersList
<1>2. PICK n \in Nat : n = Len(o.files)
  BY <1>1 DEF Lists
<1>3. /\ \A i \in 1 .. n : o.files[i] \in DOMAIN r
      /\ \A f \in DOMAIN r : \E i \in 1 .. n : o.files[i] = f
  BY <1>1, <1>2 DEF Lists
<1>4. \A f \in DOMAIN r : s.stem[f] = r[f].stem /\ f # None
  <2>1. s.stem = [f \in DOMAIN r |-> r[f].stem]
    BY DEF StoreParseResults
  <2>2. \A f \in DOMAIN r : f \in Nat
    BY DEF IsRepository
  <2> QED BY <2>1, <2>2, NoneAssumption
<1> DEFINE I == {i \in 1 .. n : s.stem[o.files[i]] = stem}
<1> DEFINE k == IF I # {} THEN Min(I) ELSE 0
<1>5. ImportTarget(s, o, stem) = Found(o.files, k)
  BY <1>2 DEF ImportTarget, SelectInSeq
<1>6. /\ I = {} => Found(o.files, k) = None
      /\ I # {} => k \in I /\ Found(o.files, k) = o.files[k]
  <2>1. I \subseteq 1 .. n
    OBVIOUS
  <2> HIDE DEF I
  <2> QED BY <2>1, Selected
<1> HIDE DEF k
<1>7. I # {} => /\ ImportTarget(s, o, stem) \in DOMAIN r /\ r[ImportTarget(s, o, stem)].stem = stem
                /\ ImportTarget(s, o, stem) # None
  BY <1>3, <1>4, <1>5, <1>6
<1>8. ASSUME NEW g \in DOMAIN r, r[g].stem = stem PROVE I # {}
  BY <1>3, <1>4, <1>8
<1> HIDE DEF I
<1> QED BY <1>5, <1>6, <1>7, <1>8

(* The same of _find_in_file: an entity of that file and name.             *)
LEMMA FindInFileIs ==
  ASSUME NEW r, IsRepository(r), NEW s, s = StoreParseResults(r), NEW o \in Orders(r, s),
         NEW f, NEW x
  PROVE  /\ FindInFile(s, o, f, x) # None =>
              /\ FindInFile(s, o, f, x) \in DOMAIN s.entities
              /\ FindInFile(s, o, f, x)[1] = f
              /\ s.entities[FindInFile(s, o, f, x)].name = x
         /\ \A e \in DOMAIN s.entities : e[1] = f /\ s.entities[e].name = x
              => FindInFile(s, o, f, x) # None
<1>1. Lists(o.entities, DOMAIN s.entities)
  BY OrdersList
<1>2. PICK n \in Nat : n = Len(o.entities)
  BY <1>1 DEF Lists
<1>3. /\ \A i \in 1 .. n : o.entities[i] \in DOMAIN s.entities
      /\ \A e \in DOMAIN s.entities : \E i \in 1 .. n : o.entities[i] = e
  BY <1>1, <1>2 DEF Lists
<1>4. \A e \in DOMAIN s.entities : e # None /\ e[1] # None
  <2> SUFFICES ASSUME NEW e \in DOMAIN s.entities PROVE e # None /\ e[1] # None
    OBVIOUS
  <2>1. e # None /\ e[1] \in DOMAIN r
    BY EntityRows
  <2>2. e[1] \in Nat
    BY <2>1 DEF IsRepository
  <2> QED BY <2>1, <2>2, NoneAssumption
<1>5. CASE f = None
  <2>1. FindInFile(s, o, f, x) = None
    BY <1>5 DEF FindInFile
  <2> QED BY <2>1, <1>4, <1>5
<1>6. CASE f # None
  <2> DEFINE I == {i \in 1 .. n : o.entities[i][1] = f /\ s.entities[o.entities[i]].name = x}
  <2> DEFINE k == IF I # {} THEN Min(I) ELSE 0
  <2>1. FindInFile(s, o, f, x) = Found(o.entities, k)
    BY <1>2, <1>6 DEF FindInFile, SelectInSeq
  <2>2. /\ I = {} => Found(o.entities, k) = None
        /\ I # {} => k \in I /\ Found(o.entities, k) = o.entities[k]
    <3>1. I \subseteq 1 .. n
      OBVIOUS
    <3> HIDE DEF I
    <3> QED BY <3>1, Selected
  <2> HIDE DEF k
  <2>3. I # {} => /\ FindInFile(s, o, f, x) \in DOMAIN s.entities
                  /\ FindInFile(s, o, f, x)[1] = f
                  /\ s.entities[FindInFile(s, o, f, x)].name = x
                  /\ FindInFile(s, o, f, x) # None
    BY <1>3, <1>4, <2>1, <2>2
  <2>4. ASSUME NEW e \in DOMAIN s.entities, e[1] = f, s.entities[e].name = x PROVE I # {}
    BY <1>3, <2>4
  <2> HIDE DEF I
  <2> QED BY <2>1, <2>2, <2>3, <2>4
<1> QED BY <1>5, <1>6

(* A repository has finitely many imports.                                 *)
LEMMA ImportsFinite ==
  ASSUME NEW r, IsRepository(r), NEW s, s = StoreParseResults(r)
  PROVE  IsFiniteSet(s.imports)
<1> DEFINE h == [f \in DOMAIN r |-> {[file |-> f, at |-> i, module |-> r[f].nodes[i].module,
                                     as |-> r[f].nodes[i].as] : i \in Imports(r[f])}]
<1> DEFINE all == {h[f] : f \in DOMAIN h}
<1>1. IsFiniteSet(DOMAIN r)
  BY RowsFinite
<1>2. IsFiniteSet(all)
  <2>1. DOMAIN h = DOMAIN r
    OBVIOUS
  <2> HIDE DEF h
  <2> QED BY <1>1, <2>1, ImageFinite
<1>3. ASSUME NEW f \in DOMAIN r PROVE IsFiniteSet(h[f])
  <2> DEFINE g == [i \in Imports(r[f]) |-> [file |-> f, at |-> i, module |-> r[f].nodes[i].module,
                                           as |-> r[f].nodes[i].as]]
  <2>1. IsFiniteSet(Nodes(r[f]))
    BY EntitiesFinite DEF IsRepository
  <2>2. Imports(r[f]) \in SUBSET Nodes(r[f])
    BY DEF Imports, OfKind
  <2>3. IsFiniteSet(Imports(r[f]))
    BY <2>1, <2>2, FS_Subset
  <2>4. DOMAIN g = Imports(r[f]) /\ {g[n] : n \in DOMAIN g} = h[f]
    OBVIOUS
  <2> HIDE DEF g, h
  <2> QED BY <2>3, <2>4, ImageFinite
<1>4. \A T \in all : IsFiniteSet(T)
  <2>1. DOMAIN h = DOMAIN r
    OBVIOUS
  <2> HIDE DEF h
  <2> QED BY <1>3, <2>1
<1>5. IsFiniteSet(UNION all)
  <2> HIDE DEF all
  <2> QED BY <1>2, <1>4, FS_UNION
<1>6. s.imports = UNION all
  BY DEF StoreParseResults
<1> HIDE DEF all
<1> QED BY <1>5, <1>6

(* What a name is resolved to is an entity of that name.                   *)
LEMMA ViaImportIs ==
  ASSUME NEW r, IsRepository(r), NEW s, s = StoreParseResults(r), NEW o \in Orders(r, s),
         NEW f, NEW x, ViaImport(s, o, f, x) # None
  PROVE  /\ ViaImport(s, o, f, x) \in DOMAIN s.entities
         /\ s.entities[ViaImport(s, o, f, x)].name = x
<1> DEFINE bound == {i \in s.imports : i.file = f /\ i.as = x}
<1>1. PICK n \in Nat : n = Cardinality(bound)
  <2>1. bound \in SUBSET s.imports
    OBVIOUS
  <2> HIDE DEF bound
  <2> QED BY <2>1, ImportsFinite, FS_Subset, FS_CardinalityType
<1>2. PICK seq : /\ ViaImport(s, o, f, x) =
                      FirstFound([i \in DOMAIN seq |->
                        FindInFile(s, o, ImportTarget(s, o, seq[i].module), x)])
                 /\ DOMAIN seq = 1 .. n
  <2> DEFINE it == [i \in 1 .. Cardinality(bound) |->
                      CHOOSE e \in bound : Cardinality({d \in bound : d.at < e.at}) = i - 1]
  <2>1. ViaImport(s, o, f, x) = FirstFound([i \in DOMAIN it |->
                        FindInFile(s, o, ImportTarget(s, o, it[i].module), x)])
    BY DEF ViaImport, Sorted
  <2>2. DOMAIN it = 1 .. n
    BY <1>1
  <2> HIDE DEF it
  <2> QED BY <2>1, <2>2
<1> DEFINE found == [i \in DOMAIN seq |-> FindInFile(s, o, ImportTarget(s, o, seq[i].module), x)]
<1>3. Len(found) = n
  BY <1>2
<1>4. ViaImport(s, o, f, x) = FirstFound(found)
  BY <1>2
<1>5. PICK i \in 1 .. n : FirstFound(found) = found[i]
  <2> HIDE DEF found
  <2> QED BY <1>3, <1>4, FirstFoundIs
<1>6. PICK g : found[i] = FindInFile(s, o, g, x)
  BY <1>2
<1> HIDE DEF found
<1> QED BY <1>4, <1>5, <1>6, FindInFileIs

(* An entity alone with its name is one of that name.                      *)
LEMMA ResolveByNameIs ==
  ASSUME NEW s, NEW x, ResolveByName(s, x) # None
  PROVE  ResolveByName(s, x) \in DOMAIN s.entities /\ s.entities[ResolveByName(s, x)].name = x
<1> DEFINE es == {e \in DOMAIN s.entities : s.entities[e].name = x}
<1>1. ResolveByName(s, x) = CHOOSE e \in es : TRUE
  BY DEF ResolveByName
<1>2. Cardinality(es) = 1
  BY DEF ResolveByName
<1>3. es # {}
  <2> HIDE DEF es
  <2> QED BY <1>2, FS_EmptySet
<1>4. ResolveByName(s, x) \in es
  <2> HIDE DEF es
  <2> QED BY <1>1, <1>3
<1> QED BY <1>4

(* Whichever step of _resolve finds an entity, it has the name called; and *)
(* the module a dotted name begins with is asked right after the caller's  *)
(* own file.                                                               *)
LEMMA ResolveIs ==
  ASSUME NEW r, IsRepository(r), NEW s, s = StoreParseResults(r), NEW o \in Orders(r, s),
         NEW f, NEW c
  PROVE  /\ Resolve(s, o, f, c) # None =>
              /\ Resolve(s, o, f, c) \in DOMAIN s.entities
              /\ s.entities[Resolve(s, o, f, c)].name = c.name
         /\ FindInFile(s, o, f, c.name) = None /\ c.on # None
            /\ FindInFile(s, o, ImportTarget(s, o, c.on), c.name) # None
            => Resolve(s, o, f, c) = FindInFile(s, o, ImportTarget(s, o, c.on), c.name)
<1> DEFINE a == FindInFile(s, o, f, c.name)
<1> DEFINE b == IF c.on = None THEN None
                ELSE FindInFile(s, o, ImportTarget(s, o, c.on), c.name)
<1> DEFINE v == ViaImport(s, o, f, c.name)
<1> DEFINE n == ResolveByName(s, c.name)
<1>1. Resolve(s, o, f, c) = FirstFound(<<a, b, v, n>>)
  BY DEF Resolve
<1>2. /\ a # None => a \in DOMAIN s.entities /\ s.entities[a].name = c.name
      /\ b # None => b \in DOMAIN s.entities /\ s.entities[b].name = c.name
      /\ v # None => v \in DOMAIN s.entities /\ s.entities[v].name = c.name
      /\ n # None => n \in DOMAIN s.entities /\ s.entities[n].name = c.name
  BY FindInFileIs, ViaImportIs, ResolveByNameIs
<1>3. c.on # None => b = FindInFile(s, o, ImportTarget(s, o, c.on), c.name)
  OBVIOUS
<1> HIDE DEF a, b, v, n
<1>4. PICK seq : seq = <<a, b, v, n>>
  OBVIOUS
<1>5. Len(seq) = 4 /\ seq[1] = a /\ seq[2] = b /\ seq[3] = v /\ seq[4] = n
  BY <1>4
<1>6. /\ FirstFound(seq) # None => \E i \in 1 .. 4 : FirstFound(seq) = seq[i]
      /\ \A i \in 1 .. 4 : seq[i] # None /\ (\A j \in 1 .. i - 1 : seq[j] = None)
                           => FirstFound(seq) = seq[i]
  BY <1>5, FirstFoundIs
<1>7. FirstFound(seq) # None => FirstFound(seq) \in {a, b, v, n}
  <2>1. 1 .. 4 = {1, 2, 3, 4}
    OBVIOUS
  <2> QED BY <2>1, <1>5, <1>6
<1>8. ASSUME Resolve(s, o, f, c) # None
      PROVE  /\ Resolve(s, o, f, c) \in DOMAIN s.entities
             /\ s.entities[Resolve(s, o, f, c)].name = c.name
  BY <1>1, <1>2, <1>4, <1>7, <1>8
<1>9. ASSUME a = None, b # None PROVE FirstFound(seq) = b
  <2>1. 2 \in 1 .. 4 /\ \A j \in 1 .. 2 - 1 : j = 1
    OBVIOUS
  <2> QED BY <2>1, <1>5, <1>6, <1>9
<1> QED BY <1>1, <1>3, <1>4, <1>8, <1>9 DEF a

-----------------------------------------------------------------------------
(* The graph: its nodes, its edges, and the modules they lie in.           *)

(* The nodes of any graph built of the rows s.                             *)
GraphNodes(s) == {Module(f) : f \in DOMAIN s.stem} \union {NodeId(s, e) : e \in DOMAIN s.entities}

(* A node is a module or an entity's, and there are finitely many.         *)
LEMMA NodesAre ==
  ASSUME NEW r, IsRepository(r), NEW s, s = StoreParseResults(r)
  PROVE  /\ \A v \in GraphNodes(s) : \/ \E f \in DOMAIN r : v = Module(f)
                                     \/ \E e \in DOMAIN s.entities : v = NodeId(s, e)
         /\ \A f \in DOMAIN r : Module(f) \in GraphNodes(s)
         /\ \A e \in DOMAIN s.entities : NodeId(s, e) \in GraphNodes(s)
         /\ IsFiniteSet(GraphNodes(s))
<1>1. DOMAIN s.stem = DOMAIN r
  BY DEF StoreParseResults
<1> DEFINE g == [f \in DOMAIN r |-> Module(f)]
<1> DEFINE h == [e \in DOMAIN s.entities |-> NodeId(s, e)]
<1>2. GraphNodes(s) = {g[f] : f \in DOMAIN g} \union {h[e] : e \in DOMAIN h}
  BY <1>1 DEF GraphNodes
<1>3. IsFiniteSet({g[f] : f \in DOMAIN g}) /\ IsFiniteSet({h[e] : e \in DOMAIN h})
  <2>1. IsFiniteSet(DOMAIN g) /\ IsFiniteSet(DOMAIN h)
    BY RowsFinite
  <2> HIDE DEF g, h
  <2> QED BY <2>1, ImageFinite
<1>4. IsFiniteSet(GraphNodes(s))
  <2> HIDE DEF g, h
  <2> QED BY <1>2, <1>3, FS_Union
<1> QED BY <1>1, <1>4 DEF GraphNodes

(* An edge drawn for a call goes from its caller to an entity of its name. *)
LEMMA CallEdgesAre ==
  ASSUME NEW r, IsRepository(r), NEW s, s = StoreParseResults(r), NEW o \in Orders(r, s),
         NEW d \in CallEdges(s, o)
  PROVE  \E c \in s.calls : \E e \in DOMAIN s.entities :
           /\ ~c.dynamic /\ c.caller \in DOMAIN s.entities /\ s.entities[e].name = c.name
           /\ c.caller # None
           /\ d = [kind |-> "call", source |-> NodeId(s, c.caller), site |-> c.site,
                   target |-> NodeId(s, e)]
           /\ e = IF c.callee # None THEN c.callee ELSE Resolve(s, o, c.caller[1], c)
<1>1. PICK c \in s.calls :
        /\ ~c.dynamic /\ c.caller # None
        /\ (IF c.callee # None THEN c.callee ELSE Resolve(s, o, c.caller[1], c)) # None
        /\ d = [kind |-> "call", source |-> NodeId(s, c.caller), site |-> c.site,
                target |-> NodeId(s, IF c.callee # None THEN c.callee
                                     ELSE Resolve(s, o, c.caller[1], c))]
  BY DEF CallEdges
<1>2. PICK e : e = IF c.callee # None THEN c.callee ELSE Resolve(s, o, c.caller[1], c)
  OBVIOUS
<1>3. c.caller \in DOMAIN s.entities
  BY <1>1, CallsRefer
<1>4. e # None
  BY <1>1, <1>2
<1>5. e \in DOMAIN s.entities /\ s.entities[e].name = c.name
  <2>1. CASE c.callee # None
    BY <2>1, <1>2, CallsRefer
  <2>2. CASE c.callee = None
    <3>1. e = Resolve(s, o, c.caller[1], c)
      BY <2>2, <1>2
    <3> QED BY <3>1, <1>4, ResolveIs
  <2> QED BY <2>1, <2>2
<1> QED BY <1>1, <1>2, <1>3, <1>5

(* No edge hangs in the air.                                               *)
LEMMA EdgesJoinNodes ==
  ASSUME NEW r, IsRepository(r), NEW s, s = StoreParseResults(r), NEW o \in Orders(r, s)
  PROVE  \A d \in BuildGraph(s, o).edges : {d.source, d.target} \subseteq BuildGraph(s, o).nodes
<1>1. /\ BuildGraph(s, o).nodes = GraphNodes(s)
      /\ BuildGraph(s, o).edges = CallEdges(s, o) \union ContainsEdges(s)
                                  \union ImportEdges(s, o) \union InheritsEdges(s)
  BY DEF BuildGraph, GraphNodes
<1>2. ASSUME NEW d \in CallEdges(s, o) PROVE {d.source, d.target} \subseteq GraphNodes(s)
  <2>1. PICK c \in s.calls : \E e \in DOMAIN s.entities :
           /\ ~c.dynamic /\ c.caller \in DOMAIN s.entities /\ s.entities[e].name = c.name
           /\ c.caller # None
           /\ d = [kind |-> "call", source |-> NodeId(s, c.caller), site |-> c.site,
                   target |-> NodeId(s, e)]
           /\ e = IF c.callee # None THEN c.callee ELSE Resolve(s, o, c.caller[1], c)
    BY CallEdgesAre
  <2>2. d.source = NodeId(s, c.caller) /\ \E e \in DOMAIN s.entities : d.target = NodeId(s, e)
    BY <2>1
  <2> QED BY <2>1, <2>2, NodesAre
<1>3. ASSUME NEW d \in ContainsEdges(s) PROVE {d.source, d.target} \subseteq GraphNodes(s)
  <2>1. PICK e \in DOMAIN s.entities :
          /\ d.target = NodeId(s, e)
          /\ d.source = IF s.entities[e].parent # None
                        THEN NodeId(s, s.entities[e].parent) ELSE Module(e[1])
    BY DEF ContainsEdges
  <2>2. e[1] \in DOMAIN r
    BY EntityRows
  <2>3. s.entities[e].parent \in DOMAIN s.entities \union {None}
    BY RowsRefer
  <2> QED BY <2>1, <2>2, <2>3, NodesAre
<1>4. ASSUME NEW d \in ImportEdges(s, o) PROVE {d.source, d.target} \subseteq GraphNodes(s)
  <2>1. PICK i \in s.imports : /\ d.source = Module(i.file)
                               /\ d.target = Module(ImportTarget(s, o, i.module))
                               /\ ImportTarget(s, o, i.module) # None
    BY DEF ImportEdges
  <2>2. i.file \in DOMAIN r
    BY DEF StoreParseResults
  <2>3. ImportTarget(s, o, i.module) \in DOMAIN r
    BY <2>1, ImportTargetIs
  <2> QED BY <2>1, <2>2, <2>3, NodesAre
<1>5. ASSUME NEW d \in InheritsEdges(s) PROVE {d.source, d.target} \subseteq GraphNodes(s)
  <2>1. PICK b \in s.bases :
          /\ d.source = NodeId(s, b.entity)
          /\ d.target = NodeId(s, IF b.parent # None THEN b.parent ELSE ResolveByName(s, b.name))
          /\ (IF b.parent # None THEN b.parent ELSE ResolveByName(s, b.name)) # None
    BY DEF InheritsEdges
  <2>2. PICK p : p = IF b.parent # None THEN b.parent ELSE ResolveByName(s, b.name)
    OBVIOUS
  <2>3. b.entity \in DOMAIN s.entities /\ b.parent \in DOMAIN s.entities \union {None}
    BY RowsRefer
  <2>4. p # None
    BY <2>1, <2>2
  <2>5. p \in DOMAIN s.entities
    <3>1. CASE b.parent # None
      BY <3>1, <2>2, <2>3
    <3>2. CASE b.parent = None
      <4>1. p = ResolveByName(s, b.name)
        BY <2>2, <3>2
      <4> QED BY <4>1, <2>4, ResolveByNameIs
    <3> QED BY <3>1, <3>2
  <2> QED BY <2>1, <2>2, <2>3, <2>5, NodesAre
<1> QED BY <1>1, <1>2, <1>3, <1>4, <1>5

(* The recursive function of EveryNodeIsInAModule, named.                  *)
Inner(g, S) == S \union {e.target : e \in {d \in g.edges : d.kind = "contains" /\ d.source \in S}}

Inside(g, r) ==
  CHOOSE inside : inside = [k \in 0 .. Cardinality(g.nodes) |->
    IF k = 0 THEN {Module(f) : f \in DOMAIN r} ELSE Inner(g, inside[k - 1])]

(* It is defined, step by step.                                            *)
LEMMA InsideDefined ==
  ASSUME NEW r, NEW g, NEW N \in Nat, N = Cardinality(g.nodes)
  PROVE  /\ Inside(g, r)[0] = {Module(f) : f \in DOMAIN r}
         /\ \A k \in 1 .. N : Inside(g, r)[k] = Inner(g, Inside(g, r)[k - 1])
<1> DEFINE base == {Module(f) : f \in DOMAIN r}
<1> DEFINE Upto(k, h) == h = [m \in 0 .. k |-> IF m = 0 THEN base ELSE Inner(g, h[m - 1])]
<1> DEFINE some == {k \in 0 .. N : \E h : Upto(k, h)}
<1> HIDE DEF base
<1>3. \A k \in 0 .. N : (\A j \in 0 .. k - 1 : j \in some) => k \in some
  <2> SUFFICES ASSUME NEW k \in 0 .. N, \A j \in 0 .. k - 1 : j \in some
               PROVE  \E h : Upto(k, h)
    OBVIOUS
  <2>1. CASE k = 0
    <3> DEFINE h == [m \in 0 .. 0 |-> base]
    <3>1. h = [m \in 0 .. k |-> IF m = 0 THEN base ELSE Inner(g, h[m - 1])]
      BY <2>1
    <3> HIDE DEF h
    <3> QED BY <3>1
  <2>2. CASE k # 0
    <3>1. k - 1 \in 0 .. k - 1
      BY <2>2
    <3>2. PICK p : Upto(k - 1, p)
      BY <3>1
    <3> DEFINE h == [m \in 0 .. k |-> IF m = k THEN Inner(g, p[k - 1]) ELSE p[m]]
    <3>3. \A m \in 0 .. k - 1 : h[m] = p[m]
      BY <2>2
    <3>5. \A m \in 0 .. k : h[m] = IF m = 0 THEN base ELSE Inner(g, h[m - 1])
      <4> SUFFICES ASSUME NEW m \in 0 .. k
                   PROVE  h[m] = IF m = 0 THEN base ELSE Inner(g, h[m - 1])
        OBVIOUS
      <4>1. ASSUME m # 0 PROVE h[m - 1] = p[m - 1]
        <5>1. m - 1 \in 0 .. k - 1
          BY <4>1
        <5> HIDE DEF h
        <5> QED BY <5>1, <3>3
      <4>2. CASE m = k
        <5>1. h[m] = Inner(g, p[m - 1])
          BY <4>2
        <5> HIDE DEF h
        <5> QED BY <5>1, <4>1, <4>2, <2>2
      <4>3. CASE m # k
        <5>1. m \in 0 .. k - 1 /\ h[m] = p[m]
          BY <4>3
        <5>2. p[m] = IF m = 0 THEN base ELSE Inner(g, p[m - 1])
          BY <5>1, <3>2
        <5> HIDE DEF h
        <5> QED BY <5>1, <5>2, <4>1
      <4> QED BY <4>2, <4>3
    <3>6. h = [m \in 0 .. k |-> h[m]]
      OBVIOUS
    <3>7. Upto(k, h)
      <4> HIDE DEF h
      <4> QED BY <3>5, <3>6
    <3> HIDE DEF h
    <3> QED BY <3>7
  <2> QED BY <2>1, <2>2
<1>4. N \in some
  <2>1. N \in 0 .. N
    OBVIOUS
  <2> HIDE DEF some
  <2> QED BY <1>3, <2>1, Climb
<1>5. PICK c : c = Inside(g, r)
  OBVIOUS
<1>6. \E h : h = [m \in 0 .. Cardinality(g.nodes) |-> IF m = 0 THEN base ELSE Inner(g, h[m - 1])]
  BY <1>4
<1>7. Inside(g, r) = [m \in 0 .. Cardinality(g.nodes) |->
                        IF m = 0 THEN base ELSE Inner(g, Inside(g, r)[m - 1])]
  BY <1>6 DEF Inside, base
<1>8. c = [m \in 0 .. N |-> IF m = 0 THEN base ELSE Inner(g, c[m - 1])]
  BY <1>5, <1>7
<1>9. c[0] = base /\ \A k \in 1 .. N : c[k] = Inner(g, c[k - 1])
  <2>1. 0 \in 0 .. N /\ \A k \in 1 .. N : k \in 0 .. N /\ k # 0
    OBVIOUS
  <2> QED BY ONLY <1>8, <2>1
<1> QED BY <1>5, <1>9 DEF base

(* Above an entity stand entities of every smaller depth.                  *)
LEMMA Depths ==
  ASSUME NEW t, IsSource(t), NEW n \in Entities(t)
  PROVE  /\ Len(Qualified(t, n)) \in Nat \ {0}
         /\ \A i \in 1 .. Len(Qualified(t, n)) :
              \E m \in Entities(t) : Len(Qualified(t, m)) = i
<1>1. PICK N \in Nat : N = Len(t.nodes)
  BY DEF IsSource
<1>2. Nodes(t) = 1 .. N
  BY <1>1 DEF IsSource
<1> DEFINE Deep(k) == \A i \in 1 .. Len(Qualified(t, k)) :
                        \E m \in Entities(t) : Len(Qualified(t, m)) = i
<1> DEFINE good == {k \in 0 .. N : k \in Entities(t) => Deep(k)}
<1>3. ASSUME NEW k \in Entities(t)
      PROVE  /\ k \in Nodes(t) /\ Len(Qualified(t, k)) \in Nat \ {0}
             /\ Len(Qualified(t, k)) = Len(Qualified(t, t.nodes[k].up)) + 1
             /\ Len(Qualified(t, t.nodes[k].up)) \in Nat
  <2>1. k \in Nodes(t)
    BY EntitiesAreNodes
  <2>2. /\ Qualified(t, t.nodes[k].up) \in Seq(NamesIn(t))
        /\ Len(Qualified(t, k)) = Len(Qualified(t, t.nodes[k].up)) + 1
    BY <2>1, QualifiedIs
  <2>3. PICK q \in Seq(NamesIn(t)) : q = Qualified(t, t.nodes[k].up)
    BY <2>2
  <2>4. Len(q) \in Nat
    OBVIOUS
  <2> QED BY <2>1, <2>2, <2>3, <2>4
<1>4. ASSUME NEW k \in 0 .. N, \A j \in 0 .. k - 1 : j \in good, k \in Entities(t)
      PROVE  Deep(k)
  <2>1. PICK u : u = t.nodes[k].up
    OBVIOUS
  <2>2. PICK d \in Nat : d = Len(Qualified(t, u)) /\ Len(Qualified(t, k)) = d + 1
    BY <2>1, <1>3, <1>4
  <2>3. \A i \in 1 .. d : \E m \in Entities(t) : Len(Qualified(t, m)) = i
    <3>1. CASE u = 0
      <4>1. Qualified(t, u) = <<>>
        BY <3>1, QualifiedUnfolds
      <4>2. d = 0
        BY <4>1, <2>2
      <4> QED BY <4>2
    <3>2. CASE u # 0
      <4>1. u \in Entities(t) /\ u < k
        BY <3>2, <2>1, <1>4, EntitiesAreNodes
      <4>2. u \in Nat
        BY <4>1, EntitiesAreNodes
      <4>3. u \in 0 .. k - 1
        BY <4>1, <4>2
      <4>4. Deep(u)
        BY <4>1, <4>3, <1>4
      <4> QED BY <4>4, <2>2
    <3> QED BY <3>1, <3>2
  <2>4. ASSUME NEW i \in 1 .. d + 1 PROVE \E m \in Entities(t) : Len(Qualified(t, m)) = i
    <3>1. CASE i = d + 1
      BY <3>1, <2>2, <1>4
    <3>2. CASE i # d + 1
      <4>1. i \in 1 .. d
        BY <3>2
      <4> QED BY <4>1, <2>3
    <3> QED BY <3>1, <3>2
  <2> QED BY <2>2, <2>4
<1>5. \A k \in 0 .. N : (\A j \in 0 .. k - 1 : j \in good) => k \in good
  <2> HIDE DEF Deep
  <2> QED BY <1>4
<1>6. n \in 0 .. N
  BY <1>2, <1>3
<1>7. n \in good
  <2> HIDE DEF good
  <2> QED BY <1>5, <1>6, Climb
<1>8. Deep(n)
  BY <1>7
<1> QED BY <1>3, <1>8

(* No definition is nested deeper than the graph has nodes.                *)
LEMMA DepthWithinNodes ==
  ASSUME NEW r, IsRepository(r), NEW s, s = StoreParseResults(r), NEW e \in DOMAIN s.entities
  PROVE  Len(s.entities[e].qualified) \in 1 .. Cardinality(GraphNodes(s))
<1>1. PICK f \in DOMAIN r : f = e[1]
  BY EntityRows
<1>2. e[2] \in Entities(r[f]) /\ s.entities[e].qualified = Qualified(r[f], e[2])
  BY <1>1, EntityRows
<1>3. IsSource(r[f])
  BY DEF IsRepository
<1>4. PICK d \in Nat \ {0} : d = Len(s.entities[e].qualified)
  BY <1>2, <1>3, Depths
<1>5. IsFiniteSet(GraphNodes(s))
  BY NodesAre
<1>6. ASSUME NEW i \in 1 .. d PROVE \E v \in GraphNodes(s) : Len(v[2]) = i
  <2>1. PICK m \in Entities(r[f]) : Len(Qualified(r[f], m)) = i
    BY <1>2, <1>3, <1>4, Depths
  <2>2. PICK x \in DOMAIN s.entities : x = <<f, m>>
    BY EntityRows
  <2>3. x[1] = f /\ x[2] = m
    BY <2>2
  <2>4. s.entities[x].qualified = Qualified(r[f], m)
    BY <2>3, EntityRows
  <2>5. NodeId(s, x) \in GraphNodes(s) /\ NodeId(s, x)[2] = Qualified(r[f], m)
    BY <2>4, NodesAre DEF NodeId
  <2> QED BY <2>1, <2>5
<1> DEFINE g == [i \in 1 .. d |-> CHOOSE v \in GraphNodes(s) : Len(v[2]) = i]
<1>7. \A i \in 1 .. d : g[i] \in GraphNodes(s) /\ Len(g[i][2]) = i
  BY <1>6
<1>8. g \in Injection(1 .. d, GraphNodes(s))
  <2>1. g \in [1 .. d -> GraphNodes(s)]
    BY <1>7
  <2>2. \A i, j \in 1 .. d : g[i] = g[j] => i = j
    <3> HIDE DEF g
    <3> QED BY <1>7
  <2> HIDE DEF g
  <2> QED BY <2>1, <2>2 DEF Injection, IsInjective
<1> HIDE DEF g
<1>9. Cardinality(1 .. d) <= Cardinality(GraphNodes(s))
  BY <1>5, <1>8, FS_Injection
<1>10. Cardinality(1 .. d) = d
  BY FS_Interval
<1>11. Cardinality(GraphNodes(s)) \in Nat
  BY <1>5, FS_CardinalityType
<1> QED BY <1>4, <1>9, <1>10, <1>11

(* Every node of a graph lies in a module.                                 *)
LEMMA NodesLieInModules ==
  ASSUME NEW r, IsRepository(r), NEW s, s = StoreParseResults(r), NEW o \in Orders(r, s),
         NEW g, g = BuildGraph(s, o)
  PROVE  Inside(g, r)[Cardinality(g.nodes)] = g.nodes
<1>1. g.nodes = GraphNodes(s)
  BY DEF BuildGraph, GraphNodes
<1>2. PICK N \in Nat : N = Cardinality(g.nodes)
  BY <1>1, NodesAre, FS_CardinalityType
<1>3. PICK in : in = Inside(g, r)
  OBVIOUS
<1>4. in[0] = {Module(f) : f \in DOMAIN r} /\ \A k \in 1 .. N : in[k] = Inner(g, in[k - 1])
  BY <1>2, <1>3, InsideDefined
<1>5. \A k \in 1 .. N : /\ in[k - 1] \subseteq in[k]
                        /\ \A d \in g.edges : d.kind = "contains" /\ d.source \in in[k - 1]
                                              => d.target \in in[k]
                        /\ \A v \in in[k] : v \in in[k - 1] \/ \E d \in g.edges : v = d.target
  BY <1>4 DEF Inner
<1>6. \A k \in 0 .. N : in[k] \subseteq g.nodes
  <2> DEFINE good == {k \in 0 .. N : in[k] \subseteq g.nodes}
  <2>1. ASSUME NEW k \in 0 .. N, \A j \in 0 .. k - 1 : j \in good
        PROVE  in[k] \subseteq g.nodes
    <3>1. CASE k = 0
      BY <3>1, <1>1, <1>4, NodesAre
    <3>2. CASE k # 0
      <4>1. k \in 1 .. N /\ k - 1 \in 0 .. k - 1
        BY <3>2
      <4>2. in[k - 1] \subseteq g.nodes
        BY <4>1, <2>1
      <4>3. \A d \in g.edges : d.target \in g.nodes
        BY EdgesJoinNodes
      <4> QED BY <4>1, <4>2, <4>3, <1>5
    <3> QED BY <3>1, <3>2
  <2>2. \A k \in 0 .. N : (\A j \in 0 .. k - 1 : j \in good) => k \in good
    BY <2>1
  <2>3. \A k \in 0 .. N : k \in good
    <3> HIDE DEF good
    <3> QED BY <2>2, Climb
  <2> QED BY <2>3
<1>7. ASSUME NEW e \in DOMAIN s.entities
      PROVE  \E d \in g.edges :
               /\ d.kind = "contains" /\ d.target = NodeId(s, e)
               /\ d.source = IF s.entities[e].parent # None
                             THEN NodeId(s, s.entities[e].parent) ELSE Module(e[1])
  <2>1. PICK d \in ContainsEdges(s) :
          d = [kind |-> "contains", target |-> NodeId(s, e),
               source |-> IF s.entities[e].parent # None
                          THEN NodeId(s, s.entities[e].parent) ELSE Module(e[1])]
    BY DEF ContainsEdges
  <2>2. d \in g.edges
    BY DEF BuildGraph
  <2>3. /\ d.kind = "contains" /\ d.target = NodeId(s, e)
        /\ d.source = IF s.entities[e].parent # None
                      THEN NodeId(s, s.entities[e].parent) ELSE Module(e[1])
    BY <2>1
  <2> QED BY <2>2, <2>3
<1>8. ASSUME NEW e \in DOMAIN s.entities, s.entities[e].parent # None
      PROVE  /\ s.entities[e].parent \in DOMAIN s.entities
             /\ Len(s.entities[s.entities[e].parent].qualified) = Len(s.entities[e].qualified) - 1
  <2>1. PICK f \in DOMAIN r : f = e[1]
    BY EntityRows
  <2>2. PICK n \in Entities(r[f]) : n = e[2]
    BY <2>1, EntityRows
  <2>3. s.entities[e].qualified = Qualified(r[f], n) /\ IsSource(r[f]) /\ n \in Nodes(r[f])
    BY <2>1, <2>2, EntityRows
  <2>4. PICK q : q = Front(Qualified(r[f], n))
    OBVIOUS
  <2>5. s.entities[e].parent = Row(f, EntityId(r[f], q))
    <3>1. s.entities[e].parent =
            IF EntityId(r[f], Qualified(r[f], n)) = n THEN Row(f, EntityId(r[f], q)) ELSE None
      BY <2>1, <2>2, <2>4, EntityRows
    <3> QED BY <3>1, <1>8
  <2>6. /\ Row(f, EntityId(r[f], q)) \in DOMAIN s.entities
        /\ s.entities[Row(f, EntityId(r[f], q))].qualified = q
    BY <2>5, <1>8, RowsFound
  <2>7. Len(q) = Len(Qualified(r[f], n)) - 1
    <3>1. /\ q = Qualified(r[f], r[f].nodes[n].up) /\ q \in Seq(NamesIn(r[f]))
          /\ Len(Qualified(r[f], n)) = Len(Qualified(r[f], r[f].nodes[n].up)) + 1
      BY <2>3, <2>4, QualifiedIs
    <3>2. PICK d \in Nat : d = Len(q)
      BY <3>1
    <3> QED BY <3>1, <3>2
  <2> QED BY <2>3, <2>5, <2>6, <2>7
<1>9. \A e \in DOMAIN s.entities : Len(s.entities[e].qualified) \in 1 .. N
  BY <1>1, <1>2, DepthWithinNodes
<1>10. \A k \in 0 .. N : /\ \A f \in DOMAIN r : Module(f) \in in[k]
                         /\ \A e \in DOMAIN s.entities :
                              Len(s.entities[e].qualified) <= k => NodeId(s, e) \in in[k]
  <2> DEFINE Has(k) == /\ \A f \in DOMAIN r : Module(f) \in in[k]
                       /\ \A e \in DOMAIN s.entities :
                            Len(s.entities[e].qualified) <= k => NodeId(s, e) \in in[k]
  <2> DEFINE good == {k \in 0 .. N : Has(k)}
  <2>1. ASSUME NEW k \in 0 .. N, \A j \in 0 .. k - 1 : j \in good
        PROVE  Has(k)
    <3>1. CASE k = 0
      <4>1. \A f \in DOMAIN r : Module(f) \in in[k]
        BY <3>1, <1>4
      <4>2. \A e \in DOMAIN s.entities : ~ (Len(s.entities[e].qualified) <= k)
        <5> SUFFICES ASSUME NEW e \in DOMAIN s.entities PROVE ~ (Len(s.entities[e].qualified) <= k)
          OBVIOUS
        <5>1. PICK d \in 1 .. N : d = Len(s.entities[e].qualified)
          BY <1>9
        <5> QED BY <5>1, <3>1
      <4> QED BY <4>1, <4>2
    <3>2. CASE k # 0
      <4>1. k \in 1 .. N /\ k - 1 \in 0 .. k - 1 /\ k - 1 \in good
        BY <3>2, <2>1
      <4>2. Has(k - 1)
        BY <4>1
      <4>3. \A f \in DOMAIN r : Module(f) \in in[k] /\ Module(f) \in in[k - 1]
        BY <4>1, <4>2, <1>5
      <4>4. ASSUME NEW e \in DOMAIN s.entities, Len(s.entities[e].qualified) <= k
            PROVE  NodeId(s, e) \in in[k]
        <5>1. PICK d \in g.edges :
               /\ d.kind = "contains" /\ d.target = NodeId(s, e)
               /\ d.source = IF s.entities[e].parent # None
                             THEN NodeId(s, s.entities[e].parent) ELSE Module(e[1])
          BY <1>7
        <5>2. d.source \in in[k - 1]
          <6>1. CASE s.entities[e].parent # None
            <7>1. PICK p \in DOMAIN s.entities :
                    p = s.entities[e].parent
                    /\ Len(s.entities[p].qualified) = Len(s.entities[e].qualified) - 1
              BY <6>1, <1>8
            <7>2. PICK n \in 1 .. N : n = Len(s.entities[e].qualified)
              BY <1>9
            <7>3. Len(s.entities[p].qualified) <= k - 1
              BY <7>1, <7>2, <4>4
            <7>4. NodeId(s, p) \in in[k - 1]
              BY <7>3, <4>2
            <7> QED BY <7>1, <7>4, <5>1, <6>1
          <6>2. CASE s.entities[e].parent = None
            <7>1. e[1] \in DOMAIN r
              BY EntityRows
            <7> QED BY <7>1, <5>1, <6>2, <4>3
          <6> QED BY <6>1, <6>2
        <5> QED BY <5>1, <5>2, <4>1, <1>5
      <4> QED BY <4>3, <4>4
    <3> QED BY <3>1, <3>2
  <2>2. \A k \in 0 .. N : (\A j \in 0 .. k - 1 : j \in good) => k \in good
    <3> HIDE DEF Has
    <3> QED BY <2>1
  <2>3. \A k \in 0 .. N : k \in good
    <3> HIDE DEF good
    <3> QED BY <2>2, Climb
  <2> QED BY <2>3
<1>11. N \in 0 .. N
  OBVIOUS
<1>12. ASSUME NEW v \in GraphNodes(s) PROVE v \in in[N]
  <2>1. CASE \E f \in DOMAIN r : v = Module(f)
    BY <2>1, <1>10, <1>11
  <2>2. CASE \E e \in DOMAIN s.entities : v = NodeId(s, e)
    <3>1. PICK e \in DOMAIN s.entities : v = NodeId(s, e)
      BY <2>2
    <3>2. PICK d \in 1 .. N : d = Len(s.entities[e].qualified)
      BY <1>9
    <3>3. d <= N
      OBVIOUS
    <3> QED BY <3>1, <3>2, <3>3, <1>10, <1>11
  <2> QED BY <2>1, <2>2, NodesAre
<1> QED BY <1>1, <1>2, <1>3, <1>6, <1>11, <1>12

-----------------------------------------------------------------------------
(* Where names are distinct, the order of the rows does not matter.        *)

(* DistinctStems and DistinctNames, of any repository.                     *)
StemsDiffer(r) == \A f, g \in DOMAIN r : r[f].stem = r[g].stem => f = g
NamesDiffer(r) == \A f \in DOMAIN r : Cardinality(Entities(r[f])) = Cardinality(LocalNames(r[f]))

(* As many names as entities: no two entities of a file share one.         *)
LEMMA DistinctInFile ==
  ASSUME NEW t, IsSource(t), Cardinality(Entities(t)) = Cardinality(LocalNames(t))
  PROVE  \A a, b \in Entities(t) : t.nodes[a].name = t.nodes[b].name => a = b
<1> DEFINE h == [n \in Entities(t) |-> t.nodes[n].name]
<1>1. h \in [Entities(t) -> LocalNames(t)] /\ \A x \in LocalNames(t) : \E n \in Entities(t) : h[n] = x
  BY DEF LocalNames
<1>2. h \in Surjection(Entities(t), LocalNames(t))
  <2> HIDE DEF h
  <2> QED BY <1>1 DEF Surjection
<1>3. h \in Injection(Entities(t), LocalNames(t))
  <2> HIDE DEF h
  <2> QED BY <1>2, EntitiesFinite, FS_SurjSameCardinalityImpliesInj
<1>4. \A a, b \in Entities(t) : h[a] = h[b] => a = b
  <2> HIDE DEF h
  <2> QED BY <1>3 DEF Injection, IsInjective
<1> QED BY <1>4

(* The same of the rows of a repository.                                   *)
LEMMA DistinctRows ==
  ASSUME NEW r, IsRepository(r), NEW s, s = StoreParseResults(r), NamesDiffer(r)
  PROVE  \A a, b \in DOMAIN s.entities :
           a[1] = b[1] /\ s.entities[a].name = s.entities[b].name => a = b
<1> SUFFICES ASSUME NEW a \in DOMAIN s.entities, NEW b \in DOMAIN s.entities,
                    a[1] = b[1], s.entities[a].name = s.entities[b].name
             PROVE  a = b
  OBVIOUS
<1>1. PICK f \in DOMAIN r : f = a[1] /\ f = b[1]
  BY EntityRows
<1>2. a = <<f, a[2]>> /\ b = <<f, b[2]>> /\ a[2] \in Entities(r[f]) /\ b[2] \in Entities(r[f])
  BY <1>1, EntityRows
<1>3. r[f].nodes[a[2]].name = r[f].nodes[b[2]].name
  BY <1>1, EntityRows
<1>4. IsSource(r[f]) /\ Cardinality(Entities(r[f])) = Cardinality(LocalNames(r[f]))
  BY DEF IsRepository, NamesDiffer
<1>5. a[2] = b[2]
  BY <1>2, <1>3, <1>4, DistinctInFile
<1> QED BY <1>2, <1>5

(* With distinct stems and names, what a name leads to does not depend on  *)
(* the order of the rows.                                                  *)
LEMMA ResolveAlike ==
  ASSUME NEW r, IsRepository(r), NEW s, s = StoreParseResults(r),
         StemsDiffer(r), NamesDiffer(r), NEW o \in Orders(r, s), NEW p \in Orders(r, s)
  PROVE  /\ \A stem : ImportTarget(s, o, stem) = ImportTarget(s, p, stem)
         /\ \A f, c : Resolve(s, o, f, c) = Resolve(s, p, f, c)
<1>1. ASSUME NEW stem PROVE ImportTarget(s, o, stem) = ImportTarget(s, p, stem)
  <2>1. PICK a : a = ImportTarget(s, o, stem)
    OBVIOUS
  <2>2. PICK b : b = ImportTarget(s, p, stem)
    OBVIOUS
  <2>3. /\ a # None => a \in DOMAIN r /\ r[a].stem = stem
        /\ b # None => b \in DOMAIN r /\ r[b].stem = stem
    BY <2>1, <2>2, ImportTargetIs
  <2>4. a # None <=> b # None
    BY <2>1, <2>2, <2>3, ImportTargetIs
  <2> QED BY <2>1, <2>2, <2>3, <2>4 DEF StemsDiffer
<1>2. ASSUME NEW f, NEW x PROVE FindInFile(s, o, f, x) = FindInFile(s, p, f, x)
  <2>1. PICK a : a = FindInFile(s, o, f, x)
    OBVIOUS
  <2>2. PICK b : b = FindInFile(s, p, f, x)
    OBVIOUS
  <2>3. a # None => a \in DOMAIN s.entities /\ a[1] = f /\ s.entities[a].name = x
    BY <2>1, FindInFileIs
  <2>4. b # None => b \in DOMAIN s.entities /\ b[1] = f /\ s.entities[b].name = x
    BY <2>2, FindInFileIs
  <2>5. a # None => b # None
    BY <2>2, <2>3, FindInFileIs
  <2>6. b # None => a # None
    BY <2>1, <2>4, FindInFileIs
  <2> QED BY <2>1, <2>2, <2>3, <2>4, <2>5, <2>6, DistinctRows
<1>3. ASSUME NEW f, NEW x PROVE ViaImport(s, o, f, x) = ViaImport(s, p, f, x)
  <2> DEFINE bound == {i \in s.imports : i.file = f /\ i.as = x}
  <2> DEFINE it == [i \in 1 .. Cardinality(bound) |->
                      CHOOSE e \in bound : Cardinality({d \in bound : d.at < e.at}) = i - 1]
  <2>1. /\ ViaImport(s, o, f, x) = FirstFound([i \in DOMAIN it |->
                        FindInFile(s, o, ImportTarget(s, o, it[i].module), x)])
        /\ ViaImport(s, p, f, x) = FirstFound([i \in DOMAIN it |->
                        FindInFile(s, p, ImportTarget(s, p, it[i].module), x)])
    BY DEF ViaImport, Sorted
  <2> HIDE DEF it
  <2>2. \A i \in DOMAIN it : FindInFile(s, o, ImportTarget(s, o, it[i].module), x)
                               = FindInFile(s, p, ImportTarget(s, p, it[i].module), x)
    BY <1>1, <1>2
  <2>3. [i \in DOMAIN it |-> FindInFile(s, o, ImportTarget(s, o, it[i].module), x)]
          = [i \in DOMAIN it |-> FindInFile(s, p, ImportTarget(s, p, it[i].module), x)]
    BY <2>2
  <2> QED BY <2>1, <2>3
<1>4. ASSUME NEW f, NEW c PROVE Resolve(s, o, f, c) = Resolve(s, p, f, c)
  BY <1>1, <1>2, <1>3 DEF Resolve
<1> QED BY <1>1, <1>4

(* Nor do the edges.                                                       *)
LEMMA EdgesAlike ==
  ASSUME NEW r, IsRepository(r), NEW s, s = StoreParseResults(r),
         StemsDiffer(r), NamesDiffer(r), NEW o \in Orders(r, s), NEW p \in Orders(r, s)
  PROVE  CallEdges(s, o) \subseteq CallEdges(s, p) /\ ImportEdges(s, o) \subseteq ImportEdges(s, p)
<1>1. ASSUME NEW d \in CallEdges(s, o) PROVE d \in CallEdges(s, p)
  <2>1. PICK c \in s.calls :
          /\ ~c.dynamic /\ c.caller # None
          /\ (IF c.callee # None THEN c.callee ELSE Resolve(s, o, c.caller[1], c)) # None
          /\ NodeId(s, c.caller) # NodeId(s, IF c.callee # None THEN c.callee
                                             ELSE Resolve(s, o, c.caller[1], c))
          /\ d = [kind |-> "call", source |-> NodeId(s, c.caller), site |-> c.site,
                  target |-> NodeId(s, IF c.callee # None THEN c.callee
                                       ELSE Resolve(s, o, c.caller[1], c))]
    BY DEF CallEdges
  <2>2. Resolve(s, o, c.caller[1], c) = Resolve(s, p, c.caller[1], c)
    BY ResolveAlike
  <2> QED BY <2>1, <2>2 DEF CallEdges
<1>2. ASSUME NEW d \in ImportEdges(s, o) PROVE d \in ImportEdges(s, p)
  <2>1. PICK i \in s.imports :
          /\ ImportTarget(s, o, i.module) \notin {None, i.file}
          /\ d = [kind |-> "imports", source |-> Module(i.file),
                  target |-> Module(ImportTarget(s, o, i.module))]
    BY DEF ImportEdges
  <2>2. ImportTarget(s, o, i.module) = ImportTarget(s, p, i.module)
    BY ResolveAlike
  <2> QED BY <2>1, <2>2 DEF ImportEdges
<1> QED BY <1>1, <1>2

(* The parts of _risk_scores, named.                                       *)
LastRow(s, o, v) == o.entities[SelectLastInSeq(o.entities, LAMBDA e : NodeId(s, e) = v)]
Degree(C, v) == Cardinality({c \in C : c.target = v}) + Cardinality({c \in C : c.source = v})
Linked(C) == {c.target : c \in C} \union {c.source : c \in C}

(* Where names are distinct a node has one row.                            *)
LEMMA LastRowIs ==
  ASSUME NEW r, IsRepository(r), NEW s, s = StoreParseResults(r), NamesDiffer(r),
         NEW o \in Orders(r, s), NEW e \in DOMAIN s.entities
  PROVE  LastRow(s, o, NodeId(s, e)) = e
<1> DEFINE v == NodeId(s, e)
<1>1. Lists(o.entities, DOMAIN s.entities)
  BY OrdersList
<1>2. PICK n \in Nat : n = Len(o.entities)
  BY <1>1 DEF Lists
<1> DEFINE I == {i \in 1 .. n : NodeId(s, o.entities[i]) = v}
<1>3. LastRow(s, o, v) = o.entities[IF I # {} THEN Max(I) ELSE 0]
  BY <1>2 DEF LastRow, SelectLastInSeq
<1>4. PICK i \in 1 .. n : o.entities[i] = e
  BY <1>1, <1>2 DEF Lists
<1>5. i \in I /\ I \subseteq Nat /\ \A m \in I : m <= n
  BY <1>4
<1>6. Max(I) \in I
  <2> HIDE DEF I
  <2> QED BY <1>5, MaxInSet
<1>7. PICK k \in 1 .. n : k = Max(I) /\ NodeId(s, o.entities[k]) = v
  BY <1>6
<1>8. PICK d \in DOMAIN s.entities : d = o.entities[k]
  BY <1>1, <1>2 DEF Lists
<1>9. d[1] = e[1] /\ s.entities[d].qualified = s.entities[e].qualified
  BY <1>7, <1>8 DEF NodeId
<1>10. s.entities[d].name = s.entities[e].name
  BY <1>9, EntityRows
<1>11. d = e
  BY <1>9, <1>10, DistinctRows
<1> HIDE DEF I
<1> QED BY <1>3, <1>5, <1>7, <1>8, <1>11

(* Nor do the risk scores,                                                 *)
LEMMA ScoresAlike ==
  ASSUME NEW r, IsRepository(r), NEW s, s = StoreParseResults(r), NamesDiffer(r),
         NEW o \in Orders(r, s), NEW p \in Orders(r, s)
  PROVE  RiskScores(s, o, CallEdges(s, o)) = RiskScores(s, p, CallEdges(s, o))
<1> DEFINE C == CallEdges(s, o)
<1>1. /\ RiskScores(s, o, C) = [v \in Linked(C) |-> s.entities[LastRow(s, o, v)].complexity * (Degree(C, v) + 1)]
      /\ RiskScores(s, p, C) = [v \in Linked(C) |-> s.entities[LastRow(s, p, v)].complexity * (Degree(C, v) + 1)]
  BY DEF RiskScores, LastRow, Degree, Linked
<1>2. ASSUME NEW v \in Linked(C) PROVE LastRow(s, o, v) = LastRow(s, p, v)
  <2>1. PICK d \in C : v = d.target \/ v = d.source
    BY DEF Linked
  <2>2. \E e \in DOMAIN s.entities : v = NodeId(s, e)
    BY <2>1, CallEdgesAre
  <2>3. PICK e \in DOMAIN s.entities : v = NodeId(s, e)
    BY <2>2
  <2> QED BY <2>3, LastRowIs
<1> HIDE DEF C
<1>3. RiskScores(s, o, C) = RiskScores(s, p, C)
  BY <1>1, <1>2
<1> QED BY <1>3 DEF C

(* and so neither does the graph.                                          *)
LEMMA GraphsAlike ==
  ASSUME NEW r, IsRepository(r), NEW s, s = StoreParseResults(r),
         StemsDiffer(r), NamesDiffer(r), NEW o \in Orders(r, s), NEW p \in Orders(r, s)
  PROVE  BuildGraph(s, o) = BuildGraph(s, p)
<1>1. CallEdges(s, o) = CallEdges(s, p) /\ ImportEdges(s, o) = ImportEdges(s, p)
  BY EdgesAlike
<1>2. RiskScores(s, o, CallEdges(s, o)) = RiskScores(s, p, CallEdges(s, p))
  BY <1>1, ScoresAlike
<1> QED BY <1>1, <1>2 DEF BuildGraph

(* module.name(...) leads to the module's entity of that name.             *)
LEMMA DottedCallsLead ==
  ASSUME NEW r, IsRepository(r), NEW s, s = StoreParseResults(r), StemsDiffer(r),
         NEW o \in Orders(r, s), NEW c \in s.calls, NEW g \in DOMAIN r,
         ~c.dynamic, c.caller # None, c.on = r[g].stem, c.site[1] # g,
         c.name \notin LocalNames(r[c.site[1]]), c.name \in LocalNames(r[g])
  PROVE  \E e \in BuildGraph(s, o).edges :
           e.kind = "call" /\ e.site = c.site /\ e.target[1] = g /\ Last(e.target[2]) = c.name
<1>1. PICK f \in DOMAIN r : f = c.site[1]
  BY CallsRefer
<1>2. c.caller \in DOMAIN s.entities /\ c.caller[1] = f
  BY <1>1, CallsRefer
<1>3. c.callee = None
  BY CallsRefer
<1>4. FindInFile(s, o, f, c.name) = None
  <2> SUFFICES ASSUME FindInFile(s, o, f, c.name) # None PROVE FALSE
    OBVIOUS
  <2>1. PICK e \in DOMAIN s.entities : e[1] = f /\ s.entities[e].name = c.name
    BY FindInFileIs
  <2>2. e[2] \in Entities(r[f]) /\ r[f].nodes[e[2]].name = c.name
    BY <2>1, EntityRows
  <2>3. c.name \in LocalNames(r[f])
    BY <2>2 DEF LocalNames
  <2> QED BY <2>3, <1>1
<1>5. c.on # None /\ ImportTarget(s, o, c.on) = g
  <2>1. c.on # None
    BY DEF IsRepository
  <2>2. ImportTarget(s, o, c.on) # None
    BY ImportTargetIs
  <2>3. ImportTarget(s, o, c.on) \in DOMAIN r /\ r[ImportTarget(s, o, c.on)].stem = r[g].stem
    BY <2>2, ImportTargetIs
  <2> QED BY <2>1, <2>3 DEF StemsDiffer
<1>6. PICK e : e = FindInFile(s, o, g, c.name)
  OBVIOUS
<1>7. e # None
  <2>1. PICK n \in Entities(r[g]) : r[g].nodes[n].name = c.name
    BY DEF LocalNames
  <2>2. PICK x \in DOMAIN s.entities : x = <<g, n>>
    BY EntityRows
  <2>3. x[1] = g /\ x[2] = n
    BY <2>2
  <2>4. s.entities[x].name = c.name
    BY <2>1, <2>3, EntityRows
  <2> QED BY <1>6, <2>3, <2>4, FindInFileIs
<1>8. e \in DOMAIN s.entities /\ e[1] = g /\ s.entities[e].name = c.name
  BY <1>6, <1>7, FindInFileIs
<1>9. Resolve(s, o, c.caller[1], c) = e
  <2>1. Resolve(s, o, f, c) = FindInFile(s, o, ImportTarget(s, o, c.on), c.name)
    BY <1>4, <1>5, <1>6, <1>7, ResolveIs
  <2> QED BY <2>1, <1>2, <1>5, <1>6
<1>10. NodeId(s, c.caller) # NodeId(s, e)
  <2>1. NodeId(s, c.caller)[1] = f /\ NodeId(s, e)[1] = g
    BY <1>2, <1>8 DEF NodeId
  <2> QED BY <2>1, <1>1
<1> DEFINE d == [kind |-> "call", source |-> NodeId(s, c.caller), site |-> c.site,
                 target |-> NodeId(s, e)]
<1>11. d \in CallEdges(s, o)
  <2>1. (IF c.callee # None THEN c.callee ELSE Resolve(s, o, c.caller[1], c)) = e
    BY <1>3, <1>9
  <2> QED BY <2>1, <1>7, <1>10 DEF CallEdges
<1>12. d \in BuildGraph(s, o).edges
  BY <1>11 DEF BuildGraph
<1>13. d.kind = "call" /\ d.site = c.site /\ d.target = <<g, s.entities[e].qualified>>
  BY <1>8 DEF NodeId
<1>14. d.target[1] = g /\ Last(d.target[2]) = c.name
  <2>1. s.entities[e].name = Last(s.entities[e].qualified)
    BY <1>8, EntityRows
  <2> HIDE DEF d
  <2>2. d.target[1] = g /\ d.target[2] = s.entities[e].qualified
    BY <1>13
  <2> QED BY <2>1, <2>2, <1>8
<1> HIDE DEF d
<1> QED BY <1>12, <1>13, <1>14

-----------------------------------------------------------------------------
(* Rings of imports.                                                       *)

(* w leads from f to g in n steps of D.                                    *)
Walk(D, w, n, f, g) ==
  /\ w[0] = f /\ w[n] = g
  /\ \A i \in 0 .. n - 1 : <<w[i], w[i + 1]>> \in D

(* The next place around a ring of m.                                      *)
LEMMA AroundTheRing ==
  ASSUME NEW m \in Nat, m >= 2, NEW i \in 1 .. m
  PROVE  (i % m) + 1 = IF i = m THEN 1 ELSE i + 1
<1>1. CASE i = m
  <2>1. m % m = 0
    BY Z3
  <2> QED BY <1>1, <2>1
<1>2. CASE i # m
  <2>1. i \in Nat /\ i < m
    BY <1>2
  <2>2. i % m = i
    BY <2>1, Z3
  <2> QED BY <1>2, <2>2
<1> QED BY <1>1, <1>2

(* Through everything on a closed walk goes a simple cycle: the shortest   *)
(* closed walk has no repetition.                                          *)
LEMMA CycleThrough ==
  ASSUME NEW D, \A p \in D : p[1] # p[2], NEW n \in Nat \ {0}, NEW w, NEW f, Walk(D, w, n, f, f)
  PROVE  \E C \in ModuleCycles(D) : f \in C
<1> DEFINE lengths == {m \in Nat \ {0} : \E v : Walk(D, v, m, f, f)}
<1>1. PICK m \in lengths : \A k \in lengths : m <= k
  <2>1. lengths \subseteq Nat /\ n \in lengths
    OBVIOUS
  <2> HIDE DEF lengths
  <2> QED BY <2>1, Least
<1>2. m \in Nat \ {0}
  OBVIOUS
<1>3. PICK v : Walk(D, v, m, f, f)
  OBVIOUS
<1>4. \A k \in Nat \ {0} : (\E u : Walk(D, u, k, f, f)) => m <= k
  BY <1>1
<1> HIDE DEF lengths
<1>5. /\ v[0] = f /\ v[m] = f
      /\ \A i \in 0 .. m - 1 : <<v[i], v[i + 1]>> \in D
  BY <1>3 DEF Walk
<1>6. m >= 2
  <2>1. 0 \in 0 .. m - 1 /\ 0 + 1 = 1
    BY <1>2
  <2>2. <<v[0], v[1]>> \in D
    BY <2>1, <1>5
  <2>3. v[0] # v[1]
    <3>1. PICK p \in D : p = <<v[0], v[1]>>
      BY <2>2
    <3>2. p[1] = v[0] /\ p[2] = v[1]
      BY <3>1
    <3> QED BY <3>2
  <2>4. m # 1
    BY <2>3, <1>5
  <2> QED BY <2>4, <1>2
<1>7. ASSUME NEW i \in 0 .. m - 1, NEW j \in 0 .. m - 1, i < j, v[i] = v[j]
      PROVE  FALSE
  <2>1. PICK k \in Nat \ {0} : k = m - (j - i)
    BY <1>2, <1>7
  <2>2. k < m /\ i < k
    BY <1>2, <1>7, <2>1
  <2> DEFINE u == [x \in 0 .. k |-> IF x <= i THEN v[x] ELSE v[x + (j - i)]]
  <2>3. u[0] = f /\ u[k] = f
    <3>1. u[0] = v[0]
      BY <1>7, <2>1
    <3>2. k \in 0 .. k /\ ~ (k <= i) /\ k + (j - i) = m
      BY <2>1, <2>2, <1>2, <1>7
    <3>3. u[k] = v[k + (j - i)]
      BY <3>2
    <3> HIDE DEF u
    <3> QED BY <3>1, <3>2, <3>3, <1>5
  <2>4. ASSUME NEW x \in 0 .. k - 1 PROVE <<u[x], u[x + 1]>> \in D
    <3>1. x \in 0 .. k /\ x + 1 \in 0 .. k /\ x \in Nat
      BY <2>1
    <3>2. CASE x < i
      <4>1. x <= i /\ x + 1 <= i /\ x \in 0 .. m - 1
        BY <3>1, <3>2, <1>2
      <4>2. u[x] = v[x] /\ u[x + 1] = v[x + 1]
        BY <4>1, <3>1
      <4> HIDE DEF u
      <4> QED BY <4>1, <4>2, <1>5
    <3>3. CASE x = i
      <4>1. x <= i /\ ~ (x + 1 <= i) /\ (x + 1) + (j - i) = j + 1
        BY <3>1, <3>3, <1>7
      <4>2. u[x] = v[i] /\ u[x + 1] = v[j + 1]
        BY <4>1, <3>1, <3>3
      <4> HIDE DEF u
      <4> QED BY <4>2, <1>5, <1>7
    <3>4. CASE x > i
      <4>1. ~ (x <= i) /\ ~ (x + 1 <= i) /\ (x + 1) + (j - i) = (x + (j - i)) + 1
            /\ x + (j - i) \in 0 .. m - 1
        BY <3>1, <3>4, <1>7, <2>1, <1>2
      <4>2. u[x] = v[x + (j - i)] /\ u[x + 1] = v[(x + (j - i)) + 1]
        BY <4>1, <3>1
      <4> HIDE DEF u
      <4> QED BY <4>1, <4>2, <1>5
    <3> QED BY <3>1, <3>2, <3>3, <3>4, <1>7
  <2>5. Walk(D, u, k, f, f)
    <3> HIDE DEF u
    <3> QED BY <2>3, <2>4 DEF Walk
  <2> HIDE DEF u
  <2>6. m <= k
    BY <2>5, <1>4
  <2> QED BY <2>2, <2>6, <1>2
<1>8. \A i, j \in 0 .. m - 1 : v[i] = v[j] => i = j
  <2> SUFFICES ASSUME NEW i \in 0 .. m - 1, NEW j \in 0 .. m - 1, v[i] = v[j], i # j PROVE FALSE
    OBVIOUS
  <2>1. i < j \/ j < i
    BY <1>2
  <2> QED BY <2>1, <1>7
<1> DEFINE C == {v[i] : i \in 0 .. m - 1}
<1> DEFINE s == [i \in 1 .. m |-> v[i - 1]]
<1>9. s \in [1 .. m -> C] /\ \A i \in 1 .. m : s[i] = v[i - 1]
  <2>1. \A i \in 1 .. m : i - 1 \in 0 .. m - 1
    BY <1>2
  <2> QED BY <2>1
<1>10. \A c \in C : \E i \in 1 .. m : s[i] = c
  <2> SUFFICES ASSUME NEW i \in 0 .. m - 1 PROVE \E k \in 1 .. m : s[k] = v[i]
    OBVIOUS
  <2>1. i + 1 \in 1 .. m /\ (i + 1) - 1 = i
    BY <1>2
  <2>2. s[i + 1] = v[(i + 1) - 1]
    BY <2>1, <1>9
  <2> HIDE DEF s
  <2> QED BY <2>1, <2>2
<1>11. \A i, j \in 1 .. m : s[i] = s[j] => i = j
  <2> SUFFICES ASSUME NEW i \in 1 .. m, NEW j \in 1 .. m, s[i] = s[j] PROVE i = j
    OBVIOUS
  <2>1. i - 1 \in 0 .. m - 1 /\ j - 1 \in 0 .. m - 1 /\ v[i - 1] = v[j - 1]
    BY <1>2, <1>9
  <2>2. i - 1 = j - 1
    BY <2>1, <1>8
  <2> QED BY <2>2
<1>12. IsFiniteSet(C) /\ Cardinality(C) = m
  <2>1. IsFiniteSet(1 .. m) /\ Cardinality(1 .. m) = m
    BY <1>2, FS_Interval
  <2> HIDE DEF s, C
  <2>2. s \in Bijection(1 .. m, C)
    BY <1>9, <1>10, <1>11 DEF Bijection, Injection, IsInjective, Surjection
  <2>3. ExistsBijection(1 .. m, C)
    BY <2>2 DEF ExistsBijection
  <2> QED BY <2>1, <2>3, FS_Bijection
<1>13. s \in SetToSeqs(C)
  <2> HIDE DEF s, C
  <2> QED BY <1>9, <1>11, <1>12 DEF SetToSeqs
<1>14. Len(s) = m /\ DOMAIN s = 1 .. m
  <2> HIDE DEF C
  <2> QED BY <1>2
<1>15. ASSUME NEW i \in 1 .. m PROVE <<s[i], s[(i % m) + 1]>> \in D
  <2>1. i - 1 \in 0 .. m - 1 /\ (i - 1) + 1 = i /\ i \in Nat
    BY <1>2
  <2>2. <<v[i - 1], v[i]>> \in D
    BY <2>1, <1>5
  <2>3. s[i] = v[i - 1]
    BY <1>9
  <2>4. s[(i % m) + 1] = v[i]
    <3>1. CASE i = m
      <4>1. (i % m) + 1 = 1
        BY <3>1, <1>2, <1>6, AroundTheRing
      <4>2. 1 \in 1 .. m /\ 1 - 1 = 0
        BY <1>2
      <4>3. s[1] = v[0]
        BY <4>2, <1>9
      <4> HIDE DEF s
      <4> QED BY <4>1, <4>3, <3>1, <1>5
    <3>2. CASE i # m
      <4>1. (i % m) + 1 = i + 1
        BY <3>2, <1>2, <1>6, AroundTheRing
      <4>2. i + 1 \in 1 .. m /\ (i + 1) - 1 = i
        BY <3>2, <1>2
      <4>3. s[i + 1] = v[(i + 1) - 1]
        BY <4>2, <1>9
      <4> HIDE DEF s
      <4> QED BY <4>1, <4>2, <4>3
    <3> QED BY <3>1, <3>2
  <2> HIDE DEF s
  <2> QED BY <2>2, <2>3, <2>4
<1>16. C \in SUBSET {p[1] : p \in D}
  <2> SUFFICES ASSUME NEW i \in 0 .. m - 1 PROVE v[i] \in {p[1] : p \in D}
    OBVIOUS
  <2>1. PICK p \in D : p = <<v[i], v[i + 1]>>
    BY <1>5
  <2>2. p[1] = v[i]
    BY <2>1
  <2> QED BY <2>2
<1>17. f \in C
  <2>1. 0 \in 0 .. m - 1
    BY <1>2
  <2>2. v[0] \in C
    BY <2>1
  <2> HIDE DEF C
  <2> QED BY <2>2, <1>5
<1> HIDE DEF C, s
<1>18. C \in ModuleCycles(D)
  <2>1. Cardinality(C) >= 2
    BY <1>6, <1>12
  <2>2. \A i \in DOMAIN s : <<s[i], s[(i % Len(s)) + 1]>> \in D
    BY <1>14, <1>15
  <2> QED BY <2>1, <2>2, <1>13, <1>16 DEF ModuleCycles
<1> QED BY <1>17, <1>18

(* The modules a module imports, and those it imports in k steps: the      *)
(* recursive function of CyclesAreReported, named.                         *)
Direct(s, r, f) ==
  {g \in DOMAIN r : g # f /\ \E i \in s.imports : i.file = f /\ i.module = r[g].stem}

Further(s, r, S) == S \union UNION {Direct(s, r, g) : g \in S}

Reach(s, r) ==
  CHOOSE reach : reach = [k \in 1 .. Len(r) |-> [f \in DOMAIN r |->
    IF k = 1 THEN Direct(s, r, f) ELSE Further(s, r, reach[k - 1][f])]]

(* It is defined, step by step.                                            *)
LEMMA ReachDefined ==
  ASSUME NEW s, NEW r, NEW N \in Nat, N = Len(r)
  PROVE  \A k \in 1 .. N : \A f \in DOMAIN r :
           Reach(s, r)[k][f] = IF k = 1 THEN Direct(s, r, f) ELSE Further(s, r, Reach(s, r)[k - 1][f])
<1> DEFINE Upto(k, h) == h = [m \in 1 .. k |-> [f \in DOMAIN r |->
                           IF m = 1 THEN Direct(s, r, f) ELSE Further(s, r, h[m - 1][f])]]
<1> DEFINE some == {k \in 0 .. N : \E h : Upto(k, h)}
<1>3. \A k \in 0 .. N : (\A j \in 0 .. k - 1 : j \in some) => k \in some
  <2> SUFFICES ASSUME NEW k \in 0 .. N, \A j \in 0 .. k - 1 : j \in some
               PROVE  \E h : Upto(k, h)
    OBVIOUS
  <2>1. CASE k = 0
    <3> DEFINE h == [m \in 1 .. 0 |-> {}]
    <3>1. \A m \in 1 .. k : h[m] = [f \in DOMAIN r |->
                           IF m = 1 THEN Direct(s, r, f) ELSE Further(s, r, h[m - 1][f])]
      BY <2>1
    <3>2. h = [m \in 1 .. k |-> h[m]]
      BY <2>1
    <3>3. Upto(k, h)
      <4> HIDE DEF h
      <4> QED BY <3>1, <3>2
    <3> HIDE DEF h
    <3> QED BY <3>3
  <2>2. CASE k # 0
    <3>1. k - 1 \in 0 .. k - 1
      BY <2>2
    <3>2. PICK p : Upto(k - 1, p)
      BY <3>1
    <3> DEFINE h == [m \in 1 .. k |-> IF m = k
                       THEN [f \in DOMAIN r |-> IF k = 1 THEN Direct(s, r, f)
                                                ELSE Further(s, r, p[k - 1][f])]
                       ELSE p[m]]
    <3>3. \A m \in 1 .. k - 1 : h[m] = p[m]
      BY <2>2
    <3>4. \A m \in 1 .. k : m # 1 => h[m - 1] = p[m - 1]
      <4> SUFFICES ASSUME NEW m \in 1 .. k, m # 1 PROVE h[m - 1] = p[m - 1]
        OBVIOUS
      <4>1. m - 1 \in 1 .. k - 1
        OBVIOUS
      <4> HIDE DEF h
      <4> QED BY <4>1, <3>3
    <3>5. \A m \in 1 .. k : h[m] = [f \in DOMAIN r |->
                           IF m = 1 THEN Direct(s, r, f) ELSE Further(s, r, h[m - 1][f])]
      <4> SUFFICES ASSUME NEW m \in 1 .. k
                   PROVE  h[m] = [f \in DOMAIN r |->
                           IF m = 1 THEN Direct(s, r, f) ELSE Further(s, r, h[m - 1][f])]
        OBVIOUS
      <4>1. h[m] = [f \in DOMAIN r |-> IF m = 1 THEN Direct(s, r, f) ELSE Further(s, r, p[m - 1][f])]
        <5>1. CASE m = k
          BY <5>1
        <5>2. CASE m # k
          <6>1. m \in 1 .. k - 1 /\ h[m] = p[m]
            BY <5>2
          <6> HIDE DEF h
          <6> QED BY <6>1, <3>2
        <5> QED BY <5>1, <5>2
      <4>2. CASE m = 1
        <5> HIDE DEF h
        <5> QED BY <4>1, <4>2
      <4>3. CASE m # 1
        <5>1. h[m - 1] = p[m - 1]
          BY <4>3, <3>4
        <5> HIDE DEF h
        <5> QED BY <4>1, <5>1
      <4> QED BY <4>2, <4>3
    <3>6. h = [m \in 1 .. k |-> h[m]]
      OBVIOUS
    <3>7. Upto(k, h)
      <4> HIDE DEF h
      <4> QED BY <3>5, <3>6
    <3> HIDE DEF h
    <3> QED BY <3>7
  <2> QED BY <2>1, <2>2
<1>4. N \in some
  <2>1. N \in 0 .. N
    OBVIOUS
  <2> HIDE DEF some
  <2> QED BY <1>3, <2>1, Climb
<1>6. \E h : h = [m \in 1 .. Len(r) |-> [f \in DOMAIN r |->
                           IF m = 1 THEN Direct(s, r, f) ELSE Further(s, r, h[m - 1][f])]]
  BY <1>4
<1>7. Reach(s, r) = [m \in 1 .. Len(r) |-> [f \in DOMAIN r |->
                           IF m = 1 THEN Direct(s, r, f) ELSE Further(s, r, Reach(s, r)[m - 1][f])]]
  BY <1>6 DEF Reach
<1>8. PICK c : c = Reach(s, r)
  OBVIOUS
<1>9. c = [m \in 1 .. N |-> [f \in DOMAIN r |->
                           IF m = 1 THEN Direct(s, r, f) ELSE Further(s, r, c[m - 1][f])]]
  BY <1>7, <1>8
<1>10. \A k \in 1 .. N : \A f \in DOMAIN r :
         c[k][f] = IF k = 1 THEN Direct(s, r, f) ELSE Further(s, r, c[k - 1][f])
  BY ONLY <1>9
<1> QED BY <1>8, <1>10

(* What is reached in k steps is reached along a walk of imports.          *)
LEMMA ReachedByWalk ==
  ASSUME NEW s, NEW r, Len(r) \in Nat, NEW D,
         \A f \in DOMAIN r : \A g \in Direct(s, r, f) : <<f, g>> \in D
  PROVE  \A k \in 1 .. Len(r) : \A f \in DOMAIN r : \A g \in Reach(s, r)[k][f] :
           g \in DOMAIN r /\ \E n \in Nat \ {0} : \E w : Walk(D, w, n, f, g)
<1>1. PICK N \in Nat : N = Len(r)
  OBVIOUS
<1>2. \A k \in 1 .. N : \A f \in DOMAIN r :
        Reach(s, r)[k][f] = IF k = 1 THEN Direct(s, r, f) ELSE Further(s, r, Reach(s, r)[k - 1][f])
  BY <1>1, ReachDefined
<1> DEFINE Led(f, g) == g \in DOMAIN r /\ \E n \in Nat \ {0} : \E w : Walk(D, w, n, f, g)
<1> DEFINE good == {k \in 0 .. N : k # 0 => \A f \in DOMAIN r : \A g \in Reach(s, r)[k][f] : Led(f, g)}
<1>3. ASSUME NEW f \in DOMAIN r, NEW g \in Direct(s, r, f) PROVE Led(f, g)
  <2> DEFINE w == [i \in 0 .. 1 |-> IF i = 0 THEN f ELSE g]
  <2>1. w[0] = f /\ w[1] = g /\ \A i \in 0 .. 1 - 1 : i = 0
    OBVIOUS
  <2>2. Walk(D, w, 1, f, g)
    <3> HIDE DEF w
    <3> QED BY <2>1 DEF Walk
  <2>3. g \in DOMAIN r
    BY DEF Direct
  <2> HIDE DEF w
  <2> QED BY <2>2, <2>3
<1>4. ASSUME NEW f \in DOMAIN r, NEW h, Led(f, h), NEW g \in Direct(s, r, h) PROVE Led(f, g)
  <2>1. PICK n \in Nat \ {0} : \E v : Walk(D, v, n, f, h)
    BY <1>4
  <2>2. PICK v : Walk(D, v, n, f, h)
    BY <2>1
  <2>3. v[0] = f /\ v[n] = h /\ \A i \in 0 .. n - 1 : <<v[i], v[i + 1]>> \in D
    BY <2>2 DEF Walk
  <2> DEFINE w == [i \in 0 .. n + 1 |-> IF i = n + 1 THEN g ELSE v[i]]
  <2>4. w[n + 1] = g /\ \A i \in 0 .. n : w[i] = v[i]
    <3>1. n + 1 \in 0 .. n + 1 /\ \A i \in 0 .. n : i \in 0 .. n + 1 /\ i # n + 1
      OBVIOUS
    <3> QED BY <3>1
  <2>5. <<h, g>> \in D
    BY <1>4
  <2> HIDE DEF w
  <2>6. ASSUME NEW i \in 0 .. n PROVE <<w[i], w[i + 1]>> \in D
    <3>1. CASE i = n
      BY <3>1, <2>3, <2>4, <2>5
    <3>2. CASE i # n
      <4>1. i \in 0 .. n - 1 /\ i + 1 \in 0 .. n
        BY <3>2
      <4> QED BY <4>1, <2>3, <2>4
    <3> QED BY <3>1, <3>2
  <2>7. 0 \in 0 .. n /\ (n + 1) - 1 = n
    OBVIOUS
  <2>8. Walk(D, w, n + 1, f, g)
    BY <2>3, <2>4, <2>6, <2>7 DEF Walk
  <2>9. n + 1 \in Nat \ {0} /\ g \in DOMAIN r
    BY DEF Direct
  <2> QED BY <2>8, <2>9
<1> HIDE DEF Led
<1>5. ASSUME NEW k \in 0 .. N, \A j \in 0 .. k - 1 : j \in good, k # 0,
             NEW f \in DOMAIN r, NEW g \in Reach(s, r)[k][f]
      PROVE  Led(f, g)
  <2>1. k \in 1 .. N
    BY <1>5
  <2>2. CASE k = 1
    <3>1. g \in Direct(s, r, f)
      BY <2>1, <2>2, <1>2, <1>5
    <3> QED BY <3>1, <1>3
  <2>3. CASE k # 1
    <3>1. k - 1 \in 0 .. k - 1 /\ k - 1 # 0
      BY <2>1, <2>3
    <3>2. \A h \in Reach(s, r)[k - 1][f] : Led(f, h)
      BY <3>1, <1>5
    <3>3. g \in Further(s, r, Reach(s, r)[k - 1][f])
      BY <2>1, <2>3, <1>2, <1>5
    <3>4. \/ g \in Reach(s, r)[k - 1][f]
          \/ \E h \in Reach(s, r)[k - 1][f] : g \in Direct(s, r, h)
      BY <3>3 DEF Further
    <3> QED BY <3>2, <3>4, <1>4
  <2> QED BY <2>2, <2>3
<1>6. \A k \in 0 .. N : (\A j \in 0 .. k - 1 : j \in good) => k \in good
  BY <1>5
<1>7. \A k \in 0 .. N : k \in good
  <2> HIDE DEF good
  <2> QED BY <1>6, Climb
<1>8. ASSUME NEW k \in 1 .. N, NEW f \in DOMAIN r, NEW g \in Reach(s, r)[k][f] PROVE Led(f, g)
  <2>1. k \in 0 .. N /\ k # 0
    OBVIOUS
  <2>2. k \in good
    <3> HIDE DEF good
    <3> QED BY <2>1, <1>7
  <2> QED BY <2>1, <2>2
<1> QED BY <1>1, <1>8 DEF Led

(* An import of another module makes the one depend on the other.          *)
LEMMA ImportsAreDependencies ==
  ASSUME NEW r, IsRepository(r), NEW s, s = StoreParseResults(r), StemsDiffer(r),
         NEW o \in Orders(r, s), NEW f \in DOMAIN r, NEW g \in Direct(s, r, f)
  PROVE  <<f, g>> \in Dependencies(BuildGraph(s, o).edges)
<1>1. g \in DOMAIN r /\ g # f
  BY DEF Direct
<1>2. PICK i \in s.imports : i.file = f /\ i.module = r[g].stem
  BY DEF Direct
<1>3. ImportTarget(s, o, i.module) = g
  <2>1. ImportTarget(s, o, i.module) # None
    BY <1>1, <1>2, ImportTargetIs
  <2>2. ImportTarget(s, o, i.module) \in DOMAIN r /\ r[ImportTarget(s, o, i.module)].stem = r[g].stem
    BY <2>1, <1>2, ImportTargetIs
  <2> QED BY <2>2, <1>1 DEF StemsDiffer
<1>4. g # None
  BY <1>1, NoneAssumption DEF IsRepository
<1> DEFINE d == [kind |-> "imports", source |-> Module(f), target |-> Module(g)]
<1>5. d \in ImportEdges(s, o)
  BY <1>1, <1>2, <1>3, <1>4 DEF ImportEdges
<1>6. d \in BuildGraph(s, o).edges
  BY <1>5 DEF BuildGraph
<1>7. d.kind = "imports" /\ d.source[1] = f /\ d.target[1] = g
  BY DEF Module
<1> HIDE DEF d
<1>p. PICK p : p = <<f, g>>
  OBVIOUS
<1>8. p = <<f, g>> /\ p[1] = f /\ p[2] = g
  BY <1>p
<1>9. p \in {<<e.source[1], e.target[1]>> : e \in {x \in BuildGraph(s, o).edges :
                                                   x.kind \in {"call", "imports"}}}
  BY <1>6, <1>7, <1>8
<1> QED BY <1>1, <1>8, <1>9 DEF Dependencies

(* A file that reaches itself by imports is told of as part of a circular  *)
(* dependency.                                                             *)
LEMMA RingsAreReported ==
  ASSUME NEW r, IsRepository(r), NEW s, s = StoreParseResults(r), StemsDiffer(r),
         NEW o \in Orders(r, s), NEW f \in DOMAIN r, f \in Reach(s, r)[Len(r)][f]
  PROVE  \E i \in GenerateSummary(s, o).issues : i.kind = "circular_dependency" /\ f \in i.of
<1> DEFINE D == Dependencies(BuildGraph(s, o).edges)
<1>1. \A p \in D : p[1] # p[2]
  BY DEF Dependencies
<1>2. \A h \in DOMAIN r : \A g \in Direct(s, r, h) : <<h, g>> \in D
  BY ImportsAreDependencies
<1>3. Len(r) \in Nat /\ Len(r) \in 1 .. Len(r)
  BY DEF IsRepository
<1> HIDE DEF D
<1>4. PICK n \in Nat \ {0} : \E w : Walk(D, w, n, f, f)
  BY <1>2, <1>3, ReachedByWalk
<1>5. PICK w : Walk(D, w, n, f, f)
  BY <1>4
<1>6. PICK C \in ModuleCycles(D) : f \in C
  BY <1>1, <1>5, CycleThrough
<1>7. C \in BuildGraph(s, o).cycles
  BY <1>6 DEF BuildGraph, D
<1>8. [kind |-> "circular_dependency", of |-> C] \in Issues(s, o, BuildGraph(s, o))
  BY <1>7 DEF Issues
<1>9. [kind |-> "circular_dependency", of |-> C] \in GenerateSummary(s, o).issues
  BY <1>8 DEF GenerateSummary
<1>10. PICK i : i = [kind |-> "circular_dependency", of |-> C]
  OBVIOUS
<1>11. i.kind = "circular_dependency" /\ i.of = C
  BY <1>10
<1> QED BY <1>6, <1>9, <1>10, <1>11

-----------------------------------------------------------------------------
(* Three ways of looking for callers.                                      *)

(* A repository has finitely many calls: each has its own site.            *)
LEMMA CallsFinite ==
  ASSUME NEW r, IsRepository(r), NEW s, s = StoreParseResults(r)
  PROVE  IsFiniteSet(s.calls)
<1> DEFINE h == [f \in DOMAIN r |-> {<<f, k>> : k \in Nodes(r[f])}]
<1> DEFINE all == {h[f] : f \in DOMAIN h}
<1>1. DOMAIN h = DOMAIN r /\ \A f \in DOMAIN r : h[f] = {<<f, k>> : k \in Nodes(r[f])}
  OBVIOUS
<1>2. IsFiniteSet(all)
  <2> HIDE DEF h
  <2> QED BY <1>1, RowsFinite, ImageFinite
<1>3. ASSUME NEW f \in DOMAIN r PROVE IsFiniteSet(h[f])
  <2> DEFINE g == [k \in Nodes(r[f]) |-> <<f, k>>]
  <2>1. IsFiniteSet(Nodes(r[f]))
    BY EntitiesFinite DEF IsRepository
  <2>2. DOMAIN g = Nodes(r[f]) /\ {g[n] : n \in DOMAIN g} = h[f]
    OBVIOUS
  <2> HIDE DEF g, h
  <2> QED BY <2>1, <2>2, ImageFinite
<1>4. IsFiniteSet(UNION all)
  <2>1. \A T \in all : IsFiniteSet(T)
    <3> HIDE DEF h
    <3> QED BY <1>1, <1>3
  <2> HIDE DEF all
  <2> QED BY <1>2, <2>1, FS_UNION
<1>5. \A c \in s.calls : c.site \in UNION all
  <2> SUFFICES ASSUME NEW c \in s.calls PROVE c.site \in UNION all
    OBVIOUS
  <2>1. PICK f \in DOMAIN r : \E n \in Entities(r[f]) \union {0} :
              \E k \in OwnCalls(r[f], n) : c = CallRow(r[f], f, n, k)
    BY CallRowsAre
  <2>2. PICK n \in Entities(r[f]) \union {0} : \E k \in OwnCalls(r[f], n) : c = CallRow(r[f], f, n, k)
    BY <2>1
  <2>3. PICK k \in OwnCalls(r[f], n) : c = CallRow(r[f], f, n, k)
    BY <2>2
  <2>4. k \in Nodes(r[f]) /\ c.site = <<f, k>>
    BY <2>3 DEF OwnCalls, OfKind, CallRow
  <2>5. c.site \in h[f]
    BY <2>4
  <2> HIDE DEF h
  <2> QED BY <2>5, <1>1
<1> DEFINE site == [c \in s.calls |-> c.site]
<1>6. site \in Injection(s.calls, UNION all)
  <2>1. site \in [s.calls -> UNION all]
    <3> HIDE DEF all
    <3> QED BY <1>5
  <2>2. \A c, d \in s.calls : site[c] = site[d] => c = d
    BY OneRowPerCall
  <2> HIDE DEF site, all
  <2> QED BY <2>1, <2>2 DEF Injection, IsInjective
<1> HIDE DEF site, all
<1> QED BY <1>4, <1>6, FS_Injection

(* The impact of an entity lists each call of its row or of its name.      *)
LEMMA CallersShown ==
  ASSUME NEW r, IsRepository(r), NEW s, s = StoreParseResults(r), NEW e
  PROVE  /\ IsFiniteSet(CalculateImpact(s, e).callers)
         /\ \A c \in CallersOf(s, e) : c.caller # None =>
              [name |-> s.entities[c.caller].name, file |-> c.caller[1], line |-> c.line]
                \in CalculateImpact(s, e).callers
         /\ CalculateImpact(s, e).callers # {} => CalculateImpact(s, e).level # "LOW"
<1> DEFINE by(c) == IF c.caller = None THEN e ELSE c.caller
<1> DEFINE g == [c \in CallersOf(s, e) |->
                   [name |-> s.entities[by(c)].name, file |-> by(c)[1], line |-> c.line]]
<1> DEFINE shown == CalculateImpact(s, e).callers
<1>1. shown = {g[c] : c \in DOMAIN g}
  <2>1. shown = {[name |-> s.entities[by(c)].name, file |-> by(c)[1], line |-> c.line] :
                   c \in CallersOf(s, e)}
    BY DEF CalculateImpact
  <2>2. /\ DOMAIN g = CallersOf(s, e)
        /\ \A c \in CallersOf(s, e) :
             g[c] = [name |-> s.entities[by(c)].name, file |-> by(c)[1], line |-> c.line]
    OBVIOUS
  <2> HIDE DEF g, shown, by
  <2> QED BY <2>1, <2>2
<1>2. IsFiniteSet(shown)
  <2>1. IsFiniteSet(s.calls) /\ CallersOf(s, e) \in SUBSET s.calls
    BY CallsFinite DEF CallersOf
  <2>2. IsFiniteSet(CallersOf(s, e)) /\ DOMAIN g = CallersOf(s, e)
    BY <2>1, FS_Subset
  <2> HIDE DEF g, shown
  <2> QED BY <2>2, <1>1, ImageFinite
<1>3. ASSUME NEW c \in CallersOf(s, e), c.caller # None
      PROVE  [name |-> s.entities[c.caller].name, file |-> c.caller[1], line |-> c.line] \in shown
  <2>1. g[c] = [name |-> s.entities[c.caller].name, file |-> c.caller[1], line |-> c.line]
    BY <1>3
  <2>2. DOMAIN g = CallersOf(s, e)
    OBVIOUS
  <2> HIDE DEF g, shown
  <2> QED BY <2>1, <2>2, <1>1
<1>4. ASSUME shown # {} PROVE CalculateImpact(s, e).level # "LOW"
  <2>1. Cardinality(shown) \in Nat /\ Cardinality(shown) # 0
    <3> HIDE DEF shown
    <3> QED BY <1>2, <1>4, FS_CardinalityType, FS_EmptySet
  <2>2. Cardinality(shown) >= 1
    <3> HIDE DEF shown
    <3> QED BY <2>1
  <2>3. \E big : CalculateImpact(s, e).level = IF big THEN "HIGH"
                   ELSE IF Cardinality(shown) >= 1 \/ s.entities[e].complexity >= 5 THEN "MEDIUM"
                   ELSE "LOW"
    BY DEF CalculateImpact
  <2> HIDE DEF shown
  <2> QED BY <2>2, <2>3
<1> HIDE DEF g, shown
<1> QED BY <1>2, <1>3, <1>4 DEF shown

(* A call edge that leads to an entity's node is one of its callers'.      *)
LEMMA EdgeIsShown ==
  ASSUME NEW r, IsRepository(r), NEW s, s = StoreParseResults(r), NEW o \in Orders(r, s),
         NEW e \in DOMAIN s.entities, NEW d \in CallEdges(s, o), d.target = NodeId(s, e)
  PROVE  \E c \in CallersOf(s, e) :
           /\ [name |-> Last(d.source[2]), file |-> d.source[1], line |-> c.line]
                \in CalculateImpact(s, e).callers
           /\ c.caller # None /\ c.site = d.site /\ c.caller[1] = d.source[1]
           /\ c.line = r[d.site[1]].nodes[d.site[2]].line
           /\ s.entities[c.caller].name = Last(d.source[2])
<1>1. PICK c \in s.calls : \E x \in DOMAIN s.entities :
           /\ ~c.dynamic /\ c.caller \in DOMAIN s.entities /\ s.entities[x].name = c.name
           /\ c.caller # None
           /\ d = [kind |-> "call", source |-> NodeId(s, c.caller), site |-> c.site,
                   target |-> NodeId(s, x)]
           /\ x = IF c.callee # None THEN c.callee ELSE Resolve(s, o, c.caller[1], c)
  BY CallEdgesAre
<1>2. PICK x \in DOMAIN s.entities :
           /\ s.entities[x].name = c.name
           /\ d = [kind |-> "call", source |-> NodeId(s, c.caller), site |-> c.site,
                   target |-> NodeId(s, x)]
  BY <1>1
<1>3. d.source = NodeId(s, c.caller) /\ d.site = c.site /\ d.target = NodeId(s, x)
  BY <1>2
<1>4. s.entities[x].qualified = s.entities[e].qualified
  <2>1. <<x[1], s.entities[x].qualified>> = <<e[1], s.entities[e].qualified>>
    BY <1>3 DEF NodeId
  <2> QED BY <2>1
<1>5. c.name = s.entities[e].name
  BY <1>2, <1>4, EntityRows
<1>6. c \in CallersOf(s, e)
  BY <1>1, <1>5 DEF CallersOf
<1>7. d.source[1] = c.caller[1] /\ d.source[2] = s.entities[c.caller].qualified
  <2>1. d.source = <<c.caller[1], s.entities[c.caller].qualified>>
    BY <1>3 DEF NodeId
  <2> QED BY <2>1
<1>8. Last(d.source[2]) = s.entities[c.caller].name
  BY <1>1, <1>7, EntityRows
<1>9. c.line = r[d.site[1]].nodes[d.site[2]].line
  BY <1>1, <1>3, CallsRefer
<1>10. [name |-> s.entities[c.caller].name, file |-> c.caller[1], line |-> c.line]
         \in CalculateImpact(s, e).callers
  BY <1>1, <1>6, CallersShown
<1> QED BY <1>1, <1>3, <1>6, <1>7, <1>8, <1>9, <1>10

(* One call gives one edge.                                                *)
LEMMA OneEdgePerCall ==
  ASSUME NEW r, IsRepository(r), NEW s, s = StoreParseResults(r), NEW o \in Orders(r, s),
         NEW d \in CallEdges(s, o), NEW x \in CallEdges(s, o), d.site = x.site
  PROVE  d = x
<1> DEFINE target(c) == IF c.callee # None THEN c.callee ELSE Resolve(s, o, c.caller[1], c)
<1> DEFINE edge(c) == [kind |-> "call", source |-> NodeId(s, c.caller), site |-> c.site,
                       target |-> NodeId(s, target(c))]
<1>1. \A y \in CallEdges(s, o) : \E c \in s.calls : y = edge(c) /\ y.site = c.site
  BY DEF CallEdges
<1> HIDE DEF edge
<1>2. PICK a \in s.calls : d = edge(a) /\ d.site = a.site
  BY <1>1
<1>3. PICK b \in s.calls : x = edge(b) /\ x.site = b.site
  BY <1>1
<1>4. a = b
  BY <1>2, <1>3, OneRowPerCall
<1> QED BY <1>2, <1>3, <1>4

(* No two calls of an entity come from callers of one name on one line.    *)
Apart(s, e) ==
  \A c, d \in CallersOf(s, e) :
    /\ c.caller # None /\ d.caller # None
    /\ c.caller[1] = d.caller[1] /\ c.line = d.line
    /\ s.entities[c.caller].name = s.entities[d.caller].name
    => c = d

(* Each call edge the summary counts for a node is then another caller the *)
(* impact of its entity lists.                                             *)
LEMMA FanInWithinImpact ==
  ASSUME NEW r, IsRepository(r), NEW s, s = StoreParseResults(r), NEW o \in Orders(r, s),
         NEW e \in DOMAIN s.entities, NEW h \in GenerateSummary(s, o).highRisk,
         NodeId(s, e) = h.node, Apart(s, e)
  PROVE  h.callers <= Cardinality(CalculateImpact(s, e).callers)
<1> DEFINE shown == CalculateImpact(s, e).callers
<1> DEFINE leading == {d \in BuildGraph(s, o).edges : d.kind = "call" /\ d.target = NodeId(s, e)}
<1>1. h.callers = Cardinality(leading)
  <2>1. h \in HighRiskEntities(BuildGraph(s, o))
    BY DEF GenerateSummary
  <2>2. PICK v : h = [node |-> v, callers |-> Cardinality({d \in BuildGraph(s, o).edges :
                                                             d.kind = "call" /\ d.target = v})]
    BY <2>1 DEF HighRiskEntities
  <2>3. v = NodeId(s, e)
    BY <2>2
  <2> QED BY <2>2, <2>3
<1>2. \A d \in leading : d \in CallEdges(s, o) /\ d.target = NodeId(s, e)
  <2> SUFFICES ASSUME NEW d \in BuildGraph(s, o).edges, d.kind = "call" PROVE d \in CallEdges(s, o)
    OBVIOUS
  <2>1. d \in CallEdges(s, o) \union ContainsEdges(s) \union ImportEdges(s, o) \union InheritsEdges(s)
    BY DEF BuildGraph
  <2>2. d \notin ContainsEdges(s)
    <3>1. \A y \in ContainsEdges(s) : y.kind = "contains"
      BY DEF ContainsEdges
    <3> QED BY <3>1
  <2>3. d \notin ImportEdges(s, o)
    <3>1. \A y \in ImportEdges(s, o) : y.kind = "imports"
      BY DEF ImportEdges
    <3> QED BY <3>1
  <2>4. d \notin InheritsEdges(s)
    <3>1. \A y \in InheritsEdges(s) : y.kind = "inherits"
      BY DEF InheritsEdges
    <3> QED BY <3>1
  <2> QED BY <2>1, <2>2, <2>3, <2>4
<1> DEFINE line(d) == r[d.site[1]].nodes[d.site[2]].line
<1> DEFINE m == [d \in leading |-> [name |-> Last(d.source[2]), file |-> d.source[1],
                                    line |-> line(d)]]
<1>3. m \in Injection(leading, shown)
  <2>0. ASSUME NEW d \in leading
        PROVE  /\ m[d] \in shown
               /\ \E c \in CallersOf(s, e) :
                    /\ c.caller # None /\ c.site = d.site /\ c.caller[1] = m[d].file
                    /\ c.line = m[d].line /\ s.entities[c.caller].name = m[d].name
    <3>1. m[d] = [name |-> Last(d.source[2]), file |-> d.source[1], line |-> line(d)]
      OBVIOUS
    <3>2. d \in CallEdges(s, o) /\ d.target = NodeId(s, e)
      BY <1>2
    <3> HIDE DEF m, leading
    <3>3. PICK c \in CallersOf(s, e) :
             /\ [name |-> Last(d.source[2]), file |-> d.source[1], line |-> c.line]
                  \in CalculateImpact(s, e).callers
             /\ c.caller # None /\ c.site = d.site /\ c.caller[1] = d.source[1]
             /\ c.line = line(d) /\ s.entities[c.caller].name = Last(d.source[2])
      BY <3>2, EdgeIsShown
    <3> QED BY <3>1, <3>3
  <2>2. m \in [leading -> shown]
    <3>1. m = [d \in leading |-> m[d]]
      OBVIOUS
    <3> HIDE DEF m, leading, shown
    <3> QED BY <2>0, <3>1
  <2>3. ASSUME NEW d \in leading, NEW x \in leading, m[d] = m[x] PROVE d = x
    <3> HIDE DEF m, leading
    <3>1. PICK a \in CallersOf(s, e) :
             /\ a.caller # None /\ a.site = d.site /\ a.caller[1] = m[d].file
             /\ a.line = m[d].line /\ s.entities[a.caller].name = m[d].name
      BY <2>0
    <3>2. PICK b \in CallersOf(s, e) :
             /\ b.caller # None /\ b.site = x.site /\ b.caller[1] = m[x].file
             /\ b.line = m[x].line /\ s.entities[b.caller].name = m[x].name
      BY <2>0
    <3>3. a = b
      BY <2>3, <3>1, <3>2 DEF Apart
    <3>4. d.site = x.site
      BY <3>1, <3>2, <3>3
    <3> QED BY <3>4, <1>2, OneEdgePerCall
  <2> HIDE DEF m, leading, shown
  <2> QED BY <2>2, <2>3 DEF Injection, IsInjective
<1>4. IsFiniteSet(shown)
  BY CallersShown
<1> HIDE DEF m, leading, shown
<1>5. Cardinality(leading) <= Cardinality(shown)
  BY <1>3, <1>4, FS_Injection
<1> QED BY <1>1, <1>5 DEF shown

-----------------------------------------------------------------------------
(* What an explanation cites.                                              *)

(* What validate_evidence_items keeps, and that it keeps what is in order. *)
LEMMA EvidenceKept ==
  ASSUME NEW N \in Nat, NEW items, DOMAIN items = 1 .. N
  PROVE  /\ \A i \in DOMAIN ValidateEvidence(items) : \E k \in 1 .. N :
              /\ ValidateEvidence(items)[i] = Item(items[k])
              /\ FileExists(items[k].file)
              /\ items[k].start > 0 /\ items[k].start <= items[k].end
         /\ \A k \in 1 .. N :
              /\ FileExists(items[k].file)
              /\ items[k].start > 0 /\ items[k].start <= items[k].end
              => ValidateEvidence(items) # <<>>
<1> DEFINE S == {i \in DOMAIN items :
                   /\ FileExists(items[i].file)
                   /\ items[i].start > 0 /\ items[i].start <= items[i].end}
<1> DEFINE kept == [i \in 1 .. Cardinality(S) |->
                      CHOOSE e \in S : Cardinality({d \in S : d < e}) = i - 1]
<1>1. ValidateEvidence(items) = [i \in DOMAIN kept |-> Item(items[kept[i]])]
  BY DEF ValidateEvidence, Sorted
<1>2. S \in SUBSET (1 .. N) /\ IsFiniteSet(1 .. N)
  BY FS_Interval
<1>3. \A k \in S : /\ FileExists(items[k].file)
                   /\ items[k].start > 0 /\ items[k].start <= items[k].end
  OBVIOUS
<1>4. \A k \in 1 .. N : /\ FileExists(items[k].file)
                        /\ items[k].start > 0 /\ items[k].start <= items[k].end
                        => k \in S
  OBVIOUS
<1>5. DOMAIN kept = 1 .. Cardinality(S)
      /\ \A i \in 1 .. Cardinality(S) :
           kept[i] = CHOOSE e \in S : Cardinality({d \in S : d < e}) = i - 1
  <2> HIDE DEF S
  <2> QED OBVIOUS
<1> HIDE DEF S, kept
<1>6. IsFiniteSet(S) /\ S \subseteq Int
  <2>1. IsFiniteSet(S)
    BY <1>2, FS_Subset
  <2>2. \A k \in S : k \in Int
    BY <1>2
  <2> QED BY <2>1, <2>2
<1>7. \A i \in DOMAIN kept : kept[i] \in S
  <2>1. \A i \in 1 .. Cardinality(S) :
          (CHOOSE e \in S : Cardinality({d \in S : d < e}) = i - 1) \in S
    BY <1>6, SortedNumbers
  <2> QED BY <1>5, <2>1
<1>8. ASSUME NEW i \in DOMAIN ValidateEvidence(items)
      PROVE  \E k \in 1 .. N :
              /\ ValidateEvidence(items)[i] = Item(items[k])
              /\ FileExists(items[k].file)
              /\ items[k].start > 0 /\ items[k].start <= items[k].end
  <2>1. i \in DOMAIN kept /\ ValidateEvidence(items)[i] = Item(items[kept[i]])
    BY <1>1
  <2>2. PICK k \in S : k = kept[i]
    BY <2>1, <1>7
  <2> QED BY <2>1, <2>2, <1>2, <1>3
<1>9. ASSUME NEW k \in S PROVE ValidateEvidence(items) # <<>>
  <2>1. Cardinality(S) \in Nat /\ Cardinality(S) # 0
    BY <1>6, FS_CardinalityType, FS_EmptySet
  <2>2. 1 \in DOMAIN kept
    BY <2>1, <1>5
  <2>3. 1 \in DOMAIN ValidateEvidence(items)
    BY <2>2, <1>1
  <2>4. 1 \notin DOMAIN <<>>
    OBVIOUS
  <2> QED BY <2>3, <2>4
<1> QED BY <1>4, <1>8, <1>9

(* A definition begins and ends on lines of its file, in that order, and   *)
(* not on a blank one.                                                     *)
LEMMA EndAfterStart ==
  ASSUME IsRepository(repo), NEW e, e[1] \in DOMAIN repo, e[2] \in Nodes(repo[e[1]])
  PROVE  /\ Line(e) \in Nat \ {0} /\ EndOf(e) \in Nat /\ Line(e) <= EndOf(e)
         /\ repo[e[1]].length \in Nat /\ EndOf(e) <= repo[e[1]].length
         /\ Line(e) \notin repo[e[1]].blank
<1> DEFINE S == {repo[e[1]].nodes[m].line :
                   m \in {k \in Nodes(repo[e[1]]) : k = e[2] \/ e[2] \in Above(repo[e[1]], k)}}
<1>1. PICK L \in Nat : L = repo[e[1]].length
  BY DEF IsRepository, IsSource
<1>2. \A m \in Nodes(repo[e[1]]) : repo[e[1]].nodes[m].line \in (1 .. L) \ repo[e[1]].blank
  BY <1>1 DEF IsRepository, IsSource
<1>3. Line(e) \in S /\ Line(e) \in (1 .. L) \ repo[e[1]].blank /\ S \subseteq 1 .. L
  BY <1>2 DEF Line
<1>4. EndOf(e) = Max(S)
  BY DEF EndOf
<1> HIDE DEF S
<1>5. S \subseteq Nat /\ S # {} /\ \A m \in S : m <= L
  BY <1>3
<1>6. Max(S) \in S /\ \A m \in S : m <= Max(S)
  BY <1>5, MaxInSet
<1>7. EndOf(e) \in 1 .. L /\ Line(e) <= EndOf(e)
  BY <1>3, <1>4, <1>6
<1> QED BY <1>1, <1>3, <1>7

(* Each item the model cites, before the first that is none, has a number  *)
(* for its first line.                                                     *)
LEMMA CitedItems ==
  ASSUME IsRepository(repo), rows = StoreParseResults(repo), NEW e \in DOMAIN rows.entities,
         NEW reply \in Replies
  PROVE  /\ \E N \in Nat : DOMAIN Cited(e, reply) = 1 .. N
         /\ \A i \in DOMAIN Cited(e, reply) : Cited(e, reply)[i].start \in Int
         /\ ~(reply.usable /\ reply.evidence # <<>>) => Cited(e, reply) = <<>>
<1> DEFINE item(c) == [file  |-> IF c.file = None THEN e[1] ELSE c.file,
                       start |-> IF c.start \in {None, 0} THEN Line(e) ELSE c.start,
                       end   |-> IF c.end \in {None, 0} THEN EndOf(e) ELSE c.end]
<1> DEFINE taken == IF ~reply.usable THEN <<>>
                    ELSE IF RaisesAt(reply) = {} THEN reply.evidence
                    ELSE SubSeq(reply.evidence, 1, Min(RaisesAt(reply)) - 1)
<1>1. Cited(e, reply) = [i \in DOMAIN taken |-> item(taken[i])]
  BY DEF Cited
<1>2. PICK L \in Nat : L = Len(reply.evidence) /\ DOMAIN reply.evidence = 1 .. L
  <2>1. PICK all : reply.evidence \in Seq(all)
    BY RepliesAssumption
  <2> QED BY <2>1
<1>3. \A i \in 1 .. L : reply.evidence[i].start \in Int \union {None, NaN}
  BY <1>2, RepliesAssumption
<1>4. \A i \in 1 .. L : i \notin RaisesAt(reply) => reply.evidence[i].start # NaN
  BY <1>2 DEF RaisesAt
<1>5. RaisesAt(reply) \subseteq 1 .. L
  BY <1>2 DEF RaisesAt
<1>6. Line(e) \in Int
  <2>1. e[1] \in DOMAIN repo /\ e[2] \in Nodes(repo[e[1]])
    BY EntityRows
  <2> QED BY <2>1, EndAfterStart
<1>7. ASSUME NEW i \in 1 .. L, i \notin RaisesAt(reply)
      PROVE  item(reply.evidence[i]).start \in Int
  <2>1. reply.evidence[i].start \in Int \union {None}
    BY <1>3, <1>4, <1>7
  <2> QED BY <2>1, <1>6
<1>8. \E N \in Nat : DOMAIN taken = 1 .. N /\ \A i \in 1 .. N :
         i \in 1 .. L /\ i \notin RaisesAt(reply) /\ taken[i] = reply.evidence[i]
  <2>1. CASE ~reply.usable
    <3>1. taken = <<>> /\ DOMAIN <<>> = 1 .. 0
      BY <2>1
    <3>2. \A i \in 1 .. 0 : FALSE
      OBVIOUS
    <3> HIDE DEF taken, item
    <3>3. DOMAIN taken = 1 .. 0
      BY <3>1
    <3> QED BY <3>2, <3>3
  <2>2. CASE reply.usable /\ RaisesAt(reply) = {}
    <3>1. taken = reply.evidence
      BY <2>2
    <3> HIDE DEF taken
    <3> QED BY <3>1, <2>2, <1>2
  <2>3. CASE reply.usable /\ RaisesAt(reply) # {}
    <3>1. PICK m : m = Min(RaisesAt(reply))
      OBVIOUS
    <3>2. RaisesAt(reply) \subseteq Nat
      BY <1>5
    <3>3. m \in RaisesAt(reply) /\ \A i \in RaisesAt(reply) : m <= i
      BY <2>3, <3>1, <3>2, MinInSet
    <3>4. m \in 1 .. L /\ m - 1 \in Nat
      BY <3>3, <1>5
    <3>5. taken = SubSeq(reply.evidence, 1, m - 1)
      BY <2>3, <3>1
    <3> HIDE DEF taken
    <3>6. DOMAIN taken = 1 .. m - 1 /\ \A i \in 1 .. m - 1 : taken[i] = reply.evidence[i]
      <4>1. PICK all : reply.evidence \in Seq(all)
        BY RepliesAssumption
      <4>2. /\ taken \in Seq(all)
            /\ Len(taken) = IF 1 <= m - 1 THEN (m - 1) - 1 + 1 ELSE 0
            /\ \A i \in 1 .. (m - 1) - 1 + 1 : taken[i] = reply.evidence[1 + i - 1]
        <5>1. 1 \in 1 .. L + 1 /\ m - 1 \in 1 - 1 .. L
          BY <3>4
        <5> QED BY <5>1, <4>1, <3>5, <1>2, SubSeqProperties
      <4>3. Len(taken) = m - 1 /\ (m - 1) - 1 + 1 = m - 1
        BY <4>2, <3>4
      <4>4. \A i \in 1 .. m - 1 : 1 + i - 1 = i
        BY <3>4
      <4>5. DOMAIN taken = 1 .. m - 1
        BY <4>2, <4>3
      <4> QED BY <4>2, <4>3, <4>4, <4>5
    <3>7. \A i \in 1 .. m - 1 : i \in 1 .. L /\ i \notin RaisesAt(reply)
      BY <3>3, <3>4
    <3> QED BY <3>4, <3>6, <3>7
  <2> QED BY <2>1, <2>2, <2>3
<1>9. ASSUME ~(reply.usable /\ reply.evidence # <<>>) PROVE Cited(e, reply) = <<>>
  <2>1. taken = <<>>
    <3>1. CASE ~reply.usable
      BY <3>1
    <3>2. CASE reply.usable
      <4>1. reply.evidence = <<>> /\ DOMAIN <<>> = {}
        BY <3>2, <1>9
      <4>2. RaisesAt(reply) = {}
        BY <4>1 DEF RaisesAt
      <4> QED BY <3>2, <4>1, <4>2
    <3> QED BY <3>1, <3>2
  <2>2. DOMAIN taken = {}
    <3>1. DOMAIN <<>> = {}
      OBVIOUS
    <3> HIDE DEF taken
    <3> QED BY <2>1, <3>1
  <2> HIDE DEF taken
  <2>3. Cited(e, reply) = [i \in {} |-> item(taken[i])]
    BY <2>2, <1>1
  <2> QED BY <2>3
<1> HIDE DEF taken
<1>10. PICK N \in Nat : DOMAIN taken = 1 .. N /\ \A i \in 1 .. N :
         i \in 1 .. L /\ i \notin RaisesAt(reply) /\ taken[i] = reply.evidence[i]
  BY <1>8
<1>11. DOMAIN Cited(e, reply) = 1 .. N /\ \A i \in 1 .. N : Cited(e, reply)[i] = item(reply.evidence[i])
  <2> HIDE DEF item
  <2> QED BY <1>1, <1>10
<1>12. \A i \in 1 .. N : Cited(e, reply)[i].start \in Int
  <2> HIDE DEF item
  <2> QED BY <1>7, <1>10, <1>11
<1> QED BY <1>9, <1>11, <1>12

(* The lines the source itself is cited with are lines of the entity, none *)
(* of them blank; there are some when the source was read.                 *)
LEMMA DeclaredItems ==
  ASSUME IsRepository(repo), rows = StoreParseResults(repo),
         NEW a, a.of \in DOMAIN rows.entities
  PROVE  \E N \in Nat :
           /\ DOMAIN Declared(a) = 1 .. N /\ (N # 0 => a.source) /\ (a.source => N # 0)
           /\ \A i \in 1 .. N :
                /\ Declared(a)[i].file = a.of[1]
                /\ Declared(a)[i].start \in Nat \ {0}
                /\ Declared(a)[i].end = Declared(a)[i].start
                /\ Line(a.of) <= Declared(a)[i].start /\ Declared(a)[i].start <= EndOf(a.of)
                /\ Declared(a)[i].start <= repo[a.of[1]].length
                /\ Declared(a)[i].start \notin repo[a.of[1]].blank
<1> DEFINE S == {l \in Line(a.of) .. EndOf(a.of) : l <= Line(a.of) + 5} \ repo[a.of[1]].blank
<1> DEFINE lines == [i \in 1 .. Cardinality(S) |->
                       CHOOSE e \in S : Cardinality({d \in S : d < e}) = i - 1]
<1>1. a.of[1] \in DOMAIN repo /\ a.of[2] \in Nodes(repo[a.of[1]])
  BY EntityRows
<1>2. PICK x \in Nat \ {0}, y \in Nat, z \in Nat :
        /\ x = Line(a.of) /\ y = EndOf(a.of) /\ z = repo[a.of[1]].length
        /\ x <= y /\ y <= z /\ x \notin repo[a.of[1]].blank
  BY <1>1, EndAfterStart
<1>3. x \in S /\ S \in SUBSET (x .. y) /\ \A l \in S : l \notin repo[a.of[1]].blank
  BY <1>2
<1>4. Declared(a) = IF a.source
                    THEN [i \in DOMAIN lines |->
                            [file |-> a.of[1], start |-> lines[i], end |-> lines[i]]]
                    ELSE <<>>
  BY DEF Declared, Sorted
<1>5. DOMAIN lines = 1 .. Cardinality(S)
      /\ \A i \in 1 .. Cardinality(S) :
           lines[i] = CHOOSE e \in S : Cardinality({d \in S : d < e}) = i - 1
  <2> HIDE DEF S
  <2> QED OBVIOUS
<1> HIDE DEF S, lines
<1>6. IsFiniteSet(S) /\ S \subseteq Int
  <2>1. IsFiniteSet(x .. y)
    BY FS_Interval
  <2>2. IsFiniteSet(S)
    BY <1>3, <2>1, FS_Subset
  <2> QED BY <1>3, <2>2
<1>7. Cardinality(S) \in Nat /\ Cardinality(S) # 0
  BY <1>3, <1>6, FS_CardinalityType, FS_EmptySet
<1>8. \A i \in 1 .. Cardinality(S) : lines[i] \in S
  <2>1. \A i \in 1 .. Cardinality(S) :
          (CHOOSE e \in S : Cardinality({d \in S : d < e}) = i - 1) \in S
    BY <1>6, SortedNumbers
  <2> QED BY <1>5, <2>1
<1>9. CASE a.source
  <2>1. PICK N \in Nat : N = Cardinality(S)
    BY <1>7
  <2>2. Declared(a) = [i \in 1 .. N |-> [file |-> a.of[1], start |-> lines[i], end |-> lines[i]]]
    BY <1>4, <1>5, <1>9, <2>1
  <2>3. ASSUME NEW i \in 1 .. N
        PROVE  /\ Declared(a)[i].file = a.of[1]
               /\ Declared(a)[i].start \in Nat \ {0}
               /\ Declared(a)[i].end = Declared(a)[i].start
               /\ x <= Declared(a)[i].start /\ Declared(a)[i].start <= y
               /\ Declared(a)[i].start <= z
               /\ Declared(a)[i].start \notin repo[a.of[1]].blank
    <3>1. lines[i] \in S
      BY <1>8, <2>1
    <3>2. PICK l \in x .. y : l = lines[i] /\ l \notin repo[a.of[1]].blank
      BY <3>1, <1>3
    <3>3. Declared(a)[i] = [file |-> a.of[1], start |-> l, end |-> l]
      BY <2>2, <3>2
    <3> QED BY <3>2, <3>3, <1>2
  <2>4. DOMAIN Declared(a) = 1 .. N /\ N # 0
    BY <2>1, <2>2, <1>7
  <2> QED BY <2>3, <2>4, <1>2, <1>9
<1>10. CASE ~a.source
  <2>1. Declared(a) = <<>> /\ DOMAIN <<>> = 1 .. 0 /\ \A i \in 1 .. 0 : FALSE
    BY <1>4, <1>10
  <2>2. DOMAIN Declared(a) = 1 .. 0
    BY <2>1
  <2> QED BY <2>1, <2>2, <1>10
<1> QED BY <1>9, <1>10

(* Lines of which one bears code are shown as they stand.                  *)
LEMMA CodeIsReadable ==
  ASSUME IsRepository(repo), NEW c, c.file \in DOMAIN repo, disk,
         NEW l \in Nat \ {0}, l <= repo[c.file].length, l \notin repo[c.file].blank,
         c.start <= l, l <= c.end
  PROVE  Item(c).code = "source"
<1>1. OnDisk(c.file)
  BY DEF OnDisk
<1>2. Text(c.file) = repo[c.file]
  BY DEF Text
<1> DEFINE lines == {k \in 1 .. repo[c.file].length : c.start <= k /\ k <= c.end}
<1>3. l \in lines
  BY DEF IsRepository, IsSource
<1>4. \A k \in repo[c.file].empty : k # l
  BY DEF IsRepository, IsSource
<1>5. lines # {} /\ \A k \in repo[c.file].empty : lines # {k}
  <2> HIDE DEF lines
  <2> QED BY <1>3, <1>4
<1>6. Readable(c)
  BY <1>1, <1>2, <1>5 DEF Readable
<1> QED BY <1>6 DEF Item

(* The source was read if its files are there, and they are if it was read *)
(* and nothing is deleted.                                                 *)
AskedInv(a) ==
  /\ a.of \in DOMAIN rows.entities
  /\ a.source /\ stored = "present" => disk
  /\ disk => a.source

(* What an explanation shows once the model has answered.                  *)
LEMMA EvidenceGrounded ==
  ASSUME IsRepository(repo), rows = StoreParseResults(repo), NEW a, AskedInv(a),
         NEW reply \in Replies, NEW v, v = ValidateEvidence(Evidence(a, reply))
  PROVE  /\ \A i \in DOMAIN v :
              /\ \/ v[i].file = Outside
                 \/ v[i].file \in DOMAIN repo \union {0} /\ (disk \/ stored = "present")
              /\ 1 <= v[i].start /\ v[i].start <= v[i].end
              /\ v[i].code = "claimed" /\ v[i].file \in DOMAIN repo /\ disk =>
                   \A n \in Nodes(repo[v[i].file]) :
                     ~(v[i].start <= Line(<<v[i].file, n>>) /\ Line(<<v[i].file, n>>) <= v[i].end)
         /\ Cited(a.of, reply) = <<>> => \A i \in DOMAIN v :
              /\ v[i].file = a.of[1] /\ v[i].code = "source"
              /\ Line(a.of) <= v[i].start /\ v[i].end <= EndOf(a.of)
         /\ v = <<>> => ~disk \/ (reply.usable /\ reply.evidence # <<>>)
<1>1. PICK items : items = Evidence(a, reply)
  OBVIOUS
<1>a. a.of \in DOMAIN rows.entities /\ a.of[1] \in DOMAIN repo
  BY EntityRows DEF AskedInv
<1>2. \E N \in Nat : DOMAIN items = 1 .. N /\ \A i \in 1 .. N : items[i].start \in Int
  <2>1. CASE Cited(a.of, reply) # <<>>
    <3>1. items = Cited(a.of, reply)
      BY <2>1, <1>1 DEF Evidence
    <3> QED BY <3>1, <1>a, CitedItems
  <2>2. CASE Cited(a.of, reply) = <<>>
    <3>1. items = Declared(a)
      BY <2>2, <1>1 DEF Evidence
    <3>2. PICK N \in Nat :
             DOMAIN items = 1 .. N /\ \A i \in 1 .. N : items[i].start \in Nat \ {0}
      BY <3>1, <1>a, DeclaredItems
    <3> QED BY <3>2
  <2> QED BY <2>1, <2>2
<1>3. PICK N \in Nat : DOMAIN items = 1 .. N /\ \A i \in 1 .. N : items[i].start \in Int
  BY <1>2
<1>4. ASSUME NEW i \in DOMAIN v
      PROVE  /\ \/ v[i].file = Outside
                \/ v[i].file \in DOMAIN repo \union {0} /\ (disk \/ stored = "present")
             /\ 1 <= v[i].start /\ v[i].start <= v[i].end
             /\ v[i].code = "claimed" /\ v[i].file \in DOMAIN repo /\ disk =>
                  \A n \in Nodes(repo[v[i].file]) :
                    ~(v[i].start <= Line(<<v[i].file, n>>) /\ Line(<<v[i].file, n>>) <= v[i].end)
  <2>1. PICK k \in 1 .. N :
          /\ v[i] = Item(items[k]) /\ FileExists(items[k].file)
          /\ items[k].start > 0 /\ items[k].start <= items[k].end
    BY <1>1, <1>3, EvidenceKept
  <2>2. /\ v[i].file = items[k].file /\ v[i].start = items[k].start /\ v[i].end = items[k].end
        /\ v[i].code = Item(items[k]).code
    BY <2>1 DEF Item
  <2>3. \/ v[i].file = Outside
        \/ v[i].file \in DOMAIN repo \union {0} /\ (disk \/ stored = "present")
    BY <2>1, <2>2 DEF FileExists, OnDisk
  <2>4. PICK b \in Int : b = items[k].start
    BY <1>3
  <2>5. 1 <= b
    BY <2>1, <2>4
  <2>6. ASSUME v[i].file \in DOMAIN repo, disk, NEW n \in Nodes(repo[v[i].file]),
               v[i].start <= Line(<<v[i].file, n>>), Line(<<v[i].file, n>>) <= v[i].end
        PROVE  v[i].code = "source"
    <3>1. PICK e : e = <<items[k].file, n>>
      OBVIOUS
    <3>2. e[1] = items[k].file /\ e[2] = n /\ e[1] \in DOMAIN repo /\ n \in Nodes(repo[e[1]])
      BY <3>1, <2>2, <2>6
    <3>3. PICK l \in Nat \ {0} : l = Line(e) /\ l <= repo[e[1]].length /\ l \notin repo[e[1]].blank
      <4>1. PICK x \in Nat \ {0}, y \in Nat, z \in Nat :
              /\ x = Line(e) /\ y = EndOf(e) /\ z = repo[e[1]].length
              /\ x <= y /\ y <= z /\ x \notin repo[e[1]].blank
        BY <3>2, EndAfterStart
      <4>2. x <= z
        BY <4>1
      <4> QED BY <4>1, <4>2
    <3>4. items[k].start <= l /\ l <= items[k].end
      BY <2>2, <2>6, <3>1, <3>3
    <3>5. Item(items[k]).code = "source"
      BY <2>6, <3>2, <3>3, <3>4, CodeIsReadable
    <3> QED BY <2>2, <3>5
  <2> QED BY <2>1, <2>2, <2>3, <2>4, <2>5, <2>6
<1>5. ASSUME Cited(a.of, reply) = <<>>, NEW i \in DOMAIN v
      PROVE  /\ v[i].file = a.of[1] /\ v[i].code = "source"
             /\ Line(a.of) <= v[i].start /\ v[i].end <= EndOf(a.of)
  <2>1. PICK k \in 1 .. N : v[i] = Item(items[k]) /\ FileExists(items[k].file)
    BY <1>1, <1>3, EvidenceKept
  <2>2. items = Declared(a)
    BY <1>1, <1>5 DEF Evidence
  <2>3. PICK M \in Nat :
           /\ DOMAIN items = 1 .. M /\ (M # 0 => a.source)
           /\ \A j \in 1 .. M :
                /\ items[j].file = a.of[1]
                /\ items[j].start \in Nat \ {0} /\ items[j].end = items[j].start
                /\ Line(a.of) <= items[j].start /\ items[j].start <= EndOf(a.of)
                /\ items[j].start <= repo[a.of[1]].length
                /\ items[j].start \notin repo[a.of[1]].blank
    BY <2>2, <1>a, DeclaredItems
  <2>4. k \in 1 .. M /\ M # 0
    BY <2>3, <1>3
  <2>5. PICK l \in Nat \ {0} :
           /\ l = items[k].start /\ l = items[k].end /\ items[k].file = a.of[1]
           /\ Line(a.of) <= l /\ l <= EndOf(a.of)
           /\ l <= repo[a.of[1]].length /\ l \notin repo[a.of[1]].blank
    BY <2>3, <2>4
  <2>6. disk
    <3>1. a.of[1] # Outside
      BY <1>a, NoneAssumption DEF IsRepository
    <3> QED BY <2>1, <2>3, <2>4, <2>5, <3>1 DEF FileExists, OnDisk, AskedInv
  <2>7. l <= l
    OBVIOUS
  <2>8. Item(items[k]).code = "source"
    BY <1>a, <2>5, <2>6, <2>7, CodeIsReadable
  <2>9. v[i].file = items[k].file /\ v[i].start = items[k].start /\ v[i].end = items[k].end
        /\ v[i].code = Item(items[k]).code
    BY <2>1 DEF Item
  <2> QED BY <2>5, <2>8, <2>9
<1>6. ASSUME disk, ~(reply.usable /\ reply.evidence # <<>>) PROVE v # <<>> \/ ~a.source
  <2> SUFFICES ASSUME a.source PROVE v # <<>>
    OBVIOUS
  <2>1. items = Declared(a)
    BY <1>1, <1>6, <1>a, CitedItems DEF Evidence
  <2>2. PICK M \in Nat \ {0} :
           /\ DOMAIN items = 1 .. M
           /\ \A i \in 1 .. M : /\ items[i].file = a.of[1]
                                /\ items[i].start \in Nat \ {0}
                                /\ items[i].end = items[i].start
    BY <2>1, <1>a, DeclaredItems
  <2>3. PICK k \in 1 .. M : k = 1
    BY <2>2
  <2>4. FileExists(items[k].file)
    BY <1>a, <1>6, <2>2, <2>3 DEF FileExists, OnDisk
  <2>5. PICK b \in Nat \ {0} : b = items[k].start
    BY <2>2
  <2>6. items[k].start > 0 /\ items[k].start <= items[k].end
    BY <2>2, <2>5
  <2> QED BY <2>2, <2>4, <2>6, <1>1, EvidenceKept
<1>7. disk => a.source
  BY DEF AskedInv
<1> QED BY <1>4, <1>5, <1>6, <1>7

-----------------------------------------------------------------------------
(* The invariant.                                                          *)

(* What is answered is what the rows of the repository give.               *)
AnswerIsOfTheRows ==
  /\ rows # None
  /\ answer.kind \in {"graph", "impact", "summary", "explanation", "error"}
  /\ answer.kind = "graph" =>
       \E order \in Orders(repo, rows) : answer.value = BuildGraph(rows, order)
  /\ answer.kind = "impact" =>
       answer.of \in DOMAIN rows.entities /\ answer.value = CalculateImpact(rows, answer.of)
  /\ answer.kind = "summary" =>
       \E order \in Orders(repo, rows) : answer.value = GenerateSummary(rows, order)

(* The inductive invariant.                                                *)
KnowledgeInv ==
  /\ repo \in Repositories /\ parsed \subseteq DOMAIN repo
  /\ stored \in {"present", "gone"} /\ disk \in BOOLEAN
  /\ rows # None => rows = StoreParseResults(repo) /\ parsed = DOMAIN repo
  /\ asked # None => rows # None /\ AskedInv(asked)
  /\ answer # None => AnswerIsOfTheRows
  /\ ExplanationsAreGrounded

(* The repository is one of those assumed.                                 *)
LEMMA RepoIsRepository == ASSUME KnowledgeInv PROVE IsRepository(repo)
BY RepositoriesAssumption DEF KnowledgeInv, IsRepository

(* It holds at first,                                                      *)
LEMMA InvInit == Init => KnowledgeInv
<1> SUFFICES ASSUME Init PROVE KnowledgeInv
  OBVIOUS
<1>1. ExplanationsAreGrounded
  BY DEF Init, ExplanationsAreGrounded, CodeIsShownWhereItStands, StaticEvidenceIsTheSource,
         StaticExplanationsAreCited, Answered
<1> QED BY <1>1 DEF Init, KnowledgeInv

(* An answer that is no explanation has nothing to be grounded.            *)
LEMMA NoExplanation ==
  ASSUME answer' = None \/ answer'.kind # "explanation"
  PROVE  ExplanationsAreGrounded'
BY DEF ExplanationsAreGrounded, CodeIsShownWhereItStands, StaticEvidenceIsTheSource,
       StaticExplanationsAreCited, Answered

(* The lines of a repository are what they were.                           *)
LEMMA LinesStay ==
  ASSUME repo' = repo
  PROVE  /\ \A e : Line(e)' = Line(e)
         /\ \A e : EndOf(e)' = EndOf(e)
         /\ \A e, reply : Cited(e, reply)' = Cited(e, reply)
<1>1. \A e : Line(e)' = Line(e)
  BY DEF Line
<1>2. \A e : EndOf(e)' = EndOf(e)
  BY DEF EndOf
<1>3. \A e, reply : Cited(e, reply)' = Cited(e, reply)
  BY DEF Cited, Line, EndOf
<1> QED BY <1>1, <1>2, <1>3

(* after an explanation, whatever the model replied,                       *)
LEMMA InvReceive == KnowledgeInv /\ ReceiveExplanation => KnowledgeInv'
<1> SUFFICES ASSUME KnowledgeInv, ReceiveExplanation PROVE KnowledgeInv'
  OBVIOUS
<1>1. PICK reply \in Replies :
        answer' = [kind |-> "explanation", of |-> asked.of, model |-> reply,
                   after |-> [stored |-> stored, disk |-> disk],
                   value |-> [fields   |-> ExplanationFields(reply),
                              evidence |-> ValidateEvidence(Evidence(asked, reply))]]
  BY DEF ReceiveExplanation
<1>2. /\ asked # None /\ asked' = None
      /\ repo' = repo /\ parsed' = parsed /\ rows' = rows /\ stored' = stored /\ disk' = disk
  BY DEF ReceiveExplanation
<1>3. rows # None /\ rows = StoreParseResults(repo) /\ AskedInv(asked)
  BY <1>2 DEF KnowledgeInv
<1>4. PICK v, e : v = ValidateEvidence(Evidence(asked, reply)) /\ e = asked.of
  OBVIOUS
<1>5. /\ answer'.kind = "explanation" /\ answer'.value.evidence = v
      /\ answer'.model = reply /\ answer'.of = e
      /\ answer'.after.stored = stored /\ (answer'.after.disk <=> disk)
  BY <1>1, <1>4
<1>6. /\ \A i \in DOMAIN v :
           /\ \/ v[i].file = Outside
              \/ v[i].file \in DOMAIN repo \union {0} /\ (disk \/ stored = "present")
           /\ 1 <= v[i].start /\ v[i].start <= v[i].end
           /\ v[i].code = "claimed" /\ v[i].file \in DOMAIN repo /\ disk =>
                \A n \in Nodes(repo[v[i].file]) :
                  ~(v[i].start <= Line(<<v[i].file, n>>) /\ Line(<<v[i].file, n>>) <= v[i].end)
      /\ Cited(e, reply) = <<>> => \A i \in DOMAIN v :
           /\ v[i].file = e[1] /\ v[i].code = "source"
           /\ Line(e) <= v[i].start /\ v[i].end <= EndOf(e)
      /\ v = <<>> => ~disk \/ (reply.usable /\ reply.evidence # <<>>)
  BY <1>3, <1>4, RepoIsRepository, EvidenceGrounded
<1>7. /\ \A x : Line(x)' = Line(x)
      /\ \A x : EndOf(x)' = EndOf(x)
      /\ \A x, r : Cited(x, r)' = Cited(x, r)
  BY <1>2, LinesStay
<1>8. CodeIsShownWhereItStands'
  <2> SUFFICES ASSUME NEW i \in DOMAIN v
               PROVE  /\ \/ v[i].file = Outside
                         \/ v[i].file \in DOMAIN repo' \union {0}
                            /\ (answer'.after.disk \/ answer'.after.stored = "present")
                      /\ 1 <= v[i].start /\ v[i].start <= v[i].end
                      /\ v[i].code = "claimed" /\ v[i].file \in DOMAIN repo' /\ answer'.after.disk =>
                           \A n \in Nodes(repo'[v[i].file]) :
                             ~(v[i].start <= Line(<<v[i].file, n>>)'
                               /\ Line(<<v[i].file, n>>)' <= v[i].end)
    BY <1>5 DEF CodeIsShownWhereItStands
  <2> QED BY <1>2, <1>5, <1>6, <1>7
<1>9. StaticEvidenceIsTheSource'
  <2> SUFFICES ASSUME Cited(e, reply)' = <<>>, NEW i \in DOMAIN v
               PROVE  /\ v[i].file = e[1] /\ v[i].code = "source"
                      /\ Line(e)' <= v[i].start /\ v[i].end <= EndOf(e)'
    BY <1>5 DEF StaticEvidenceIsTheSource
  <2> QED BY <1>6, <1>7
<1>10. StaticExplanationsAreCited'
  BY <1>5, <1>6 DEF StaticExplanationsAreCited
<1>11. AnswerIsOfTheRows'
  BY <1>2, <1>3, <1>5 DEF AnswerIsOfTheRows
<1> QED BY <1>2, <1>8, <1>9, <1>10, <1>11 DEF KnowledgeInv, ExplanationsAreGrounded

(* and after every step.                                                   *)
LEMMA InvNext == KnowledgeInv /\ [Next]_vars => KnowledgeInv'
<1> SUFFICES ASSUME KnowledgeInv, [Next]_vars PROVE KnowledgeInv'
  OBVIOUS
<1>1. ASSUME repo' = repo, answer' = answer PROVE ExplanationsAreGrounded'
  <2>1. CodeIsShownWhereItStands /\ StaticEvidenceIsTheSource /\ StaticExplanationsAreCited
    BY DEF KnowledgeInv, ExplanationsAreGrounded
  <2>2. /\ \A e : Line(e)' = Line(e)
        /\ \A e : EndOf(e)' = EndOf(e)
        /\ \A e, r : Cited(e, r)' = Cited(e, r)
    BY <1>1, LinesStay
  <2>3. CodeIsShownWhereItStands'
    BY <1>1, <2>1, <2>2 DEF CodeIsShownWhereItStands, Answered
  <2>4. StaticEvidenceIsTheSource'
    BY <1>1, <2>1, <2>2 DEF StaticEvidenceIsTheSource, Answered
  <2>5. StaticExplanationsAreCited'
    BY <1>1, <2>1 DEF StaticExplanationsAreCited, Answered
  <2> QED BY <2>3, <2>4, <2>5 DEF ExplanationsAreGrounded
<1>2. ASSUME NEW f \in DOMAIN repo, ParseFile(f) PROVE KnowledgeInv'
  <2>1. ExplanationsAreGrounded'
    BY <1>1, <1>2 DEF ParseFile
  <2> QED BY <2>1, <1>2 DEF ParseFile, KnowledgeInv, AnswerIsOfTheRows, AskedInv
<1>3. CASE StoreFacts
  <2>1. ExplanationsAreGrounded'
    BY <1>1, <1>3 DEF StoreFacts
  <2> QED BY <2>1, <1>3 DEF StoreFacts, KnowledgeInv, AnswerIsOfTheRows, AskedInv
<1>4. CASE AskGraph
  <2>1. /\ \E order \in Orders(repo, rows) :
             answer' = [kind |-> "graph", value |-> BuildGraph(rows, order)]
        /\ UNCHANGED <<repo, parsed, rows, stored, disk, asked>> /\ rows # None
    BY <1>4 DEF AskGraph, Answerable
  <2>2. answer'.kind = "graph" /\ \E order \in Orders(repo, rows) : answer'.value = BuildGraph(rows, order)
    BY <2>1
  <2>3. ExplanationsAreGrounded'
    BY <2>2, NoExplanation
  <2>4. AnswerIsOfTheRows'
    BY <2>1, <2>2 DEF AnswerIsOfTheRows
  <2> QED BY <2>1, <2>3, <2>4 DEF KnowledgeInv, AskedInv
<1>5. CASE AskImpact
  <2>1. /\ \E e \in DOMAIN rows.entities :
             answer' = [kind |-> "impact", of |-> e, value |-> CalculateImpact(rows, e)]
        /\ UNCHANGED <<repo, parsed, rows, stored, disk, asked>> /\ rows # None
    BY <1>5 DEF AskImpact, Answerable
  <2>2. /\ answer'.kind = "impact" /\ answer'.of \in DOMAIN rows.entities
        /\ answer'.value = CalculateImpact(rows, answer'.of)
    BY <2>1
  <2>3. ExplanationsAreGrounded'
    BY <2>2, NoExplanation
  <2>4. AnswerIsOfTheRows'
    BY <2>1, <2>2 DEF AnswerIsOfTheRows
  <2> QED BY <2>1, <2>3, <2>4 DEF KnowledgeInv, AskedInv
<1>6. CASE AskSummary
  <2>1. /\ \E order \in Orders(repo, rows) :
             answer' = [kind |-> "summary", value |-> GenerateSummary(rows, order)]
        /\ UNCHANGED <<repo, parsed, rows, stored, disk, asked>> /\ rows # None
    BY <1>6 DEF AskSummary, Answerable
  <2>2. /\ answer'.kind = "summary"
        /\ \E order \in Orders(repo, rows) : answer'.value = GenerateSummary(rows, order)
    BY <2>1
  <2>3. ExplanationsAreGrounded'
    BY <2>2, NoExplanation
  <2>4. AnswerIsOfTheRows'
    BY <2>1, <2>2 DEF AnswerIsOfTheRows
  <2> QED BY <2>1, <2>3, <2>4 DEF KnowledgeInv, AskedInv
<1>7. CASE AskExplanation
  <2>1. rows # None /\ asked = None /\ UNCHANGED <<repo, parsed, rows, stored, disk>>
    BY <1>7 DEF AskExplanation, Answerable
  <2>2. CASE answer' = None /\ \E e \in DOMAIN rows.entities : asked' = [of |-> e, source |-> disk]
    <3>1. asked'.of \in DOMAIN rows.entities /\ (asked'.source <=> disk)
      BY <2>2
    <3>2. AskedInv(asked)'
      BY <2>1, <3>1 DEF AskedInv
    <3>3. ExplanationsAreGrounded'
      BY <2>2, NoExplanation
    <3> QED BY <2>1, <2>2, <3>2, <3>3 DEF KnowledgeInv
  <2>3. CASE answer' = [kind |-> "error"] /\ asked' = asked
    <3>1. answer'.kind = "error"
      BY <2>3
    <3>2. ExplanationsAreGrounded'
      BY <3>1, NoExplanation
    <3>3. AnswerIsOfTheRows'
      BY <2>1, <3>1 DEF AnswerIsOfTheRows
    <3> QED BY <2>1, <2>3, <3>2, <3>3 DEF KnowledgeInv
  <2> QED BY <1>7, <2>2, <2>3 DEF AskExplanation
<1>8. CASE ReceiveExplanation
  BY <1>8, InvReceive
<1>9. CASE ExplanationRaises
  <2>1. /\ asked # None /\ asked' = None /\ answer' = [kind |-> "error"]
        /\ UNCHANGED <<repo, parsed, rows, stored, disk>>
    BY <1>9 DEF ExplanationRaises
  <2>2. answer'.kind = "error" /\ rows # None
    BY <2>1 DEF KnowledgeInv
  <2>3. ExplanationsAreGrounded'
    BY <2>2, NoExplanation
  <2>4. AnswerIsOfTheRows'
    BY <2>1, <2>2 DEF AnswerIsOfTheRows
  <2> QED BY <2>1, <2>3, <2>4 DEF KnowledgeInv
<1>10. ASSUME UNCHANGED <<repo, parsed, rows, asked, answer>>,
              stored' \in {"present", "gone"}, disk' \in BOOLEAN,
              asked # None => AskedInv(asked)'
       PROVE  KnowledgeInv'
  <2>1. ExplanationsAreGrounded'
    BY <1>1, <1>10
  <2>2. answer' # None => AnswerIsOfTheRows'
    BY <1>10 DEF KnowledgeInv, AnswerIsOfTheRows
  <2> QED BY <2>1, <2>2, <1>10 DEF KnowledgeInv
<1>11. CASE DeleteRows
  <2>1. stored' = "gone" /\ UNCHANGED <<repo, parsed, rows, disk, asked, answer>>
    BY <1>11 DEF DeleteRows
  <2>2. asked # None => AskedInv(asked)'
    BY <2>1 DEF KnowledgeInv, AskedInv
  <2> QED BY <1>10, <2>1, <2>2 DEF KnowledgeInv
<1>12. CASE DeleteFiles
  <2>1. /\ stored = "gone" /\ disk' = FALSE
        /\ UNCHANGED <<repo, parsed, rows, stored, asked, answer>>
    BY <1>12 DEF DeleteFiles
  <2>2. asked # None => AskedInv(asked)'
    BY <2>1 DEF KnowledgeInv, AskedInv
  <2> QED BY <1>10, <2>1, <2>2
<1>13. CASE LoseFiles
  <2>1. /\ disk' = FALSE /\ asked' = None /\ answer' = None
        /\ UNCHANGED <<repo, parsed, rows, stored>>
    BY <1>13 DEF LoseFiles
  <2>2. ExplanationsAreGrounded'
    BY <2>1, NoExplanation
  <2> QED BY <2>1, <2>2 DEF KnowledgeInv
<1>14. CASE UNCHANGED vars
  <2>1. UNCHANGED <<repo, parsed, rows, stored, disk, asked, answer>>
    BY <1>14 DEF vars
  <2>2. asked # None => AskedInv(asked)'
    BY <2>1 DEF KnowledgeInv, AskedInv
  <2> QED BY <1>10, <2>1, <2>2 DEF KnowledgeInv
<1> QED BY <1>2, <1>3, <1>4, <1>5, <1>6, <1>7, <1>8, <1>9, <1>11, <1>12, <1>13, <1>14 DEF Next

(* Once parsed, the rows are those of the repository whatever is asked,    *)
(* deleted or lost meanwhile, and every answer is what they give, in one   *)
(* of the orders the database may return them in; what an explanation      *)
(* shows for lines of code is those lines, of whatever file the model      *)
(* cites, and its own evidence the entity's (analysis.py:133-181,          *)
(* graph.py:47-208, impact.py:43-158, summary.py:82-179,                   *)
(* explanation.py:376-448).                                                *)
THEOREM InvariantHolds == Spec => []KnowledgeInv
BY InvInit, InvNext, PTL DEF Spec

-----------------------------------------------------------------------------
(* The properties the run checks.                                          *)

(* References between the rows resolve.                                    *)
LEMMA InvTypeOK == KnowledgeInv => TypeOK
<1> SUFFICES ASSUME KnowledgeInv PROVE TypeOK
  OBVIOUS
<1>1. ASSUME rows # None
      PROVE  /\ parsed = DOMAIN repo
             /\ \A e \in DOMAIN rows.entities : rows.entities[e].parent \in References
             /\ \A c \in rows.calls : {c.caller, c.callee} \subseteq References
             /\ \A b \in rows.bases : b.entity \in DOMAIN rows.entities /\ b.parent \in References
  <2>1. rows = StoreParseResults(repo) /\ IsRepository(repo) /\ parsed = DOMAIN repo
    BY <1>1, RepoIsRepository DEF KnowledgeInv
  <2> QED BY <2>1, RowsRefer DEF References
<1> QED BY <1>1 DEF TypeOK, KnowledgeInv, AnswerIsOfTheRows, AskedInv

(* Calls are filed under their callers.                                    *)
LEMMA InvFactsAreFiled == KnowledgeInv => FactsAreFiled
<1> SUFFICES ASSUME KnowledgeInv PROVE FactsAreFiled
  OBVIOUS
<1>1. CallsAreFiledUnderTheirCaller
  <2> SUFFICES ASSUME rows # None, NEW f \in DOMAIN repo, NEW c \in OfKind(repo[f], {"call"})
               PROVE  Filed(repo, rows, f, c)
    BY DEF CallsAreFiledUnderTheirCaller, Filed, Owner
  <2>1. rows = StoreParseResults(repo) /\ IsRepository(repo)
    BY RepoIsRepository DEF KnowledgeInv
  <2> QED BY <2>1, CallsFiled
<1> QED BY <1>1, InvTypeOK DEF FactsAreFiled

(* A graph that was answered was built of the rows.                        *)
LEMMA AnsweredGraph ==
  ASSUME KnowledgeInv, Answered("graph")
  PROVE  /\ rows = StoreParseResults(repo) /\ IsRepository(repo)
         /\ \E order \in Orders(repo, rows) : answer.value = BuildGraph(rows, order)
BY RepoIsRepository DEF KnowledgeInv, AnswerIsOfTheRows, Answered

(* So it has no edge in the air and no node outside a module,              *)
LEMMA InvEveryNode == KnowledgeInv => EveryNodeIsInAModule
<1> SUFFICES ASSUME KnowledgeInv, Answered("graph")
             PROVE  /\ \A e \in answer.value.edges : {e.source, e.target} \subseteq answer.value.nodes
                    /\ Inside(answer.value, repo)[Cardinality(answer.value.nodes)] = answer.value.nodes
  BY DEF EveryNodeIsInAModule, Inside, Inner
<1>1. rows = StoreParseResults(repo) /\ IsRepository(repo)
  BY AnsweredGraph
<1>2. PICK order \in Orders(repo, rows) : answer.value = BuildGraph(rows, order)
  BY AnsweredGraph
<1>3. \A d \in answer.value.edges : {d.source, d.target} \subseteq answer.value.nodes
  BY <1>1, <1>2, EdgesJoinNodes
<1> QED BY <1>1, <1>2, <1>3, NodesLieInModules

(* depends on no order where names are distinct,                           *)
LEMMA InvGraphOfFacts == KnowledgeInv => GraphIsOfTheFacts
<1> SUFFICES ASSUME KnowledgeInv, Answered("graph"), DistinctStems, DistinctNames,
                    NEW order \in Orders(repo, rows)
             PROVE  answer.value = BuildGraph(rows, order)
  BY DEF GraphIsOfTheFacts
<1>1. rows = StoreParseResults(repo) /\ IsRepository(repo)
  BY AnsweredGraph
<1>2. PICK o \in Orders(repo, rows) : answer.value = BuildGraph(rows, o)
  BY AnsweredGraph
<1>3. StemsDiffer(repo) /\ NamesDiffer(repo)
  BY DEF StemsDiffer, NamesDiffer, DistinctStems, DistinctNames
<1> QED BY <1>1, <1>2, <1>3, GraphsAlike

(* and leads dotted calls where they say.                                  *)
LEMMA InvQualifiedCalls == KnowledgeInv => QualifiedCallsFollowTheirModule
<1> SUFFICES ASSUME KnowledgeInv, Answered("graph"), DistinctStems,
                    NEW c \in rows.calls, NEW g \in DOMAIN repo,
                    ~c.dynamic, c.caller # None, c.on = repo[g].stem, c.site[1] # g,
                    c.name \notin LocalNames(repo[c.site[1]]), c.name \in LocalNames(repo[g])
             PROVE  \E e \in answer.value.edges :
                      e.kind = "call" /\ e.site = c.site /\ e.target[1] = g /\ Last(e.target[2]) = c.name
  BY DEF QualifiedCallsFollowTheirModule
<1>1. rows = StoreParseResults(repo) /\ IsRepository(repo)
  BY AnsweredGraph
<1>2. PICK o \in Orders(repo, rows) : answer.value = BuildGraph(rows, o)
  BY AnsweredGraph
<1>3. StemsDiffer(repo)
  BY DEF StemsDiffer, DistinctStems
<1> QED BY <1>1, <1>2, <1>3, DottedCallsLead

(* A summary that was answered was made of the rows.                       *)
LEMMA AnsweredSummary ==
  ASSUME KnowledgeInv, Answered("summary")
  PROVE  /\ rows = StoreParseResults(repo) /\ IsRepository(repo)
         /\ \E order \in Orders(repo, rows) : answer.value = GenerateSummary(rows, order)
BY RepoIsRepository DEF KnowledgeInv, AnswerIsOfTheRows, Answered

(* So it tells of each ring of imports,                                    *)
LEMMA InvCycles == KnowledgeInv => CyclesAreReported
<1> SUFFICES ASSUME KnowledgeInv, Answered("summary"), DistinctStems,
                    NEW f \in DOMAIN repo, f \in Reach(rows, repo)[Len(repo)][f]
             PROVE  \E i \in answer.value.issues : i.kind = "circular_dependency" /\ f \in i.of
  BY DEF CyclesAreReported, Reach, Further, Direct
<1>1. rows = StoreParseResults(repo) /\ IsRepository(repo)
  BY AnsweredSummary
<1>2. PICK o \in Orders(repo, rows) : answer.value = GenerateSummary(rows, o)
  BY AnsweredSummary
<1>3. StemsDiffer(repo)
  BY DEF StemsDiffer, DistinctStems
<1> QED BY <1>1, <1>2, <1>3, RingsAreReported

(* and of no more callers than the impact does, of an entity whose calls   *)
(* are on lines apart.                                                     *)
LEMMA InvFanIn == KnowledgeInv => FanInIsWithinTheImpact
<1> SUFFICES ASSUME KnowledgeInv, Answered("summary"), NEW h \in answer.value.highRisk,
                    NEW e \in DOMAIN rows.entities, NodeId(rows, e) = h.node, OnLinesApart(e)
             PROVE  h.callers <= Cardinality(CalculateImpact(rows, e).callers)
  BY DEF FanInIsWithinTheImpact
<1>1. rows = StoreParseResults(repo) /\ IsRepository(repo)
  BY AnsweredSummary
<1>2. PICK o \in Orders(repo, rows) : answer.value = GenerateSummary(rows, o)
  BY AnsweredSummary
<1>3. Apart(rows, e)
  BY DEF Apart, OnLinesApart
<1> QED BY <1>1, <1>2, <1>3, FanInWithinImpact

(* An impact lists every caller the graph draws.                           *)
LEMMA InvImpact == KnowledgeInv => ImpactCoversTheGraph
<1> SUFFICES ASSUME KnowledgeInv, Answered("impact"), NEW order \in Orders(repo, rows),
                    NEW c \in CallEdges(rows, order), c.target = NodeId(rows, answer.of)
             PROVE  /\ \E d \in answer.value.callers : d.file = c.source[1] /\ d.line = Line(c.site)
                    /\ answer.value.level # "LOW"
  BY DEF ImpactCoversTheGraph
<1>1. /\ rows = StoreParseResults(repo) /\ IsRepository(repo)
      /\ answer.of \in DOMAIN rows.entities /\ answer.value = CalculateImpact(rows, answer.of)
  BY RepoIsRepository DEF KnowledgeInv, AnswerIsOfTheRows, Answered
<1>2. PICK r \in CallersOf(rows, answer.of) :
         /\ [name |-> Last(c.source[2]), file |-> c.source[1], line |-> r.line]
              \in CalculateImpact(rows, answer.of).callers
         /\ r.line = repo[c.site[1]].nodes[c.site[2]].line
  BY <1>1, EdgeIsShown
<1>3. PICK d : d = [name |-> Last(c.source[2]), file |-> c.source[1], line |-> r.line]
  OBVIOUS
<1>4. d \in answer.value.callers /\ d.file = c.source[1] /\ d.line = Line(c.site)
  BY <1>1, <1>2, <1>3 DEF Line
<1>5. answer.value.callers # {}
  BY <1>4
<1> QED BY <1>1, <1>4, <1>5, CallersShown

(* Every reference stored between rows resolves to an entity of the        *)
(* repository (analysis.py:133-181).                                       *)
THEOREM TypeCorrect == Spec => []TypeOK
BY InvariantHolds, InvTypeOK, PTL

(* Every call is filed once, under the definition it is written in or its  *)
(* namesake, for any files of any length and depth of nesting              *)
(* (python_parser.py:79-151, java_parser.py:182-193, analysis.py:177-181). *)
THEOREM FactsAlwaysFiled == Spec => []FactsAreFiled
BY InvariantHolds, InvFactsAreFiled, PTL

(* Every graph is sound: its edges join its nodes, its nodes lie in        *)
(* modules, the order of the rows does not matter where names are          *)
(* distinct, and dotted calls lead to their module (graph.py:57-186).      *)
THEOREM GraphsAlwaysSound == Spec => []GraphIsSound
<1>1. KnowledgeInv => GraphIsSound
  BY InvEveryNode, InvGraphOfFacts, InvQualifiedCalls DEF GraphIsSound
<1> QED BY <1>1, InvariantHolds, PTL

(* Modules that import one another around a ring of any length are         *)
(* reported as a circular dependency, whatever the limit on issues         *)
(* (graph.py:287-309, summary.py:82-131).                                  *)
THEOREM CyclesAlwaysReported == Spec => []CyclesAreReported
BY InvariantHolds, InvCycles, PTL

(* The impact lists every caller the graph draws, in whatever order the    *)
(* graph was built, and no fewer than the summary counts of an entity of   *)
(* which no two callers of one name share a line (impact.py:43-158 against *)
(* graph.py:188-208 and summary.py:134-179).                               *)
THEOREM ImpactAlwaysAgrees == Spec => []ImpactAgreesWithGraph
<1>1. KnowledgeInv => ImpactAgreesWithGraph
  BY InvImpact, InvFanIn DEF ImpactAgreesWithGraph
<1> QED BY <1>1, InvariantHolds, PTL

(* Whatever the model replied, an explanation shows its text for no line   *)
(* of code that could be read, the evidence the model did not give is the  *)
(* entity's own source, and it cites something unless the files are gone   *)
(* or all the model cited was thrown away (explanation.py:376-448).        *)
THEOREM ExplanationsAlwaysGrounded == Spec => []ExplanationsAreGrounded
<1>1. KnowledgeInv => ExplanationsAreGrounded
  BY DEF KnowledgeInv
<1> QED BY <1>1, InvariantHolds, PTL
==============================================================================
