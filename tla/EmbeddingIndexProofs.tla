------------------------ MODULE EmbeddingIndexProofs -------------------------
(***************************************************************************)
(* Theorems of EmbeddingIndex, for any texts and chunks, any number of     *)
(* builds and searches at once, any size of a batch and any retries.       *)
(*                                                                         *)
(* What a call has been answered is, as long as nothing is missing from    *)
(* it, what it asked for, in the order it asked: so a vector is stored for *)
(* the text it was made from, or the call fails.                           *)
(***************************************************************************)
EXTENDS EmbeddingIndex, FiniteSetTheorems, SequenceTheorems, WellFoundedInduction, TLAPS

(* The texts of the positions a call asks for are stored with their own    *)
(* vectors, or not at all.                                                 *)
CacheIsRight == \A t \in Texts : cache[t] \in {t, None}

Typed ==
  /\ caching \in BOOLEAN
  /\ cache \in [Texts -> Vectors]
  /\ index \in [Builds -> Seq(Chunk)]
  /\ at \in [Calls -> PCs]
  /\ repo \in [Calls -> Repositories \union {None}]
  /\ beside \in [Calls -> SUBSET Builds]
  /\ want \in [Calls -> Seq(Texts)]
  /\ found \in [Calls -> Seq(Vectors)]
  /\ missing \in [Calls -> Seq(Nat)]
  /\ sent \in [Calls -> Nat]
  /\ got \in [Calls -> Seq(Texts)]
  /\ attempt \in [Calls -> 0..Retries]
  /\ result \in [Searches -> [Builds -> Seq(Chunk)]]
  /\ asked \in [Calls -> SUBSET Texts]

(* A call that has not looked into the table has nothing in hand.          *)
Fresh(c) ==
  /\ want[c] \in Seq(Texts)
  /\ found[c] = <<>> /\ missing[c] = <<>> /\ sent[c] = 0 /\ got[c] = <<>> /\ asked[c] = {}

(* One that has: each position was found or is asked for, and the answers  *)
(* so far are those asked for so far, or fewer.                            *)
Embedding(c) ==
  /\ Len(found[c]) = Len(want[c])
  /\ \A i \in DOMAIN want[c] : found[c][i] \in {want[c][i], None}
  /\ \A i \in DOMAIN want[c] : found[c][i] = None => \E k \in DOMAIN missing[c] : missing[c][k] = i
  /\ \A k \in DOMAIN missing[c] : missing[c][k] \in DOMAIN want[c]
  /\ sent[c] <= Len(missing[c]) /\ Len(got[c]) <= sent[c]
  /\ Len(got[c]) = sent[c] => \A k \in DOMAIN got[c] : got[c][k] = want[c][missing[c][k]]
  /\ \A t \in asked[c] : \E k \in DOMAIN missing[c] : want[c][missing[c][k]] = t

(* Where each call is.                                                     *)
PlacedAt(c) ==
  /\ at[c] # "idle" => repo[c] \in Repositories
  /\ at[c] \in {"idle", "looking"} => Fresh(c)
  /\ at[c] \notin {"idle", "looking"} => Embedding(c)
  /\ at[c] = "asking" => sent[c] < Len(missing[c])
  /\ at[c] = "received" => sent[c] = Len(missing[c])
  /\ at[c] \in HaveVectors => Len(got[c]) = Len(missing[c])

(* Its new rows cannot be inserted.                                        *)
Collides(c) ==
  \/ \E j, k \in DOMAIN missing[c] :
       j # k /\ want[c][missing[c][j]] = want[c][missing[c][k]]
  \/ \E k \in DOMAIN missing[c] : cache[want[c][missing[c][k]]] # None

(* A call that had every vector fails by a collision only.                 *)
Excused(c) ==
  at[c] = "failed" /\ missing[c] # <<>> /\ Len(got[c]) = Len(missing[c]) => Collides(c)

(* The texts of a call that has its vectors are stored.                    *)
Kept(c) ==
  caching /\ at[c] \in HaveVectors => \A t \in asked[c] : cache[t] # None

(* The rows of a build are there when it is done, all of them.             *)
RowsAreWhole ==
  \A b \in Builds : index[b] # <<>> =>
    at[b] = "done" /\ repo[b] \in Repositories /\ index[b] = Chunks(b)

(* Of two builds of a repository that did not overlap one has ended, and   *)
(* nothing of it is left.                                                  *)
Dropped(b) == at[b] \in Ended /\ index[b] = <<>>

Apart ==
  \A a, b \in Builds :
    a # b /\ at[a] # "idle" /\ at[b] # "idle" /\ repo[a] = repo[b] /\ ~ Overlapped(a, b) =>
      Dropped(a) \/ Dropped(b)

ResultsAreWhole ==
  \A s \in Searches :
    /\ WholeBuilds(result[s], repo[s])
    /\ at[s] # "done" => \A b \in Builds : result[s][b] = <<>>

(* The inductive invariant.                                                *)
IInv ==
  /\ Typed /\ CacheIsRight /\ RowsAreWhole /\ Apart /\ ResultsAreWhole /\ OneAskerSucceeds
  /\ \A c \in Calls : PlacedAt(c) /\ Excused(c) /\ Kept(c)

------------------------------------------------------------------------------
(* Putting numbers in order.                                               *)

(* A set of numbers that is not empty has a least one.                     *)
LEMMA Least ==
  ASSUME NEW S, S \subseteq Nat, S # {}
  PROVE  \E n \in S : \A m \in S : n <= m
<1>1. PICK n \in S : \A m \in S : ~ (<<m, n>> \in OpToRel(<, Nat))
  BY NatLessThanWellFounded, WFMin
<1>2. \A m \in S : ~ (m < n)
  <2> SUFFICES ASSUME NEW m \in S, m < n PROVE FALSE
    OBVIOUS
  <2>1. <<m, n>> \in OpToRel(<, Nat)
    BY DEF OpToRel
  <2> QED BY <1>1, <2>1
<1> QED BY <1>2

(* Every finite set of numbers can be put in order: else one of the fewest *)
(* members could not, and removing its least member leaves one that can.   *)
LEMMA OrderExists ==
  ASSUME NEW S, S \subseteq Nat, IsFiniteSet(S)
  PROVE  \E m \in Bijection(1..Cardinality(S), S) :
           \A j, k \in 1..Cardinality(S) : j < k => m[j] < m[k]
<1> DEFINE Rises(m, n) == \A j, k \in 1..n : j < k => m[j] < m[k]
           HasOrder(T) == \E m \in Bijection(1..Cardinality(T), T) : Rises(m, Cardinality(T))
           Bad == {n \in Nat : \E T \in SUBSET Nat :
                     IsFiniteSet(T) /\ Cardinality(T) = n /\ ~ HasOrder(T)}
<1>1. Bad = {}
  <2> SUFFICES ASSUME Bad # {} PROVE FALSE
    OBVIOUS
  <2>1. PICK n \in Bad : \A m \in Bad : n <= m
    BY Least
  <2>2. PICK T \in SUBSET Nat : IsFiniteSet(T) /\ Cardinality(T) = n /\ ~ HasOrder(T)
    BY <2>1
  <2>3. T # {}
    <3> SUFFICES ASSUME T = {} PROVE FALSE
      OBVIOUS
    <3>1. Cardinality(T) = 0
      BY FS_EmptySet
    <3>2. [i \in 1..0 |-> 0] \in Bijection(1..0, {})
      BY DEF Bijection, Injection, Surjection, IsInjective
    <3> QED BY <2>2, <3>1, <3>2
  <2>4. PICK x \in T : \A y \in T : x <= y
    BY <2>3, Least
  <2> DEFINE U == T \ {x}
  <2>5. IsFiniteSet(U) /\ Cardinality(U) = n - 1 /\ n \in Nat /\ U \subseteq Nat
    BY <2>1, <2>2, <2>4, FS_RemoveElement
  <2>6. n - 1 \in Nat
    BY <2>5, FS_CardinalityType
  <2>7. HasOrder(U)
    <3> SUFFICES ASSUME ~ HasOrder(U) PROVE FALSE
      OBVIOUS
    <3> HIDE DEF HasOrder, U
    <3>1. n - 1 \in Bad
      BY <2>5, <2>6
    <3> QED BY <2>1, <2>5, <2>6, <3>1
  <2>8. PICK u \in Bijection(1..(n - 1), U) : Rises(u, n - 1)
    BY <2>5, <2>7
  <2>9. /\ u \in [1..(n - 1) -> U]
        /\ \A j, k \in 1..(n - 1) : u[j] = u[k] => j = k
        /\ \A y \in U : \E k \in 1..(n - 1) : u[k] = y
    BY <2>8 DEF Bijection, Injection, Surjection, IsInjective
  <2> DEFINE t == [k \in 1..n |-> IF k = 1 THEN x ELSE u[k - 1]]
  <2>10. \A k \in 1..n : k # 1 => k - 1 \in 1..(n - 1)
    BY <2>5, <2>6
  <2>11. t \in [1..n -> T] /\ t[1] = x /\ \A k \in 1..n : k # 1 => t[k] = u[k - 1] /\ t[k] \in U
    BY <2>4, <2>6, <2>9, <2>10
  <2>12. Rises(t, n)
    <3> SUFFICES ASSUME NEW j \in 1..n, NEW k \in 1..n, j < k PROVE t[j] < t[k]
      OBVIOUS
    <3>1. k # 1 /\ t[k] = u[k - 1] /\ t[k] \in U /\ k - 1 \in 1..(n - 1)
      BY <2>10, <2>11
    <3>2. CASE j = 1
      <4> HIDE DEF t
      <4>1. t[j] = x /\ t[k] \in Nat /\ x \in Nat /\ t[k] # x /\ x <= t[k]
        BY <2>2, <2>4, <2>11, <3>1, <3>2
      <4> QED BY <4>1
    <3>3. CASE j # 1
      <4>1. j - 1 \in 1..(n - 1) /\ j - 1 < k - 1 /\ t[j] = u[j - 1]
        BY <2>10, <2>11, <3>3
      <4> QED BY <2>8, <3>1, <4>1
    <3> QED BY <3>2, <3>3
  <2>13. \A j, k \in 1..n : t[j] = t[k] => j = k
    <3> SUFFICES ASSUME NEW j \in 1..n, NEW k \in 1..n, j # k PROVE t[j] # t[k]
      OBVIOUS
    <3>1. t[j] < t[k] \/ t[k] < t[j]
      BY <2>12
    <3>2. t[j] \in Nat /\ t[k] \in Nat
      BY <2>2, <2>11
    <3> HIDE DEF t
    <3> QED BY <3>1, <3>2
  <2>14. \A y \in T : \E k \in 1..n : t[k] = y
    <3> SUFFICES ASSUME NEW y \in T PROVE \E k \in 1..n : t[k] = y
      OBVIOUS
    <3>1. CASE y = x
      BY <2>6, <2>11, <3>1
    <3>2. CASE y # x
      <4>1. PICK k \in 1..(n - 1) : u[k] = y
        BY <2>9, <3>2
      <4>2. k + 1 \in 1..n /\ k + 1 # 1 /\ (k + 1) - 1 = k
        BY <2>6
      <4> QED BY <2>11, <4>1, <4>2
    <3> QED BY <3>1, <3>2
  <2>15. t \in Bijection(1..n, T)
    <3> HIDE DEF t
    <3> QED BY <2>11, <2>13, <2>14 DEF Bijection, Injection, Surjection, IsInjective
  <2>16. HasOrder(T)
    <3> HIDE DEF t, Rises
    <3>1. t \in Bijection(1..Cardinality(T), T) /\ Rises(t, Cardinality(T))
      BY <2>2, <2>12, <2>15
    <3> QED BY <3>1
  <2> QED BY <2>2, <2>16
<1>2. Cardinality(S) \in Nat
  BY FS_CardinalityType
<1>3. HasOrder(S)
  BY <1>1, <1>2
<1> QED BY <1>3

(* So Ascending(S) lists S, each member once, in order.                    *)
LEMMA AscendingIs ==
  ASSUME NEW S, S \subseteq Nat, IsFiniteSet(S)
  PROVE  /\ Cardinality(S) \in Nat
         /\ Ascending(S) \in [1..Cardinality(S) -> S]
         /\ \A j, k \in 1..Cardinality(S) : j < k => Ascending(S)[j] < Ascending(S)[k]
         /\ \A x \in S : \E k \in 1..Cardinality(S) : Ascending(S)[k] = x
<1>1. /\ Ascending(S) \in Bijection(1..Cardinality(S), S)
      /\ \A j, k \in 1..Cardinality(S) : j < k => Ascending(S)[j] < Ascending(S)[k]
  BY OrderExists DEF Ascending
<1> QED BY <1>1, FS_CardinalityType DEF Bijection, Injection, Surjection

(* The numbers up to n are in order as they are.                           *)
LEMMA AscendingInterval ==
  ASSUME NEW n \in Nat
  PROVE  \A k \in 1..n : Ascending(1..n)[k] = k
<1> DEFINE m == Ascending(1..n)
           Moved == {k \in 1..n : m[k] # k}
<1>1. IsFiniteSet(1..n) /\ Cardinality(1..n) = n /\ 1..n \subseteq Nat
  BY FS_Interval
<1>2. /\ m \in [1..n -> 1..n]
      /\ \A j, k \in 1..n : j < k => m[j] < m[k]
      /\ \A x \in 1..n : \E k \in 1..n : m[k] = x
  BY <1>1, AscendingIs
<1>3. SUFFICES ASSUME Moved # {} PROVE FALSE
  OBVIOUS
<1> HIDE DEF m
<1>4. PICK i \in Moved : \A k \in Moved : i <= k
  <2>1. Moved \subseteq Nat
    OBVIOUS
  <2> HIDE DEF Moved
  <2> QED BY <1>3, <2>1, Least
<1>5. i \in 1..n /\ m[i] \in 1..n /\ m[i] # i /\ \A k \in 1..n : k < i => m[k] = k
  BY <1>2, <1>4
<1>6. PICK j \in 1..n : m[j] = i
  BY <1>2, <1>5
<1>7. m[i] > i
  <2>1. CASE m[i] < i
    <3>1. m[m[i]] = m[i] /\ m[m[i]] < m[i]
      BY <1>2, <1>5, <2>1
    <3> QED BY <1>5, <3>1
  <2> QED BY <1>5, <2>1
<1>8. CASE j < i
  BY <1>5, <1>6, <1>8
<1>9. CASE i < j
  <2>1. m[i] < m[j]
    BY <1>2, <1>5, <1>6, <1>9
  <2> QED BY <1>5, <1>6, <1>7, <2>1
<1> QED BY <1>5, <1>6, <1>8, <1>9

------------------------------------------------------------------------------
(* The embedder's answers.                                                 *)

(* The vectors of some positions of a batch, in order.                     *)
IsPartOf(vectors, batch, S) ==
  \A k \in 1..Cardinality(S) : vectors[k] = batch[Ascending(S)[k]]

(* Items that say which text they belong to are put in the texts' order.   *)
LEMMA ItemsInOrder ==
  ASSUME NEW n \in Nat, NEW m \in Nat, NEW batch \in [1..n -> Texts],
         NEW answer, DOMAIN answer = 1..m,
         \A k \in 1..m : /\ answer[k].index \in 1..n
                         /\ answer[k].embedding = batch[answer[k].index],
         NEW S, Cardinality(S) = m, \A k \in 1..m : answer[k].index \in S,
         \A x \in S : \E k \in 1..m : answer[k].index = x
  PROVE  /\ InOrder(answer) \in [1..m -> Texts]
         /\ IsPartOf(InOrder(answer), batch, S)
<1>1. S \subseteq Nat /\ IsFiniteSet(S)
  <2>1. S \in SUBSET (1..n)
    OBVIOUS
  <2>2. IsFiniteSet(1..n)
    BY FS_Interval
  <2>3. IsFiniteSet(S)
    BY <2>1, <2>2, FS_Subset
  <2> QED BY <2>1, <2>3
<1> DEFINE order == Ascending(S)
           Item(k) == CHOOSE item \in Range(answer) : item.index = order[k]
<1>2. \A k \in 1..m : order[k] \in S
  BY <1>1, AscendingIs
<1> HIDE DEF order
<1>3. ASSUME NEW k \in 1..m
      PROVE  Item(k).embedding = batch[order[k]]
  <2>1. PICK j \in 1..m : answer[j].index = order[k]
    BY <1>2
  <2>2. \E item \in Range(answer) : item.index = order[k]
    BY <2>1 DEF Range
  <2>3. \A item \in Range(answer) : item.index = order[k] => item.embedding = batch[order[k]]
    BY DEF Range
  <2> QED BY <2>2, <2>3
<1>4. InOrder(answer) = [k \in 1..m |-> Item(k).embedding]
  <2> DEFINE I == {answer[k].index : k \in DOMAIN answer}
             ItemOf(o, k) == (CHOOSE item \in Range(answer) : item.index = o[k]).embedding
  <2>1. \A x \in S : x \in I
    OBVIOUS
  <2>2. \A x \in I : x \in S
    OBVIOUS
  <2>3. I = S
    <3> HIDE DEF I
    <3> QED BY <2>1, <2>2
  <2>4. InOrder(answer) = [k \in 1..m |->
          ItemOf(Ascending(I), k)]
    BY DEF InOrder
  <2> HIDE DEF I, ItemOf
  <2>5. InOrder(answer) = [k \in 1..m |-> ItemOf(order, k)]
    BY <2>3, <2>4 DEF order
  <2> QED BY <2>5 DEF ItemOf
<1>5. \A k \in 1..m : order[k] \in 1..n /\ batch[order[k]] \in Texts
  BY <1>2
<1> HIDE DEF Item
<1>6. /\ InOrder(answer) \in [1..m -> Texts]
      /\ \A k \in 1..m : InOrder(answer)[k] = batch[order[k]]
  BY <1>3, <1>4, <1>5
<1> QED BY <1>6 DEF order, IsPartOf

(* A full answer is the batch itself, whatever its order; another one is   *)
(* shorter.                                                                *)
LEMMA AnswersAreTheBatch ==
  ASSUME NEW batch \in Seq(Texts), Len(batch) > 0, NEW answer \in Answers(batch)
  PROVE  /\ InOrder(answer) \in Seq(Texts)
         /\ Len(InOrder(answer)) <= Len(batch)
         /\ Len(InOrder(answer)) = Len(batch) => InOrder(answer) = batch
<1> DEFINE n == Len(batch)
<1>1. n \in Nat /\ DOMAIN batch = 1..n /\ n - 1 \in Nat /\ batch \in [1..n -> Texts]
  OBVIOUS
<1>2. IsFiniteSet(1..n) /\ Cardinality(1..n) = n
  BY <1>1, FS_Interval
<1> HIDE DEF n
<1>3. CASE \E p \in Bijection(1..n, 1..n) :
             answer = [k \in 1..n |-> [index |-> p[k], embedding |-> batch[p[k]]]]
  <2>1. PICK p \in Bijection(1..n, 1..n) :
          answer = [k \in 1..n |-> [index |-> p[k], embedding |-> batch[p[k]]]]
    BY <1>3
  <2>2. p \in [1..n -> 1..n] /\ \A i \in 1..n : \E k \in 1..n : p[k] = i
    BY DEF Bijection, Injection, Surjection
  <2>3. /\ DOMAIN answer = 1..n
        /\ \A k \in 1..n : answer[k].index = p[k] /\ answer[k].embedding = batch[p[k]]
    BY <2>1
  <2>4. /\ InOrder(answer) \in [1..n -> Texts]
        /\ \A k \in 1..n : InOrder(answer)[k] = batch[Ascending(1..n)[k]]
    <3>1. \A k \in 1..n : /\ answer[k].index \in 1..n
                          /\ answer[k].embedding = batch[answer[k].index]
      BY <2>2, <2>3
    <3> DEFINE S == 1..n
    <3>2. S = 1..n
      OBVIOUS
    <3> HIDE DEF S
    <3>3. Cardinality(S) = n
      BY <1>2 DEF S
    <3>5. \A k \in 1..n : answer[k].index \in S
      BY <2>2, <2>3 DEF S
    <3>6. \A i \in S : \E k \in 1..n : answer[k].index = i
      <4> SUFFICES ASSUME NEW i \in S PROVE \E k \in 1..n : answer[k].index = i
        OBVIOUS
      <4>1. PICK k \in 1..n : p[k] = i
        BY <2>2 DEF S
      <4>2. answer[k].index = i
        BY <2>3, <4>1
      <4> QED BY <4>2
    <3>4. InOrder(answer) \in [1..n -> Texts] /\ IsPartOf(InOrder(answer), batch, S)
      BY <1>1, <2>3, <3>1, <3>3, <3>5, <3>6, ItemsInOrder
    <3> QED BY <3>3, <3>4 DEF IsPartOf, S
  <2>5. \A k \in 1..n : InOrder(answer)[k] = batch[k]
    BY <1>1, <2>4, AscendingInterval
  <2>6. InOrder(answer) = batch
    BY <1>1, <2>4, <2>5
  <2> QED BY <1>1, <2>6
<1>4. CASE \E gap \in 1..n :
             answer = [k \in 1..(n - 1) |->
                         LET i == IF k < gap THEN k ELSE k + 1
                         IN [index |-> i, embedding |-> batch[i]]]
  <2>1. PICK gap \in 1..n :
          answer = [k \in 1..(n - 1) |->
                      LET i == IF k < gap THEN k ELSE k + 1
                      IN [index |-> i, embedding |-> batch[i]]]
    BY <1>4
  <2> DEFINE S == 1..n \ {gap}
             At(k) == IF k < gap THEN k ELSE k + 1
  <2>2. Cardinality(S) = n - 1 /\ IsFiniteSet(S) /\ S \subseteq Nat
    <3>1. gap \in 1..n
      OBVIOUS
    <3>2. Cardinality(1..n \ {gap}) = n - 1 /\ IsFiniteSet(1..n \ {gap})
      BY <1>2, <3>1, FS_RemoveElement
    <3> QED BY <3>2
  <2>3. /\ DOMAIN answer = 1..(n - 1)
        /\ \A k \in 1..(n - 1) : answer[k].index = At(k) /\ answer[k].embedding = batch[At(k)]
    BY <2>1
  <2>4. \A k \in 1..(n - 1) : At(k) \in S
    BY <1>1
  <2>5. \A i \in S : \E k \in 1..(n - 1) : At(k) = i
    <3> SUFFICES ASSUME NEW i \in S PROVE \E k \in 1..(n - 1) : At(k) = i
      OBVIOUS
    <3>1. CASE i < gap
      BY <1>1, <3>1
    <3>2. CASE i > gap
      <4>1. i - 1 \in 1..(n - 1) /\ ~ (i - 1 < gap) /\ (i - 1) + 1 = i
        BY <1>1, <3>2
      <4> QED BY <4>1
    <3> QED BY <1>1, <3>1, <3>2
  <2> HIDE DEF S, At
  <2>6. /\ \A k \in 1..(n - 1) : answer[k].index \in S
        /\ \A x \in S : \E k \in 1..(n - 1) : answer[k].index = x
    BY <2>3, <2>4, <2>5
  <2>7. S \subseteq 1..n
    BY DEF S
  <2>8. InOrder(answer) \in [1..(n - 1) -> Texts]
    <3>1. \A k \in 1..(n - 1) : /\ answer[k].index \in 1..n
                                /\ answer[k].embedding = batch[answer[k].index]
      BY <2>3, <2>4, <2>7
    <3>2. DOMAIN answer = 1..(n - 1) /\ Cardinality(S) = n - 1
      BY <2>2, <2>3
    <3>3. InOrder(answer) \in [1..(n - 1) -> Texts] /\ IsPartOf(InOrder(answer), batch, S)
      BY <1>1, <2>6, <3>1, <3>2, ItemsInOrder
    <3> QED BY <3>3
  <2>9. InOrder(answer) \in Seq(Texts) /\ Len(InOrder(answer)) = n - 1
    BY <1>1, <2>8
  <2>10. n - 1 <= n /\ n - 1 # n
    BY <1>1
  <2>11. Len(InOrder(answer)) <= Len(batch) /\ Len(InOrder(answer)) # Len(batch)
    BY <2>9, <2>10 DEF n
  <2> QED BY <2>9, <2>11
<1>5. \/ \E p \in Bijection(1..n, 1..n) :
             answer = [k \in 1..n |-> [index |-> p[k], embedding |-> batch[p[k]]]]
      \/ \E gap \in 1..n :
             answer = [k \in 1..(n - 1) |->
                         LET i == IF k < gap THEN k ELSE k + 1
                         IN [index |-> i, embedding |-> batch[i]]]
  BY Zenon DEF Answers, n
<1> QED BY <1>3, <1>4, <1>5

------------------------------------------------------------------------------
(* What a step of one call leaves alone.                                   *)

LEMMA Kinds ==
  /\ Builds \subseteq Calls /\ Searches \subseteq Calls
  /\ Builds \intersect Searches = {} /\ None \notin Texts
  /\ BatchSize \in Nat /\ BatchSize >= 1 /\ Retries \in Nat
BY CallsAssumption, TextsAssumption, EmbedderAssumption DEF Calls

(* The chunks of a build, from what it has in hand.                        *)
ChunksOf(w, f, m, g) ==
  [i \in DOMAIN w |->
     [text |-> w[i],
      vector |-> IF f[i] # None THEN f[i] ELSE g[CHOOSE k \in DOMAIN m : m[k] = i]]]

LEMMA ChunksAre ==
  ASSUME NEW c \in Calls
  PROVE  /\ Chunks(c) = ChunksOf(want[c], found[c], missing[c], got[c])
         /\ Chunks(c)' = ChunksOf(want'[c], found'[c], missing'[c], got'[c])
BY DEF Chunks, Resolved, ChunksOf

(* A call's variables other than c's.                                      *)
Others(c) ==
  \A d \in Calls \ {c} :
    /\ at'[d] = at[d] /\ repo'[d] = repo[d] /\ beside'[d] = beside[d]
    /\ want'[d] = want[d] /\ found'[d] = found[d]
    /\ missing'[d] = missing[d] /\ sent'[d] = sent[d] /\ got'[d] = got[d]
    /\ asked'[d] = asked[d]

(* While the table only grows, a step of c leaves the other calls placed,  *)
(* excused and kept.                                                       *)
LEMMA OthersStay ==
  ASSUME IInv, NEW c \in Calls, Others(c), caching' = caching,
         \A t \in Texts : cache[t] # None => cache'[t] # None,
         NEW d \in Calls \ {c}
  PROVE  PlacedAt(d)' /\ Excused(d)' /\ Kept(d)'
<1>1. /\ at'[d] = at[d] /\ repo'[d] = repo[d] /\ beside'[d] = beside[d]
      /\ want'[d] = want[d] /\ found'[d] = found[d]
      /\ missing'[d] = missing[d] /\ sent'[d] = sent[d] /\ got'[d] = got[d]
      /\ asked'[d] = asked[d]
  BY DEF Others
<1>2. PlacedAt(d) /\ Excused(d) /\ Kept(d)
  BY DEF IInv
<1>3. PlacedAt(d)'
  BY <1>1, <1>2 DEF PlacedAt, Fresh, Embedding
<1>4. Excused(d)'
  <2> SUFFICES ASSUME Excused(d), at[d] = "failed", Collides(d) PROVE Collides(d)'
    BY <1>1, <1>2 DEF Excused
  <2>1. \A k \in DOMAIN missing[d] : want[d][missing[d][k]] \in Texts
    BY <1>2 DEF PlacedAt, Embedding, IInv, Typed
  <2> QED BY <1>1, <2>1 DEF Collides
<1>5. Kept(d)'
  <2>1. asked[d] \subseteq Texts
    BY DEF IInv, Typed
  <2> QED BY <1>1, <1>2, <2>1 DEF Kept
<1> QED BY <1>3, <1>4, <1>5

(* Rows that may stand together may stand together later, since builds     *)
(* that are done stay as they are.                                         *)
LEMMA WholeStays ==
  ASSUME IInv, NEW c \in Calls, Others(c), at[c] # "done",
         NEW rows, NEW r, WholeBuilds(rows, r)
  PROVE  WholeBuilds(rows, r)'
<1>1. ASSUME NEW b \in Builds, at[b] = "done"
      PROVE  at'[b] = "done" /\ repo'[b] = repo[b] /\ Chunks(b)' = Chunks(b)
  <2>1. b \in Calls \ {c}
    BY <1>1, Kinds
  <2> QED BY <1>1, <2>1, ChunksAre DEF Others
<1>2. \A a, b \in Builds : at[a] = "done" /\ at[b] = "done" /\ Overlapped(a, b) => Overlapped(a, b)'
  <2>1. \A b \in Builds : at[b] = "done" => beside'[b] = beside[b]
    BY Kinds DEF Others
  <2> QED BY <2>1 DEF Overlapped
<1> QED BY <1>1, <1>2 DEF WholeBuilds

(* So what the searches have found stays whole.                            *)
LEMMA ResultsStay ==
  ASSUME IInv, NEW c \in Calls, Others(c), at[c] # "done", UNCHANGED result
  PROVE  ResultsAreWhole'
<1> SUFFICES ASSUME NEW s \in Searches
             PROVE  /\ WholeBuilds(result[s], repo[s])'
                    /\ at'[s] # "done" => \A b \in Builds : result'[s][b] = <<>>
  BY DEF ResultsAreWhole
<1>1. /\ s \in Calls /\ WholeBuilds(result[s], repo[s])
      /\ at[s] # "done" => \A b \in Builds : result[s][b] = <<>>
  BY Kinds DEF IInv, ResultsAreWhole
<1>2. CASE s = c
  BY <1>1, <1>2 DEF WholeBuilds
<1>3. CASE s # c
  <2>1. at'[s] = at[s] /\ repo'[s] = repo[s] /\ result'[s] = result[s]
    BY <1>1, <1>3 DEF Others
  <2>2. WholeBuilds(result[s], repo[s])'
    <3> SUFFICES ASSUME NEW x, x = result[s], NEW y, y = repo[s] PROVE WholeBuilds(x, y)'
      BY <2>1
    <3>1. WholeBuilds(x, y)
      BY <1>1
    <3> QED BY <3>1, WholeStays
  <2> QED BY <1>1, <2>1, <2>2
<1> QED BY <1>2, <1>3

(* A step that drops rows, or none, but adds none leaves the rows of       *)
(* builds whole and apart.                                                 *)
LEMMA BuildsStay ==
  ASSUME IInv, NEW c \in Calls, Others(c), at[c] \notin Ended \union {"idle"},
         at'[c] # "idle", beside'[c] = beside[c], repo'[c] = repo[c],
         UNCHANGED <<index, result>>
  PROVE  RowsAreWhole' /\ Apart' /\ ResultsAreWhole'
<1>1. \A b \in Builds : b # c => b \in Calls \ {c}
  BY Kinds
<1>2. RowsAreWhole'
  <2> SUFFICES ASSUME NEW b \in Builds, index[b] # <<>>
               PROVE  at'[b] = "done" /\ repo'[b] \in Repositories /\ index[b] = Chunks(b)'
    BY DEF RowsAreWhole
  <2>1. at[b] = "done" /\ repo[b] \in Repositories /\ index[b] = Chunks(b)
    BY DEF IInv, RowsAreWhole
  <2>2. b # c
    BY <2>1 DEF Ended
  <2> QED BY <1>1, <2>1, <2>2, ChunksAre DEF Others
<1>3. Apart'
  <2> SUFFICES ASSUME NEW a \in Builds, NEW b \in Builds, a # b, at'[a] # "idle", at'[b] # "idle",
                      repo'[a] = repo'[b], ~ Overlapped(a, b)'
               PROVE  Dropped(a)' \/ Dropped(b)'
    BY DEF Apart
  <2>1. \A d \in Builds : /\ repo'[d] = repo[d] /\ beside'[d] = beside[d]
                          /\ at'[d] # "idle" => at[d] # "idle"
                          /\ Dropped(d) => Dropped(d)'
    BY <1>1 DEF Others, Dropped
  <2> QED BY <2>1 DEF IInv, Apart, Overlapped
<1>4. ResultsAreWhole'
  BY ResultsStay DEF Ended
<1> QED BY <1>2, <1>3, <1>4

(* Where no call succeeds, none succeeds beside another.                   *)
LEMMA AskersStay ==
  ASSUME IInv, NEW c \in Calls, Others(c), caching' = caching,
         at'[c] \in HaveVectors =>
           \/ asked'[c] = {}
           \/ at[c] = "embedded" /\ asked'[c] = asked[c]
  PROVE  OneAskerSucceeds'
<1> SUFFICES ASSUME caching, NEW d \in Calls, NEW e \in Calls,
                    {at'[d], at'[e]} \subseteq HaveVectors,
                    asked'[d] \intersect asked'[e] # {}
             PROVE  d = e
  BY DEF OneAskerSucceeds
<1>1. ASSUME NEW x \in {d, e} PROVE at[x] \in HaveVectors /\ asked'[x] = asked[x]
  <2>1. CASE x = c
    BY <2>1 DEF HaveVectors
  <2>2. CASE x # c
    BY <2>2 DEF Others
  <2> QED BY <2>1, <2>2
<1> QED BY <1>1 DEF IInv, OneAskerSucceeds

------------------------------------------------------------------------------
(* The steps.                                                              *)

(* A build begins, which drops the rows of its repository, or a search.    *)
LEMMA BeginSafe ==
  ASSUME IInv, NEW c \in Calls, NEW in, in.repo \in Repositories, in.texts \in Seq(Texts),
         Begin(c, in),
         \/ c \in Searches /\ UNCHANGED index
         \/ /\ c \in Builds
            /\ index' = [b \in Builds |-> IF repo[b] = in.repo THEN <<>> ELSE index[b]]
  PROVE  IInv'
<1>1. /\ at[c] = "idle" /\ at' = [at EXCEPT ![c] = "looking"]
      /\ repo' = [repo EXCEPT ![c] = in.repo] /\ want' = [want EXCEPT ![c] = in.texts]
      /\ beside' = [beside EXCEPT ![c] = {b \in Builds : repo[b] = in.repo /\ at[b] \in AtWork}]
      /\ UNCHANGED <<caching, cache, found, missing, sent, got, attempt, result, asked>>
  BY DEF Begin, Goto
<1>2. /\ index \in [Builds -> Seq(Chunk)] /\ index' \in [Builds -> Seq(Chunk)]
      /\ \A b \in Builds : index'[b] \in {<<>>, index[b]}
      /\ c \in Builds => \A b \in Builds : repo[b] = in.repo => index'[b] = <<>>
  <2>1. index \in [Builds -> Seq(Chunk)] /\ <<>> \in Seq(Chunk)
    BY DEF IInv, Typed
  <2>2. CASE c \in Searches /\ UNCHANGED index
    BY <2>1, <2>2, Kinds
  <2>3. CASE index' = [b \in Builds |-> IF repo[b] = in.repo THEN <<>> ELSE index[b]]
    BY <2>1, <2>3
  <2> QED BY <2>2, <2>3
<1>3. /\ at'[c] = "looking" /\ repo'[c] = in.repo /\ want'[c] = in.texts
      /\ beside'[c] = {b \in Builds : repo[b] = in.repo /\ at[b] \in AtWork}
      /\ Others(c)
  BY <1>1 DEF IInv, Typed, Others
<1>4. Typed'
  <2>1. at' \in [Calls -> PCs]
    BY <1>1 DEF IInv, Typed, PCs
  <2>2. beside' \in [Calls -> SUBSET Builds]
    BY <1>1 DEF IInv, Typed
  <2> QED BY <1>1, <1>2, <2>1, <2>2 DEF IInv, Typed
<1>5. PlacedAt(c)'
  BY <1>1, <1>3 DEF IInv, PlacedAt, Fresh, HaveVectors
<1>6. Excused(c)' /\ Kept(c)'
  BY <1>3 DEF Excused, Kept, HaveVectors
<1>7. \A b \in Builds : b # c => b \in Calls \ {c}
  BY Kinds
<1>8. RowsAreWhole'
  <2> SUFFICES ASSUME NEW b \in Builds, index'[b] # <<>>
               PROVE  at'[b] = "done" /\ repo'[b] \in Repositories /\ index'[b] = Chunks(b)'
    BY DEF RowsAreWhole
  <2>1. index'[b] = index[b] /\ index[b] # <<>>
    BY <1>2
  <2>2. at[b] = "done" /\ repo[b] \in Repositories /\ index[b] = Chunks(b)
    BY <2>1 DEF IInv, RowsAreWhole
  <2>3. b # c
    BY <1>1, <2>2
  <2>4. /\ at'[b] = at[b] /\ repo'[b] = repo[b] /\ want'[b] = want[b] /\ found'[b] = found[b]
        /\ missing'[b] = missing[b] /\ got'[b] = got[b]
    BY <1>3, <1>7, <2>3 DEF Others
  <2>5. Chunks(b)' = Chunks(b)
    BY <2>4, ChunksAre, Kinds
  <2> QED BY <2>1, <2>2, <2>4, <2>5
<1>9. Apart'
  <2> SUFFICES ASSUME NEW a \in Builds, NEW b \in Builds, a # b, at'[a] # "idle", at'[b] # "idle",
                      repo'[a] = repo'[b], ~ Overlapped(a, b)'
               PROVE  Dropped(a)' \/ Dropped(b)'
    BY DEF Apart
  <2>1. ASSUME NEW d \in Builds, d # c, at'[d] # "idle", c \in Builds, repo'[d] = in.repo,
               d \notin beside'[c]
        PROVE  Dropped(d)'
    <3>1. at'[d] = at[d] /\ repo[d] = in.repo /\ at[d] \in PCs
      BY <1>3, <1>7, <2>1 DEF Others, IInv, Typed
    <3>2. at[d] \notin AtWork
      BY <1>3, <2>1, <3>1
    <3>3. at[d] \in Ended
      BY <2>1, <3>1, <3>2 DEF AtWork
    <3> QED BY <1>2, <2>1, <3>1, <3>3 DEF Dropped
  <2>2. CASE a = c
    BY <1>3, <2>1, <2>2 DEF Overlapped
  <2>3. CASE b = c
    BY <1>3, <2>1, <2>3 DEF Overlapped
  <2>4. CASE a # c /\ b # c
    <3>1. /\ at'[a] = at[a] /\ repo'[a] = repo[a] /\ beside'[a] = beside[a]
          /\ at'[b] = at[b] /\ repo'[b] = repo[b] /\ beside'[b] = beside[b]
      BY <1>3, <1>7, <2>4 DEF Others
    <3>2. at[a] # "idle" /\ at[b] # "idle" /\ repo[a] = repo[b] /\ ~ Overlapped(a, b)
      BY <3>1 DEF Overlapped
    <3>3. Dropped(a) \/ Dropped(b)
      BY <3>2 DEF IInv, Apart
    <3>4. index'[a] \in {<<>>, index[a]} /\ index'[b] \in {<<>>, index[b]}
      BY <1>2
    <3> QED BY <3>1, <3>3, <3>4 DEF Dropped
  <2> QED BY <2>2, <2>3, <2>4
<1>10. ResultsAreWhole'
  BY <1>1, <1>3, ResultsStay
<1>11. OneAskerSucceeds'
  BY <1>1, <1>3, AskersStay DEF HaveVectors
<1>12. \A d \in Calls : PlacedAt(d)' /\ Excused(d)' /\ Kept(d)'
  BY <1>1, <1>3, <1>5, <1>6, OthersStay
<1> QED BY <1>1, <1>4, <1>8, <1>9, <1>10, <1>11, <1>12 DEF IInv, CacheIsRight

(* The look-up: each position is found, or among the ones asked for.       *)
LEMMA LookUpSafe ==
  ASSUME IInv, NEW c \in Calls, LookUp(c)
  PROVE  IInv'
<1> DEFINE hits == [i \in DOMAIN want[c] |-> IF caching THEN cache[want[c][i]] ELSE None]
           S == {i \in DOMAIN hits : hits[i] = None}
<1>1. /\ at[c] = "looking"
      /\ found' = [found EXCEPT ![c] = hits]
      /\ missing' = [missing EXCEPT ![c] = Ascending(S)]
      /\ at' = [at EXCEPT ![c] = IF missing'[c] = <<>> THEN "embedded" ELSE "asking"]
      /\ UNCHANGED <<caching, cache, index, repo, beside, want, sent, got, attempt, result, asked>>
  BY DEF LookUp, Goto
<1>2. /\ want[c] \in Seq(Texts) /\ sent[c] = 0 /\ got[c] = <<>> /\ asked[c] = {}
      /\ repo[c] \in Repositories
  BY <1>1 DEF IInv, PlacedAt, Fresh
<1>3. hits \in Seq(Vectors) /\ Len(hits) = Len(want[c])
      /\ \A i \in DOMAIN want[c] : hits[i] \in {want[c][i], None}
  <2>1. \A i \in DOMAIN want[c] : want[c][i] \in Texts /\ hits[i] \in {want[c][i], None}
    BY <1>2 DEF IInv, CacheIsRight
  <2>2. DOMAIN want[c] = 1..Len(want[c]) /\ Len(want[c]) \in Nat
    BY <1>2
  <2>3. hits = [i \in DOMAIN want[c] |-> hits[i]]
    OBVIOUS
  <2> HIDE DEF hits
  <2>4. \A i \in 1..Len(want[c]) : hits[i] \in Vectors
    BY <2>1, <2>2 DEF Vectors
  <2>5. hits \in [1..Len(want[c]) -> Vectors]
    BY <2>2, <2>3, <2>4
  <2> QED BY <2>1, <2>2, <2>5
<1> HIDE DEF hits
<1>4. S \subseteq Nat /\ IsFiniteSet(S) /\ S \subseteq DOMAIN want[c]
  <2>1. S \in SUBSET (1..Len(hits)) /\ S \subseteq Nat /\ S \subseteq DOMAIN want[c] /\ Len(hits) \in Nat
    BY <1>2, <1>3
  <2>2. IsFiniteSet(1..Len(hits))
    <3>1. PICK n \in Nat : n = Len(hits)
      BY <2>1
    <3>2. IsFiniteSet(1..n)
      BY FS_Interval
    <3> QED BY <3>1, <3>2
  <2>3. IsFiniteSet(S)
    BY <2>1, <2>2, FS_Subset
  <2> QED BY <2>1, <2>3
<1>5. /\ Ascending(S) \in Seq(Nat) /\ \A k \in DOMAIN Ascending(S) : Ascending(S)[k] \in S
      /\ \A i \in S : \E k \in DOMAIN Ascending(S) : Ascending(S)[k] = i
  <2> HIDE DEF S
  <2>1. /\ Cardinality(S) \in Nat
        /\ Ascending(S) \in [1..Cardinality(S) -> S]
        /\ \A x \in S : \E k \in 1..Cardinality(S) : Ascending(S)[k] = x
    BY <1>4, AscendingIs
  <2>2. Ascending(S) \in [1..Cardinality(S) -> Nat]
    BY <1>4, <2>1
  <2> QED BY <2>1, <2>2
<1>6. \A i \in DOMAIN want[c] : hits[i] = None => i \in S
  BY <1>3
<1> HIDE DEF S
<1>7. found'[c] = hits /\ missing'[c] = Ascending(S) /\ Others(c)
  BY <1>1 DEF IInv, Typed, Others
<1>8. Typed'
  <2>1. found' \in [Calls -> Seq(Vectors)]
    BY <1>1, <1>3 DEF IInv, Typed
  <2>2. missing' \in [Calls -> Seq(Nat)]
    BY <1>1, <1>5 DEF IInv, Typed
  <2>3. at' \in [Calls -> PCs]
    BY <1>1 DEF IInv, Typed, PCs
  <2> QED BY <1>1, <2>1, <2>2, <2>3 DEF IInv, Typed
<1>9. at'[c] = IF missing'[c] = <<>> THEN "embedded" ELSE "asking"
  BY <1>1 DEF IInv, Typed
<1>10. Embedding(c)'
  <2>1. \A k \in DOMAIN missing'[c] : missing'[c][k] \in DOMAIN want[c]
    BY <1>4, <1>5, <1>7
  <2>2. \A i \in DOMAIN want[c] : found'[c][i] = None =>
          \E k \in DOMAIN missing'[c] : missing'[c][k] = i
    BY <1>5, <1>6, <1>7
  <2>3. Len(missing'[c]) \in Nat
    BY <1>5, <1>7
  <2> QED BY <1>1, <1>2, <1>3, <1>7, <2>1, <2>2, <2>3 DEF Embedding
<1>11. PlacedAt(c)'
  <2>1. CASE missing'[c] = <<>>
    BY <1>1, <1>2, <1>9, <1>10, <2>1 DEF PlacedAt
  <2>2. CASE missing'[c] # <<>>
    <3>1. Len(missing'[c]) > 0
      BY <1>5, <1>7, <2>2
    <3> QED BY <1>1, <1>2, <1>9, <1>10, <2>2, <3>1 DEF PlacedAt, HaveVectors
  <2> QED BY <2>1, <2>2
<1>12. Excused(c)' /\ Kept(c)'
  BY <1>1, <1>2, <1>9 DEF Excused, Kept
<1>13. RowsAreWhole' /\ Apart' /\ ResultsAreWhole'
  BY <1>1, <1>7, <1>9, BuildsStay DEF Ended
<1>14. OneAskerSucceeds'
  BY <1>1, <1>2, <1>7, AskersStay
<1>15. \A d \in Calls : PlacedAt(d)' /\ Excused(d)' /\ Kept(d)'
  BY <1>1, <1>7, <1>11, <1>12, OthersStay
<1> QED BY <1>1, <1>8, <1>13, <1>14, <1>15 DEF IInv, CacheIsRight

(* The texts of the batch in hand.                                         *)
LEMMA BatchIs ==
  ASSUME IInv, NEW c \in Calls, at[c] = "asking"
  PROVE  /\ Batch(c) \in Seq(Texts) /\ Len(Batch(c)) > 0
         /\ sent[c] + Len(Batch(c)) <= Len(missing[c])
         /\ \A k \in 1..Len(Batch(c)) :
              /\ sent[c] + k \in DOMAIN missing[c]
              /\ Batch(c)[k] = want[c][missing[c][sent[c] + k]]
<1>1. /\ missing[c] \in Seq(Nat) /\ want[c] \in Seq(Texts)
      /\ sent[c] \in Nat /\ sent[c] < Len(missing[c])
      /\ \A k \in DOMAIN missing[c] : missing[c][k] \in DOMAIN want[c]
  BY DEF IInv, Typed, PlacedAt, Embedding
<1> DEFINE n == Len(missing[c])
           asks == Asks(c)
<1>2. n \in Nat /\ DOMAIN missing[c] = 1..n
  BY <1>1
<1>3. /\ asks \in Seq(Texts) /\ Len(asks) = n
      /\ \A k \in 1..n : asks[k] = want[c][missing[c][k]]
  <2>1. asks = [k \in 1..n |-> want[c][missing[c][k]]]
    BY <1>2 DEF Asks
  <2>2. \A k \in 1..n : want[c][missing[c][k]] \in Texts
    BY <1>1, <1>2
  <2> HIDE DEF asks, n
  <2> QED BY <1>2, <2>1, <2>2
<1> DEFINE b == IF n - sent[c] < BatchSize THEN n - sent[c] ELSE BatchSize
<1>4. b \in Nat /\ b > 0 /\ sent[c] + b <= n
  BY <1>1, <1>2, Kinds
<1>5. Batch(c) = SubSeq(asks, sent[c] + 1, sent[c] + b)
  BY DEF Batch
<1> HIDE DEF n, asks, b
<1>6. /\ Batch(c) \in Seq(Texts) /\ Len(Batch(c)) = b
      /\ \A k \in 1..b : Batch(c)[k] = asks[sent[c] + k]
  <2>1. PICK l \in Nat : l = sent[c]
    BY <1>1
  <2>2. l + 1 \in 1..(n + 1) /\ l + b \in l..n /\ l + b \in Nat
    BY <1>2, <1>4, <2>1
  <2>3. \A i \in (l + 1)..(l + b) : asks[i] \in Texts
    BY <1>2, <1>3, <1>4, <2>1, <2>2
  <2>4. l + 1 \in Int /\ l + b \in Int /\ l + 1 <= l + b
    BY <1>4
  <2>5. /\ SubSeq(asks, l + 1, l + b) \in Seq(Texts)
        /\ Len(SubSeq(asks, l + 1, l + b)) = (l + b) - (l + 1) + 1
        /\ \A k \in 1..((l + b) - (l + 1) + 1) :
             SubSeq(asks, l + 1, l + b)[k] = asks[(l + 1) + k - 1]
    BY <2>3, <2>4, SubSeqProperties
  <2>6. (l + b) - (l + 1) + 1 = b /\ \A k \in 1..b : (l + 1) + k - 1 = l + k
    BY <1>4
  <2> QED BY <1>5, <2>1, <2>5, <2>6
<1>7. \A k \in 1..b : sent[c] + k \in 1..n
  BY <1>1, <1>2, <1>4
<1> QED BY <1>2, <1>3, <1>4, <1>6, <1>7 DEF n

(* A batch is answered: in full, and what came is what was asked for; or   *)
(* in part, and something is missing from then on.                         *)
LEMMA AnswerArrivesSafe ==
  ASSUME IInv, NEW c \in Calls, AnswerArrives(c)
  PROVE  IInv'
<1>1. PICK answer \in Answers(Batch(c)) : got' = [got EXCEPT ![c] = @ \o InOrder(answer)]
  BY DEF AnswerArrives
<1> DEFINE new == InOrder(answer)
           b == Len(Batch(c))
           batch == {Batch(c)[k] : k \in DOMAIN Batch(c)}
<1>2. /\ at[c] = "asking"
      /\ sent' = [sent EXCEPT ![c] = @ + b]
      /\ attempt' = [attempt EXCEPT ![c] = 0]
      /\ asked' = [asked EXCEPT ![c] = @ \union batch]
      /\ at' = [at EXCEPT ![c] = IF sent'[c] = Len(missing[c]) THEN "received" ELSE "asking"]
      /\ UNCHANGED <<caching, cache, index, repo, beside, want, found, missing, result>>
  BY DEF AnswerArrives, Goto
<1>3. /\ Batch(c) \in Seq(Texts) /\ b > 0 /\ b \in Nat
      /\ sent[c] + b <= Len(missing[c])
      /\ \A k \in 1..b : /\ sent[c] + k \in DOMAIN missing[c]
                         /\ Batch(c)[k] = want[c][missing[c][sent[c] + k]]
  BY <1>2, BatchIs
<1>4. new \in Seq(Texts) /\ Len(new) <= b /\ (Len(new) = b => new = Batch(c))
  BY <1>3, AnswersAreTheBatch
<1>5. batch \subseteq Texts
      /\ \A t \in batch : \E k \in DOMAIN missing[c] : want[c][missing[c][k]] = t
  <2>1. DOMAIN Batch(c) = 1..b /\ \A k \in 1..b : Batch(c)[k] \in Texts
    BY <1>3
  <2>2. ASSUME NEW t \in batch
        PROVE  t \in Texts /\ \E k \in DOMAIN missing[c] : want[c][missing[c][k]] = t
    <3>1. PICK k \in 1..b : t = Batch(c)[k]
      BY <2>1, <2>2
    <3> QED BY <1>3, <2>1, <3>1
  <2> QED BY <2>2
<1> HIDE DEF new, b, batch
<1>6. /\ sent'[c] = sent[c] + b /\ got'[c] = got[c] \o new
      /\ asked'[c] = asked[c] \union batch /\ Others(c)
      /\ at'[c] = IF sent'[c] = Len(missing[c]) THEN "received" ELSE "asking"
  <2>1. got' = [got EXCEPT ![c] = @ \o new]
    BY <1>1 DEF new
  <2> QED BY <1>2, <2>1 DEF IInv, Typed, Others
<1>7. /\ missing[c] \in Seq(Nat) /\ sent[c] \in Nat /\ got[c] \in Seq(Texts)
      /\ Embedding(c) /\ repo[c] \in Repositories
  BY <1>2 DEF IInv, Typed, PlacedAt
<1>8. Typed'
  <2>1. got' \in [Calls -> Seq(Texts)]
    <3>1. got[c] \o new \in Seq(Texts)
      BY <1>4, <1>7
    <3>2. got' = [got EXCEPT ![c] = got[c] \o new]
      BY <1>1 DEF new
    <3> QED BY <3>1, <3>2 DEF IInv, Typed
  <2>2. sent' \in [Calls -> Nat] /\ attempt' \in [Calls -> 0..Retries]
    BY <1>2, <1>3, Kinds DEF IInv, Typed
  <2>3. asked' \in [Calls -> SUBSET Texts]
    BY <1>2, <1>5 DEF IInv, Typed
  <2>4. at' \in [Calls -> PCs]
    BY <1>2 DEF IInv, Typed, PCs
  <2> QED BY <1>2, <2>1, <2>2, <2>3, <2>4 DEF IInv, Typed
<1>9. /\ Len(got'[c]) = Len(got[c]) + Len(new)
      /\ Len(got[c]) \in Nat /\ Len(new) \in Nat /\ Len(missing[c]) \in Nat
      /\ \A k \in 1..Len(got[c]) : got'[c][k] = got[c][k]
      /\ \A k \in 1..Len(new) : got'[c][Len(got[c]) + k] = new[k]
  BY <1>4, <1>6, <1>7
<1>10. Len(got[c]) <= sent[c] /\ sent[c] <= Len(missing[c])
  BY <1>7 DEF Embedding
<1>11. sent'[c] <= Len(missing[c]) /\ Len(got'[c]) <= sent'[c]
  BY <1>3, <1>4, <1>6, <1>7, <1>9, <1>10
<1>12. ASSUME Len(got'[c]) = sent'[c], NEW k \in 1..Len(got'[c])
       PROVE  got'[c][k] = want[c][missing[c][k]]
  <2>1. Len(got[c]) = sent[c] /\ Len(new) = b
    BY <1>3, <1>4, <1>6, <1>7, <1>9, <1>10, <1>12
  <2>2. CASE k \in 1..Len(got[c])
    <3>1. k \in DOMAIN got[c]
      BY <1>7, <2>2
    <3> QED BY <1>7, <1>9, <2>1, <2>2, <3>1 DEF Embedding
  <2>3. CASE k \notin 1..Len(got[c])
    <3>1. PICK j \in 1..b : k = Len(got[c]) + j
      <4>1. k - Len(got[c]) \in 1..b /\ k = Len(got[c]) + (k - Len(got[c]))
        BY <1>3, <1>9, <1>12, <2>1, <2>3
      <4> QED BY <4>1
    <3>2. got'[c][k] = new[j]
      BY <1>9, <2>1, <3>1
    <3> QED BY <1>3, <1>4, <2>1, <3>1, <3>2
  <2> QED BY <2>2, <2>3
<1>13. Embedding(c)'
  <2>1. \A k \in DOMAIN got'[c] : k \in 1..Len(got'[c])
    BY <1>4, <1>6, <1>7
  <2>2. Len(got'[c]) = sent'[c] => \A k \in DOMAIN got'[c] : got'[c][k] = want[c][missing[c][k]]
    BY <1>12, <2>1
  <2>3. \A t \in asked'[c] : \E k \in DOMAIN missing[c] : want[c][missing[c][k]] = t
    BY <1>5, <1>6, <1>7 DEF Embedding
  <2> QED BY <1>2, <1>7, <1>11, <2>2, <2>3 DEF Embedding
<1>14. PlacedAt(c)'
  <2>1. ASSUME at'[c] = "asking"
        PROVE  sent'[c] < Len(missing[c])
    <3>1. sent'[c] # Len(missing[c])
      BY <1>6, <2>1
    <3>2. sent'[c] \in Nat
      BY <1>3, <1>6, <1>7
    <3> QED BY <1>9, <1>11, <3>1, <3>2
  <2> QED BY <1>2, <1>6, <1>7, <1>13, <2>1 DEF PlacedAt, HaveVectors
<1>15. Excused(c)' /\ Kept(c)'
  BY <1>6 DEF Excused, Kept, HaveVectors
<1>16. RowsAreWhole' /\ Apart' /\ ResultsAreWhole'
  BY <1>2, <1>6, BuildsStay DEF Ended
<1>17. OneAskerSucceeds'
  BY <1>2, <1>6, AskersStay DEF HaveVectors
<1>18. \A d \in Calls : PlacedAt(d)' /\ Excused(d)' /\ Kept(d)'
  BY <1>2, <1>6, <1>14, <1>15, OthersStay
<1> QED BY <1>2, <1>8, <1>16, <1>17, <1>18 DEF IInv, CacheIsRight

(* A request fails: the call that gives up has not had every vector.       *)
LEMMA RequestFailsSafe ==
  ASSUME IInv, NEW c \in Calls, RequestFails(c)
  PROVE  IInv'
<1>1. /\ at[c] = "asking" /\ attempt' \in [Calls -> 0..Retries]
      /\ at' = at \/ at' = [at EXCEPT ![c] = "failed"]
      /\ UNCHANGED <<caching, cache, index, repo, beside, want, found, missing, sent, got, result, asked>>
  <2>1. attempt \in [Calls -> 0..Retries]
    BY DEF IInv, Typed
  <2>2. CASE attempt[c] < Retries
    BY <2>1, <2>2, Kinds DEF RequestFails
  <2>3. CASE ~ (attempt[c] < Retries)
    BY <2>1, <2>3 DEF RequestFails, Goto
  <2> QED BY <2>2, <2>3
<1>2. Others(c) /\ at'[c] \in {"asking", "failed"} /\ at' \in [Calls -> PCs]
  BY <1>1 DEF IInv, Typed, Others, PCs
<1>3. Typed'
  BY <1>1, <1>2 DEF IInv, Typed
<1>4. /\ Embedding(c) /\ repo[c] \in Repositories /\ sent[c] < Len(missing[c])
      /\ sent[c] \in Nat /\ Len(got[c]) \in Nat /\ Len(missing[c]) \in Nat
      /\ Len(got[c]) <= sent[c]
  BY <1>1 DEF IInv, Typed, PlacedAt, Embedding
<1>5. PlacedAt(c)'
  BY <1>1, <1>2, <1>4 DEF PlacedAt, Embedding, HaveVectors
<1>6. Excused(c)' /\ Kept(c)'
  <2>1. Len(got[c]) # Len(missing[c])
    BY <1>4
  <2> QED BY <1>1, <1>2, <2>1 DEF Excused, Kept, HaveVectors
<1>7. RowsAreWhole' /\ Apart' /\ ResultsAreWhole'
  BY <1>1, <1>2, BuildsStay DEF Ended
<1>8. OneAskerSucceeds'
  BY <1>1, <1>2, AskersStay DEF HaveVectors
<1>9. \A d \in Calls : PlacedAt(d)' /\ Excused(d)' /\ Kept(d)'
  BY <1>1, <1>2, <1>5, <1>6, OthersStay
<1> QED BY <1>1, <1>3, <1>7, <1>8, <1>9 DEF IInv, CacheIsRight
(* New rows are refused exactly when they collide.                         *)
LEMMA RefusedIs ==
  ASSUME NEW c \in Calls
  PROVE  Insertable(Asks(c)) <=> ~ Collides(c)
<1>1. /\ DOMAIN Asks(c) = DOMAIN missing[c]
      /\ \A k \in DOMAIN missing[c] : Asks(c)[k] = want[c][missing[c][k]]
  BY DEF Asks
<1>2. NoneTwice(Asks(c)) <=>
        \A j, k \in DOMAIN missing[c] :
          want[c][missing[c][j]] = want[c][missing[c][k]] => j = k
  BY <1>1 DEF NoneTwice
<1>3. (\A k \in DOMAIN Asks(c) : cache[Asks(c)[k]] = None) <=>
        \A k \in DOMAIN missing[c] : cache[want[c][missing[c][k]]] = None
  BY <1>1
<1> QED BY <1>2, <1>3 DEF Insertable, Collides

(* What a call inserts is each text's own vector; the others stay.         *)
LEMMA InsertIs ==
  ASSUME IInv, NEW c \in Calls, at[c] = "received", Len(got[c]) = Len(missing[c]), Insert(c)
  PROVE  /\ cache' \in [Texts -> Vectors] /\ CacheIsRight'
         /\ \A t \in Texts : cache[t] # None => cache'[t] # None
         /\ \A k \in DOMAIN missing[c] : cache'[want[c][missing[c][k]]] # None
<1>1. /\ Embedding(c) /\ sent[c] = Len(missing[c])
      /\ missing[c] \in Seq(Nat) /\ got[c] \in Seq(Texts) /\ want[c] \in Seq(Texts)
      /\ cache \in [Texts -> Vectors] /\ CacheIsRight
  BY DEF IInv, Typed, PlacedAt
<1>2. /\ DOMAIN Asks(c) = DOMAIN missing[c]
      /\ \A k \in DOMAIN missing[c] : Asks(c)[k] = want[c][missing[c][k]]
  BY DEF Asks
<1>3. \A k \in DOMAIN missing[c] : got[c][k] = Asks(c)[k] /\ Asks(c)[k] \in Texts
  <2>1. DOMAIN got[c] = DOMAIN missing[c]
    BY <1>1
  <2>2. \A k \in DOMAIN got[c] : got[c][k] = want[c][missing[c][k]]
    BY <1>1 DEF Embedding
  <2>3. \A k \in DOMAIN got[c] : got[c][k] \in Texts
    BY <1>1
  <2> QED BY <1>2, <2>1, <2>2, <2>3
<1>4. /\ DOMAIN cache' = Texts
      /\ \A t \in Texts :
           cache'[t] = IF \E k \in DOMAIN Asks(c) : Asks(c)[k] = t
                       THEN got[c][CHOOSE k \in DOMAIN Asks(c) : Asks(c)[k] = t] ELSE cache[t]
      /\ cache' = [t \in Texts |-> cache'[t]]
  BY DEF Insert
<1>5. \A t \in Texts :
        cache'[t] = IF \E k \in DOMAIN missing[c] : Asks(c)[k] = t THEN t ELSE cache[t]
  <2> SUFFICES ASSUME NEW t \in Texts
               PROVE  cache'[t] = IF \E k \in DOMAIN missing[c] : Asks(c)[k] = t
                                  THEN t ELSE cache[t]
    OBVIOUS
  <2>1. CASE \E k \in DOMAIN Asks(c) : Asks(c)[k] = t
    <3>1. PICK j : j = CHOOSE k \in DOMAIN Asks(c) : Asks(c)[k] = t
      OBVIOUS
    <3>2. j \in DOMAIN Asks(c) /\ Asks(c)[j] = t
      BY <2>1, <3>1
    <3>3. got[c][j] = t
      BY <1>2, <1>3, <3>2
    <3>4. cache'[t] = got[c][j]
      BY <1>4, <2>1, <3>1
    <3> QED BY <1>2, <2>1, <3>3, <3>4
  <2>2. CASE ~ \E k \in DOMAIN Asks(c) : Asks(c)[k] = t
    BY <1>2, <1>4, <2>2
  <2> QED BY <2>1, <2>2
<1>6. \A t \in Texts : cache'[t] \in {t, None}
  BY <1>1, <1>5 DEF CacheIsRight
<1>7. cache' \in [Texts -> Vectors]
  BY <1>4, <1>6 DEF Vectors
<1>8. \A t \in Texts : cache[t] # None => cache'[t] # None
  BY <1>5, Kinds
<1>9. \A k \in DOMAIN missing[c] : cache'[Asks(c)[k]] # None
  BY <1>3, <1>5, Kinds
<1> QED BY <1>2, <1>6, <1>7, <1>8, <1>9 DEF CacheIsRight

(* The call that received its answers ends well only with a vector for     *)
(* every position, and, where vectors are kept, without a collision.       *)
LEMMA StoreVectorsSafe ==
  ASSUME IInv, NEW c \in Calls, StoreVectors(c)
  PROVE  IInv'
<1> DEFINE ok == Len(got[c]) = Len(missing[c]) /\ (caching => Insertable(Asks(c)))
<1>1. /\ at[c] = "received"
      /\ ok => (IF caching THEN Insert(c) ELSE UNCHANGED cache) /\ Goto(c, "embedded")
      /\ ~ ok => Goto(c, "failed") /\ UNCHANGED cache
      /\ UNCHANGED <<caching, index, repo, beside, want, found, missing, sent, got, attempt, result, asked>>
  BY DEF StoreVectors, callVars
<1>2. at' = [at EXCEPT ![c] = IF ok THEN "embedded" ELSE "failed"]
  BY <1>1 DEF Goto
<1>3. /\ Embedding(c) /\ sent[c] = Len(missing[c]) /\ repo[c] \in Repositories
      /\ asked[c] \subseteq Texts
  BY <1>1 DEF IInv, PlacedAt, Typed
<1>4. ok <=> Len(got[c]) = Len(missing[c]) /\ (caching => ~ Collides(c))
  BY RefusedIs
<1>5. /\ cache' \in [Texts -> Vectors] /\ CacheIsRight'
      /\ \A t \in Texts : cache[t] # None => cache'[t] # None
      /\ caching /\ ok => \A k \in DOMAIN missing[c] : cache'[want[c][missing[c][k]]] # None
  <2>1. CASE caching /\ ok
    <3>1. Insert(c) /\ Len(got[c]) = Len(missing[c])
      BY <1>1, <2>1
    <3> HIDE DEF ok
    <3> QED BY <1>1, <3>1, InsertIs
  <2>2. CASE ~ (caching /\ ok)
    <3>1. UNCHANGED cache
      BY <1>1, <2>2
    <3> HIDE DEF ok
    <3>2. CacheIsRight'
      BY <3>1 DEF IInv, CacheIsRight
    <3> QED BY <2>2, <3>1, <3>2 DEF IInv, Typed
  <2> QED BY <2>1, <2>2
<1>6. ok \in BOOLEAN
  OBVIOUS
<1> HIDE DEF ok
<1>7. /\ at' \in [Calls -> PCs] /\ at'[c] = (IF ok THEN "embedded" ELSE "failed")
      /\ Others(c)
  BY <1>1, <1>2 DEF IInv, Typed, Others, PCs
<1>8. Typed'
  BY <1>1, <1>5, <1>7 DEF IInv, Typed
<1>9. PlacedAt(c)'
  BY <1>1, <1>3, <1>4, <1>7 DEF PlacedAt, Embedding, HaveVectors
<1>10. Excused(c)'
  <2>1. CASE ok
    BY <1>7, <2>1 DEF Excused
  <2>2. CASE ~ ok
    <3>1. UNCHANGED cache
      BY <1>1, <2>2
    <3>2. Collides(c)' <=> Collides(c)
      BY <1>1, <3>1 DEF Collides
    <3> QED BY <1>1, <1>4, <2>2, <3>2 DEF Excused
  <2> QED BY <2>1, <2>2
<1>11. Kept(c)'
  <2> SUFFICES ASSUME caching, ok, NEW t \in asked[c] PROVE cache'[t] # None
    BY <1>1, <1>7 DEF Kept, HaveVectors
  <2>1. PICK k \in DOMAIN missing[c] : want[c][missing[c][k]] = t
    BY <1>3 DEF Embedding
  <2> QED BY <1>5, <2>1
<1>12. OneAskerSucceeds'
  <2>1. ASSUME caching, ok, NEW d \in Calls, d # c, at[d] \in HaveVectors,
               NEW t \in asked[c] \intersect asked[d]
        PROVE  FALSE
    <3>1. cache[t] # None
      BY <2>1 DEF IInv, Kept
    <3>2. PICK k \in DOMAIN missing[c] : want[c][missing[c][k]] = t
      BY <1>3 DEF Embedding
    <3>3. ~ Collides(c)
      BY <1>4, <2>1
    <3> QED BY <3>1, <3>2, <3>3 DEF Collides
  <2> SUFFICES ASSUME caching, NEW d \in Calls, NEW e \in Calls, d # e,
                      {at'[d], at'[e]} \subseteq HaveVectors,
                      NEW t \in asked[d] \intersect asked[e]
               PROVE  FALSE
    BY <1>1 DEF OneAskerSucceeds
  <2>2. CASE d = c
    <3>1. ok /\ at[e] \in HaveVectors
      BY <1>7, <2>2 DEF Others, HaveVectors
    <3> QED BY <2>1, <2>2, <3>1
  <2>3. CASE e = c
    <3>1. ok /\ at[d] \in HaveVectors
      BY <1>7, <2>3 DEF Others, HaveVectors
    <3> QED BY <2>1, <2>3, <3>1
  <2>4. CASE d # c /\ e # c
    <3>1. {at[d], at[e]} \subseteq HaveVectors
      BY <1>7, <2>4 DEF Others
    <3> QED BY <3>1 DEF IInv, OneAskerSucceeds
  <2> QED BY <2>2, <2>3, <2>4
<1>13. RowsAreWhole' /\ Apart' /\ ResultsAreWhole'
  BY <1>1, <1>7, BuildsStay DEF Ended
<1>14. \A d \in Calls : PlacedAt(d)' /\ Excused(d)' /\ Kept(d)'
  BY <1>1, <1>5, <1>7, <1>9, <1>10, <1>11, OthersStay
<1> QED BY <1>5, <1>8, <1>12, <1>13, <1>14 DEF IInv

(* The chunks of a build are its texts with their own vectors, once it has *)
(* a vector for each.                                                      *)
LEMMA ChunksAreRight ==
  ASSUME IInv, NEW c \in Calls, at[c] \in HaveVectors
  PROVE  /\ Chunks(c) \in Seq(Chunk) /\ Len(Chunks(c)) = Len(want[c])
         /\ \A i \in DOMAIN Chunks(c) :
              Chunks(c)[i].text = want[c][i] /\ Chunks(c)[i].vector = want[c][i]
<1>1. /\ Embedding(c) /\ Len(got[c]) = Len(missing[c])
      /\ missing[c] \in Seq(Nat) /\ got[c] \in Seq(Texts) /\ want[c] \in Seq(Texts)
      /\ sent[c] \in Nat
  BY DEF IInv, Typed, PlacedAt, HaveVectors
<1>2. /\ DOMAIN got[c] = DOMAIN missing[c]
      /\ \A k \in DOMAIN got[c] : got[c][k] = want[c][missing[c][k]]
  <2>1. Len(got[c]) \in Nat /\ Len(got[c]) <= sent[c] /\ sent[c] <= Len(missing[c])
    BY <1>1 DEF Embedding
  <2>2. Len(got[c]) = sent[c]
    BY <1>1, <2>1
  <2>3. \A k \in DOMAIN got[c] : got[c][k] = want[c][missing[c][k]]
    BY <1>1, <2>2 DEF Embedding
  <2>4. DOMAIN got[c] = DOMAIN missing[c]
    BY <1>1
  <2> QED BY <2>3, <2>4
<1>3. ASSUME NEW i \in DOMAIN want[c] PROVE Resolved(c)[i] = want[c][i]
  <2>1. Resolved(c)[i] = IF found[c][i] # None THEN found[c][i]
                         ELSE got[c][CHOOSE k \in DOMAIN missing[c] : missing[c][k] = i]
    BY DEF Resolved
  <2>2. CASE found[c][i] # None
    BY <1>1, <2>1, <2>2 DEF Embedding
  <2>3. CASE found[c][i] = None
    <3>1. PICK j : j = CHOOSE k \in DOMAIN missing[c] : missing[c][k] = i
      OBVIOUS
    <3>2. \E k \in DOMAIN missing[c] : missing[c][k] = i
      BY <1>1, <2>3 DEF Embedding
    <3>3. j \in DOMAIN missing[c] /\ missing[c][j] = i
      BY <3>1, <3>2
    <3> QED BY <1>2, <2>1, <2>3, <3>1, <3>3
  <2> QED BY <2>2, <2>3
<1>4. Chunks(c) = [i \in DOMAIN want[c] |-> [text |-> want[c][i], vector |-> want[c][i]]]
  BY <1>3 DEF Chunks
<1>5. PICK n \in Nat : n = Len(want[c]) /\ DOMAIN want[c] = 1..n
  BY <1>1
<1>6. \A i \in 1..n : want[c][i] \in Texts
  BY <1>1, <1>5
<1>7. \A i \in 1..n : [text |-> want[c][i], vector |-> want[c][i]] \in Chunk
  BY <1>6 DEF Chunk, Vectors
<1>8. Chunks(c) \in [1..n -> Chunk]
  BY <1>4, <1>5, <1>7
<1>9. Chunks(c) \in Seq(Chunk) /\ Len(Chunks(c)) = n
  BY <1>8
<1> QED BY <1>4, <1>5, <1>9

(* A build that has its vectors stores its chunks, all of them; of what    *)
(* stands beside them each build overlapped it.                            *)
LEMMA StoreChunksSafe ==
  ASSUME IInv, NEW c \in Calls, StoreChunks(c)
  PROVE  IInv'
<1>1. /\ c \in Builds /\ at[c] = "embedded"
      /\ index' = [index EXCEPT ![c] = Chunks(c)]
      /\ at' = [at EXCEPT ![c] = "done"]
      /\ UNCHANGED <<caching, cache, repo, beside, want, found, missing, sent, got, attempt,
                     result, asked>>
  BY DEF StoreChunks, Goto, callVars
<1>2. at' \in [Calls -> PCs] /\ at'[c] = "done" /\ Others(c)
  BY <1>1 DEF IInv, Typed, Others, PCs
<1>3. repo[c] \in Repositories /\ Chunks(c) \in Seq(Chunk)
  BY <1>1, ChunksAreRight DEF IInv, PlacedAt, HaveVectors
<1>4. Typed'
  <2>1. index' \in [Builds -> Seq(Chunk)]
    BY <1>1, <1>3 DEF IInv, Typed
  <2> QED BY <1>1, <1>2, <2>1 DEF IInv, Typed
<1>5. PlacedAt(c)'
  BY <1>1, <1>2 DEF IInv, PlacedAt, Embedding, HaveVectors
<1>6. Excused(c)' /\ Kept(c)'
  BY <1>1, <1>2 DEF IInv, Excused, Kept, HaveVectors
<1>7. \A b \in Builds : Chunks(b)' = Chunks(b)
  BY <1>1, ChunksAre, Kinds
<1>8. /\ index'[c] = Chunks(c)
      /\ \A b \in Builds : b # c => index'[b] = index[b] /\ at'[b] = at[b]
  BY <1>1, <1>2, Kinds DEF IInv, Typed, Others
<1>9. RowsAreWhole'
  BY <1>1, <1>2, <1>3, <1>7, <1>8 DEF IInv, RowsAreWhole
<1>10. Apart'
  <2> SUFFICES ASSUME NEW a \in Builds, NEW b \in Builds, a # b, at'[a] # "idle", at'[b] # "idle",
                      repo[a] = repo[b], ~ Overlapped(a, b)
               PROVE  Dropped(a)' \/ Dropped(b)'
    BY <1>1 DEF Apart, Overlapped
  <2>1. at[a] # "idle" /\ at[b] # "idle"
    BY <1>1, <1>8
  <2>2. Dropped(a) \/ Dropped(b)
    BY <2>1 DEF IInv, Apart
  <2>3. \A d \in Builds : Dropped(d) => Dropped(d)'
    BY <1>1, <1>8 DEF Dropped, Ended
  <2> QED BY <2>2, <2>3
<1>11. ResultsAreWhole'
  BY <1>1, <1>2, ResultsStay
<1>12. OneAskerSucceeds'
  BY <1>1, <1>2, AskersStay
<1>13. \A d \in Calls : PlacedAt(d)' /\ Excused(d)' /\ Kept(d)'
  BY <1>1, <1>2, <1>5, <1>6, OthersStay
<1> QED BY <1>1, <1>4, <1>9, <1>10, <1>11, <1>12, <1>13 DEF IInv, CacheIsRight

(* A build whose commit is refused leaves what there is.                   *)
LEMMA StoreChunksRefusedSafe ==
  ASSUME IInv, NEW c \in Calls, StoreChunksRefused(c)
  PROVE  IInv'
<1>1. /\ c \in Builds /\ at[c] = "embedded" /\ at' = [at EXCEPT ![c] = "unstored"]
      /\ UNCHANGED <<caching, cache, index, repo, beside, want, found, missing, sent, got, attempt,
                     result, asked>>
  BY DEF StoreChunksRefused, Goto, callVars
<1>2. at' \in [Calls -> PCs] /\ at'[c] = "unstored" /\ Others(c)
  BY <1>1 DEF IInv, Typed, Others, PCs
<1>3. Typed'
  BY <1>1, <1>2 DEF IInv, Typed
<1>4. PlacedAt(c)'
  BY <1>1, <1>2 DEF IInv, PlacedAt, Embedding, HaveVectors
<1>5. Excused(c)' /\ Kept(c)'
  BY <1>1, <1>2 DEF IInv, Excused, Kept, HaveVectors
<1>6. RowsAreWhole' /\ Apart' /\ ResultsAreWhole'
  BY <1>1, <1>2, BuildsStay DEF Ended
<1>7. OneAskerSucceeds'
  BY <1>1, <1>2, AskersStay
<1>8. \A d \in Calls : PlacedAt(d)' /\ Excused(d)' /\ Kept(d)'
  BY <1>1, <1>2, <1>4, <1>5, OthersStay
<1> QED BY <1>1, <1>3, <1>6, <1>7, <1>8 DEF IInv, CacheIsRight

(* The rows of a repository are those of builds of it that may stand       *)
(* together.                                                               *)
LEMMA RepositoryIsWhole ==
  ASSUME IInv, NEW r \in Repositories
  PROVE  WholeBuilds([b \in Builds |-> IF repo[b] = r THEN index[b] ELSE <<>>], r)
<1> DEFINE rows == [b \in Builds |-> IF repo[b] = r THEN index[b] ELSE <<>>]
<1>1. \A b \in Builds : rows[b] # <<>> => repo[b] = r /\ rows[b] = index[b]
  OBVIOUS
<1>2. \A b \in Builds : rows[b] # <<>> => at[b] = "done" /\ rows[b] = Chunks(b)
  BY <1>1 DEF IInv, RowsAreWhole
<1>3. \A a, b \in Builds : rows[a] # <<>> /\ rows[b] # <<>> => a = b \/ Overlapped(a, b)
  BY <1>1, <1>2 DEF IInv, Apart, Dropped
<1> HIDE DEF rows
<1>4. WholeBuilds(rows, r)
  BY <1>1, <1>2, <1>3 DEF WholeBuilds
<1> QED BY <1>4 DEF rows

(* A search returns what is there, and ends.                               *)
LEMMA ReadChunksSafe ==
  ASSUME IInv, NEW c \in Calls, ReadChunks(c)
  PROVE  IInv'
<1> DEFINE rows == [b \in Builds |-> IF repo[b] = repo[c] THEN index[b] ELSE <<>>]
<1>1. /\ c \in Searches /\ at[c] = "embedded"
      /\ result' = [result EXCEPT ![c] = rows]
      /\ at' = [at EXCEPT ![c] = "done"]
      /\ UNCHANGED <<caching, cache, index, repo, beside, want, found, missing, sent, got, attempt,
                     asked>>
  BY DEF ReadChunks, Goto, callVars
<1>2. at' \in [Calls -> PCs] /\ at'[c] = "done" /\ Others(c)
  BY <1>1 DEF IInv, Typed, Others, PCs
<1>3. repo[c] \in Repositories
  BY <1>1 DEF IInv, PlacedAt
<1>4. WholeBuilds(rows, repo[c]) /\ rows \in [Builds -> Seq(Chunk)]
  <2>1. rows \in [Builds -> Seq(Chunk)]
    BY DEF IInv, Typed
  <2> QED BY <1>3, <2>1, RepositoryIsWhole
<1> HIDE DEF rows
<1>5. /\ result'[c] = rows /\ \A s \in Searches \ {c} : result'[s] = result[s]
      /\ result' \in [Searches -> [Builds -> Seq(Chunk)]]
  BY <1>1, <1>4 DEF IInv, Typed
<1>6. Typed'
  BY <1>1, <1>2, <1>5 DEF IInv, Typed
<1>7. PlacedAt(c)'
  BY <1>1, <1>2 DEF IInv, PlacedAt, Embedding, HaveVectors
<1>8. Excused(c)' /\ Kept(c)'
  BY <1>1, <1>2 DEF IInv, Excused, Kept, HaveVectors
<1>9. \A b \in Builds :
        /\ index'[b] = index[b] /\ repo'[b] = repo[b] /\ at'[b] = at[b] /\ beside'[b] = beside[b]
        /\ Chunks(b)' = Chunks(b)
  BY <1>1, <1>2, ChunksAre, Kinds DEF Others
<1>10. RowsAreWhole' /\ Apart'
  BY <1>9 DEF IInv, RowsAreWhole, Apart, Dropped, Overlapped
<1>11. ResultsAreWhole'
  <2> SUFFICES ASSUME NEW s \in Searches
               PROVE  /\ WholeBuilds(result[s], repo[s])'
                      /\ at'[s] # "done" => \A b \in Builds : result'[s][b] = <<>>
    BY DEF ResultsAreWhole
  <2>1. PICK x, y : x = result'[s] /\ y = repo[s]
    OBVIOUS
  <2>2. WholeBuilds(x, y) /\ (at'[s] # "done" => \A b \in Builds : x[b] = <<>>)
    <3>1. CASE s = c
      BY <1>2, <1>4, <1>5, <2>1, <3>1
    <3>2. CASE s # c
      <4>1. x = result[s] /\ at'[s] = at[s]
        BY <1>2, <1>5, <2>1, <3>2, Kinds DEF Others
      <4> QED BY <2>1, <4>1 DEF IInv, ResultsAreWhole
    <3> QED BY <3>1, <3>2
  <2>3. repo'[s] = y
    BY <1>1, <2>1
  <2> QED BY <1>9, <2>1, <2>2, <2>3 DEF WholeBuilds, Overlapped
<1>12. OneAskerSucceeds'
  BY <1>1, <1>2, AskersStay
<1>13. \A d \in Calls : PlacedAt(d)' /\ Excused(d)' /\ Kept(d)'
  BY <1>1, <1>2, <1>7, <1>8, OthersStay
<1> QED BY <1>1, <1>6, <1>10, <1>11, <1>12, <1>13 DEF IInv, CacheIsRight

LEMMA NextSafe ==
  ASSUME IInv, [Next]_vars
  PROVE  IInv'
<1>1. ASSUME NEW c \in Builds, StartBuild(c) PROVE IInv'
  <2>1. PICK in \in Inputs[c] :
          /\ Begin(c, in)
          /\ index' = [b \in Builds |-> IF repo[b] = in.repo THEN <<>> ELSE index[b]]
    BY <1>1 DEF StartBuild
  <2>2. in.repo \in Repositories /\ in.texts \in Seq(Texts) /\ c \in Calls
    BY InputsAssumption, Kinds
  <2> QED BY <2>1, <2>2, BeginSafe
<1>2. ASSUME NEW c \in Searches, StartSearch(c) PROVE IInv'
  <2>1. PICK in \in Inputs[c] : Begin(c, in) /\ UNCHANGED index
    BY <1>2 DEF StartSearch
  <2>2. in.repo \in Repositories /\ in.texts \in Seq(Texts) /\ c \in Calls
    BY InputsAssumption, Kinds
  <2> QED BY <2>1, <2>2, BeginSafe
<1>3. ASSUME NEW c \in Calls, CallStep(c) PROVE IInv'
  BY <1>3, LookUpSafe, AnswerArrivesSafe, RequestFailsSafe, StoreVectorsSafe,
     StoreChunksSafe, StoreChunksRefusedSafe, ReadChunksSafe DEF CallStep
<1>4. CASE UNCHANGED vars
  <2>1. UNCHANGED <<caching, cache, index, at, repo, beside, want, found, missing, sent, got, attempt,
                    result, asked>>
    BY <1>4 DEF vars, callVars
  <2>2. Typed' /\ CacheIsRight'
    BY <2>1 DEF IInv, Typed, CacheIsRight
  <2>3. \A c \in Calls : PlacedAt(c)' /\ Excused(c)' /\ Kept(c)'
    BY <2>1 DEF IInv, PlacedAt, Fresh, Embedding, Excused, Collides, Kept
  <2>4. \A c \in Calls : Chunks(c)' = Chunks(c)
    BY <2>1, ChunksAre
  <2>5. RowsAreWhole' /\ Apart' /\ OneAskerSucceeds'
    BY <2>1, <2>4, Kinds DEF IInv, RowsAreWhole, Apart, Dropped, Overlapped, OneAskerSucceeds
  <2>6. ResultsAreWhole'
    BY <2>1, <2>4, Kinds DEF IInv, ResultsAreWhole, WholeBuilds, Overlapped
  <2> QED BY <2>2, <2>3, <2>5, <2>6 DEF IInv
<1> QED BY <1>1, <1>2, <1>3, <1>4 DEF Next

LEMMA InitSafe ==
  ASSUME Init
  PROVE  IInv
<1>1. Typed
  <2>1. <<>> \in Seq(Chunk) /\ <<>> \in Seq(Texts) /\ <<>> \in Seq(Vectors) /\ <<>> \in Seq(Nat)
    OBVIOUS
  <2>2. 0 \in 0..Retries
    BY Kinds
  <2> QED BY <2>1, <2>2 DEF Init, Typed, Vectors, PCs
<1>2. CacheIsRight /\ RowsAreWhole /\ Apart /\ ResultsAreWhole /\ OneAskerSucceeds
  BY Kinds DEF Init, CacheIsRight, RowsAreWhole, Apart, ResultsAreWhole, WholeBuilds,
               OneAskerSucceeds
<1>3. ASSUME NEW c \in Calls PROVE PlacedAt(c) /\ Excused(c) /\ Kept(c)
  BY DEF Init, PlacedAt, Fresh, Excused, Kept, HaveVectors
<1> QED BY <1>1, <1>2, <1>3 DEF IInv

------------------------------------------------------------------------------
(* The invariant is inductive (index/service.py:82-131,                    *)
(* embedder.py:83-118).                                                    *)
THEOREM InvariantHolds == Spec => []IInv
<1>1. Init => IInv
  BY InitSafe
<1>2. IInv /\ [Next]_vars => IInv'
  BY NextSafe
<1> QED BY <1>1, <1>2, PTL DEF Spec

(* Every variable keeps its type: among others what is found is found for  *)
(* every position or for none, and what is asked for are positions         *)
(* (index/service.py:99-131).                                              *)
LEMMA Types == IInv => TypeOK
<1> SUFFICES ASSUME IInv PROVE TypeOK
  OBVIOUS
<1>1. Typed
  BY DEF IInv
<1>2. ASSUME NEW c \in Calls
      PROVE  /\ found[c] \in Seq(Vectors) /\ Len(found[c]) \in {0, Len(want[c])}
             /\ missing[c] \in Seq(DOMAIN want[c])
             /\ sent[c] \in 0..Len(missing[c])
             /\ got[c] \in Seq(Texts)
             /\ attempt[c] \in 0..Retries
  <2>1. /\ found[c] \in Seq(Vectors) /\ missing[c] \in Seq(Nat) /\ sent[c] \in Nat
        /\ got[c] \in Seq(Texts) /\ attempt[c] \in 0..Retries
    BY <1>1 DEF Typed
  <2>2. CASE Fresh(c)
    <3>1. Len(found[c]) = 0 /\ missing[c] \in Seq(DOMAIN want[c]) /\ Len(missing[c]) = 0 /\ sent[c] = 0
      BY <2>2 DEF Fresh
    <3> QED BY <2>1, <3>1
  <2>3. CASE Embedding(c)
    <3>1. \A k \in 1..Len(missing[c]) : missing[c][k] \in DOMAIN want[c]
      BY <2>1, <2>3 DEF Embedding
    <3>2. missing[c] \in Seq(DOMAIN want[c])
      <4>1. PICK m \in Seq(Nat) : m = missing[c]
        BY <2>1
      <4>2. PICK n \in Nat : n = Len(m) /\ DOMAIN m = 1..n
        BY <4>1
      <4>3. m \in [1..n -> DOMAIN want[c]]
        BY <3>1, <4>1, <4>2
      <4>4. m \in Seq(DOMAIN want[c])
        BY <4>3
      <4> QED BY <4>1, <4>2, <4>4
    <3> QED BY <2>1, <2>3, <3>2 DEF Embedding
  <2> QED BY <2>2, <2>3 DEF IInv, PlacedAt
<1> QED BY <1>1, <1>2 DEF Typed, TypeOK

(* So a position is asked for only if it is one of the call's, and no more *)
(* is ever counted as sent than is missing (index/service.py:99-131).      *)
THEOREM TypeCorrect == Spec => []TypeOK
<1> QED BY InvariantHolds, Types, PTL

(* A vector stored for a text, in the table or in a chunk, is that text's: *)
(* whatever the batches, the order of the answers and the calls at work at *)
(* the same time (embedder.py:83-118, index/service.py:82-131).            *)
THEOREM VectorsAlwaysTheirTexts == Spec => []VectorsAreTheirTexts
<1>1. IInv => VectorsAreTheirTexts
  <2> SUFFICES ASSUME IInv, NEW b \in Builds, NEW i \in DOMAIN index[b]
               PROVE  index[b][i].vector = index[b][i].text
    BY DEF VectorsAreTheirTexts, IInv, CacheIsRight
  <2>1. index[b] # <<>>
    OBVIOUS
  <2>2. at[b] \in HaveVectors /\ index[b] = Chunks(b)
    BY <2>1 DEF IInv, RowsAreWhole, HaveVectors
  <2> QED BY <2>2, Kinds, ChunksAreRight
<1> QED BY <1>1, InvariantHolds, PTL

(* A search sees all the chunks of a finished build of its repository or   *)
(* none of them, though a build makes three commits, and those of two      *)
(* builds together only if the two overlapped: nothing of a build that has *)
(* ended survives the beginning of the next (index/service.py:137-199).    *)
THEOREM SearchesAlwaysSeeWholeBuilds == Spec => []SearchSeesWholeBuilds
<1>1. IInv => SearchSeesWholeBuilds
  <2> SUFFICES ASSUME IInv PROVE SearchSeesWholeBuilds
    OBVIOUS
  <2>1. \A r \in Repositories :
          WholeBuilds([b \in Builds |-> IF repo[b] = r THEN index[b] ELSE <<>>], r)
    BY RepositoryIsWhole
  <2>2. \A s \in Searches : WholeBuilds(result[s], repo[s])
    BY DEF IInv, ResultsAreWhole
  <2> QED BY <2>1, <2>2 DEF SearchSeesWholeBuilds
<1> QED BY <1>1, InvariantHolds, PTL

(* A call that was given every vector loses them only to a text it asked   *)
(* for twice or to another call, and of all the calls that asked for a     *)
(* text at most one succeeds (index/service.py:99-131).                    *)
THEOREM RefusalsAreAlwaysCollisions == Spec => []RefusalsAreCollisions
<1>1. IInv => FailureHasAReason
  <2> SUFFICES ASSUME IInv, NEW c \in Calls, at[c] = "failed", missing[c] # <<>>,
                      Len(got[c]) = Len(missing[c])
               PROVE  ~ Insertable(Asks(c))
    BY DEF FailureHasAReason
  <2> QED BY RefusedIs DEF IInv, Excused
<1>2. IInv => RefusalsAreCollisions
  BY <1>1, Types DEF RefusalsAreCollisions, IInv
<1> QED BY <1>2, InvariantHolds, PTL
==============================================================================
