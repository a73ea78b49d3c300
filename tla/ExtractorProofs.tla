--------------------------- MODULE ExtractorProofs ---------------------------
(* Theorems about the extractors: wherever they are in a file, what they    *)
(* know of the definitions around is what the text says, and so the graph   *)
(* is in place.                                                             *)
EXTENDS Extractors, Lemmas, FiniteSetTheorems

(* How many definitions the nodes from i to j open and leave open, negative *)
(* when they close more.                                                    *)
Left(nodes, i, j) == Count(nodes, i, j, Opens) - Count(nodes, i, j, {"end"})

LEMMA CountProperties ==
    ASSUME NEW nodes, NEW kinds, NEW i \in Nat, NEW k \in Nat, NEW j \in Nat,
           i <= k + 1, k <= j
    PROVE  /\ Count(nodes, i, j, kinds) \in Nat
           /\ Count(nodes, i, k, kinds) \in Nat
           /\ Count(nodes, k + 1, j, kinds) \in Nat
           /\ Count(nodes, i, j, kinds) =
                  Count(nodes, i, k, kinds) + Count(nodes, k + 1, j, kinds)
<1> DEFINE Of(a, b) == {m \in a..b : nodes[m].is \in kinds}
<1>1. \A a, b \in Nat : IsFiniteSet(Of(a, b)) /\ Cardinality(Of(a, b)) \in Nat
  <2> TAKE a, b \in Nat
  <2>1. IsFiniteSet(a..b)
    BY FS_Interval
  <2>2. Of(a, b) \in SUBSET (a..b)
    OBVIOUS
  <2> HIDE DEF Of
  <2>3. IsFiniteSet(Of(a, b))
    BY <2>1, <2>2, FS_Subset
  <2> QED BY <2>3, FS_CardinalityType
<1>2. Of(i, j) = Of(i, k) \cup Of(k + 1, j) /\ Of(i, k) \cap Of(k + 1, j) = {}
  OBVIOUS
<1>3. /\ Count(nodes, i, j, kinds) = Cardinality(Of(i, j))
      /\ Count(nodes, i, k, kinds) = Cardinality(Of(i, k))
      /\ Count(nodes, k + 1, j, kinds) = Cardinality(Of(k + 1, j))
  BY DEF Count
<1> HIDE DEF Of
<1>4. Cardinality({}) = 0
  BY FS_EmptySet
<1>5. Cardinality(Of(i, k) \cup Of(k + 1, j)) =
          Cardinality(Of(i, k)) + Cardinality(Of(k + 1, j)) - Cardinality({})
  <2>1. IsFiniteSet(Of(i, k)) /\ IsFiniteSet(Of(k + 1, j))
    <3>1. k + 1 \in Nat
      OBVIOUS
    <3>2. \A b \in Nat : IsFiniteSet(Of(i, b)) /\ IsFiniteSet(Of(k + 1, b))
      BY <1>1, <3>1
    <3> QED BY <3>2
  <2>2. Cardinality(Of(i, k) \cup Of(k + 1, j)) =
            Cardinality(Of(i, k)) + Cardinality(Of(k + 1, j))
              - Cardinality(Of(i, k) \cap Of(k + 1, j))
    BY <2>1, FS_Union
  <2> QED BY <1>2, <2>2
<1>6. /\ Cardinality(Of(i, j)) \in Nat /\ Cardinality(Of(i, k)) \in Nat
      /\ Cardinality(Of(k + 1, j)) \in Nat
  <2>1. k + 1 \in Nat
    OBVIOUS
  <2> QED BY <1>1, <2>1
<1>7. Cardinality(Of(i, j)) = Cardinality(Of(i, k)) + Cardinality(Of(k + 1, j))
  BY <1>2, <1>4, <1>5, <1>6
<1> QED BY <1>3, <1>6, <1>7

LEMMA CountOne ==
    ASSUME NEW nodes, NEW kinds, NEW i \in Nat
    PROVE  Count(nodes, i, i, kinds) = IF nodes[i].is \in kinds THEN 1 ELSE 0
<1> DEFINE Of == {m \in i..i : nodes[m].is \in kinds}
<1>1. Of = IF nodes[i].is \in kinds THEN {i} ELSE {}
  OBVIOUS
<1>2. Count(nodes, i, i, kinds) = Cardinality(Of)
  BY DEF Count
<1> HIDE DEF Of
<1>3. Cardinality({}) = 0 /\ Cardinality({i}) = 1
  BY FS_EmptySet, FS_Singleton
<1> QED BY <1>1, <1>2, <1>3

LEMMA LeftOf ==
    ASSUME NEW nodes, NEW i \in Nat, NEW k \in Nat, NEW l \in Nat, NEW j \in Nat,
           l = k + 1, i <= l, k <= j
    PROVE  /\ Left(nodes, i, j) \in Int
           /\ Left(nodes, i, k) \in Int
           /\ Left(nodes, l, j) \in Int
           /\ Left(nodes, i, j) = Left(nodes, i, k) + Left(nodes, l, j)
BY CountProperties DEF Left

LEMMA LeftOne ==
    ASSUME NEW nodes, NEW i \in Nat
    PROVE  Left(nodes, i, i) = IF nodes[i].is \in Opens THEN 1
                               ELSE IF nodes[i].is = "end" THEN -1 ELSE 0
<1>1. nodes[i].is \in Opens => nodes[i].is # "end"
  BY DEF Opens
<1>2. /\ Count(nodes, i, i, Opens) = IF nodes[i].is \in Opens THEN 1 ELSE 0
      /\ Count(nodes, i, i, {"end"}) = IF nodes[i].is \in {"end"} THEN 1 ELSE 0
  BY CountOne
<1> QED BY <1>1, <1>2 DEF Left

(* The same of the set Inside. *)
Encloses(nodes, j, i) == j \in 1..i - 1 /\ \A k \in j..i - 1 : Left(nodes, j, k) >= 1

LEMMA InsideDef ==
    ASSUME NEW nodes, NEW i \in Nat \ {0}
    PROVE  /\ Inside(nodes, i) \in SUBSET (1..i - 1)
           /\ \A j \in 1..i - 1 : j \in Inside(nodes, i) <=> Encloses(nodes, j, i)
<1>1. ASSUME NEW j \in 1..i - 1, NEW k \in j..i - 1
      PROVE  Count(nodes, j, k, Opens) > Count(nodes, j, k, {"end"}) <=> Left(nodes, j, k) >= 1
  <2>1. j \in Nat /\ k \in Nat /\ j <= k + 1 /\ k <= k
    OBVIOUS
  <2>2. Count(nodes, j, k, Opens) \in Nat /\ Count(nodes, j, k, {"end"}) \in Nat
    BY <2>1, CountProperties
  <2> QED BY <2>2 DEF Left
<1> QED BY <1>1 DEF Inside, Encloses

(* Coming to a node after one that opens nothing and closes nothing, one    *)
(* is in the same definitions; after one that opens a definition in that    *)
(* one too.                                                                 *)
LEMMA InsideQuiet ==
    ASSUME NEW nodes, NEW i \in Nat \ {0}, nodes[i].is \notin Opens, nodes[i].is # "end"
    PROVE  Inside(nodes, i + 1) = Inside(nodes, i)
<1>1. Left(nodes, i, i) = 0
  BY LeftOne
<1>2. /\ Inside(nodes, i + 1) \in SUBSET (1..i)
      /\ \A j \in 1..i : j \in Inside(nodes, i + 1) <=> Encloses(nodes, j, i + 1)
      /\ Inside(nodes, i) \in SUBSET (1..i - 1)
      /\ \A j \in 1..i - 1 : j \in Inside(nodes, i) <=> Encloses(nodes, j, i)
  <2>1. i + 1 \in Nat \ {0} /\ (i + 1) - 1 = i
    OBVIOUS
  <2> QED BY <2>1, InsideDef
<1>3. ~Encloses(nodes, i, i + 1)
  BY <1>1 DEF Encloses
<1>4. ASSUME NEW j \in 1..i - 1
      PROVE  Encloses(nodes, j, i + 1) <=> Encloses(nodes, j, i)
  <2>1. Left(nodes, j, i) = Left(nodes, j, i - 1)
    <3>1. j \in Nat /\ i - 1 \in Nat /\ j <= (i - 1) + 1 /\ i - 1 <= i /\ i = (i - 1) + 1
      OBVIOUS
    <3>2. Left(nodes, j, i - 1) \in Int /\ Left(nodes, j, i) = Left(nodes, j, i - 1) + Left(nodes, i, i)
      BY <3>1, LeftOf
    <3> QED BY <1>1, <3>2
  <2>2. j..i = (j..i - 1) \cup {i} /\ i - 1 \in j..i - 1 /\ j \in 1..i /\ (i + 1) - 1 = i
    OBVIOUS
  <2>3. Encloses(nodes, j, i + 1) <=> \A k \in j..i : Left(nodes, j, k) >= 1
    BY <2>2 DEF Encloses
  <2>4. Encloses(nodes, j, i) <=> \A k \in j..i - 1 : Left(nodes, j, k) >= 1
    BY DEF Encloses
  <2> QED BY <2>1, <2>2, <2>3, <2>4
<1>5. 1..i = (1..i - 1) \cup {i}
  OBVIOUS
<1> QED BY <1>2, <1>3, <1>4, <1>5

LEMMA InsideOpen ==
    ASSUME NEW nodes, NEW i \in Nat \ {0}, nodes[i].is \in Opens
    PROVE  Inside(nodes, i + 1) = Inside(nodes, i) \cup {i}
<1>1. Left(nodes, i, i) = 1
  BY LeftOne
<1>2. /\ Inside(nodes, i + 1) \in SUBSET (1..i)
      /\ \A j \in 1..i : j \in Inside(nodes, i + 1) <=> Encloses(nodes, j, i + 1)
      /\ Inside(nodes, i) \in SUBSET (1..i - 1)
      /\ \A j \in 1..i - 1 : j \in Inside(nodes, i) <=> Encloses(nodes, j, i)
  <2>1. i + 1 \in Nat \ {0} /\ (i + 1) - 1 = i
    OBVIOUS
  <2> QED BY <2>1, InsideDef
<1>3. Encloses(nodes, i, i + 1)
  BY <1>1 DEF Encloses
<1>4. ASSUME NEW j \in 1..i - 1
      PROVE  Encloses(nodes, j, i + 1) <=> Encloses(nodes, j, i)
  <2>1. Left(nodes, j, i - 1) \in Int /\ Left(nodes, j, i) = Left(nodes, j, i - 1) + 1
    <3>1. j \in Nat /\ i - 1 \in Nat /\ j <= (i - 1) + 1 /\ i - 1 <= i /\ i = (i - 1) + 1
      OBVIOUS
    <3>2. Left(nodes, j, i - 1) \in Int /\ Left(nodes, j, i) = Left(nodes, j, i - 1) + Left(nodes, i, i)
      BY <3>1, LeftOf
    <3> QED BY <1>1, <3>2
  <2>2. j..i = (j..i - 1) \cup {i} /\ i - 1 \in j..i - 1 /\ j \in 1..i /\ (i + 1) - 1 = i
    OBVIOUS
  <2>3. Encloses(nodes, j, i + 1) <=> \A k \in j..i : Left(nodes, j, k) >= 1
    BY <2>2 DEF Encloses
  <2>4. Encloses(nodes, j, i) <=> \A k \in j..i - 1 : Left(nodes, j, k) >= 1
    BY DEF Encloses
  <2> QED BY <2>1, <2>2, <2>3, <2>4
<1>5. 1..i = (1..i - 1) \cup {i}
  OBVIOUS
<1> QED BY <1>2, <1>3, <1>4, <1>5

(* An end closes the innermost definition, and what follows is in those     *)
(* this definition is in.                                                   *)
Closes(nodes, m, i) ==
    /\ m \in 1..i - 1 /\ m \in Nat \ {0} /\ nodes[m].is \in Opens
    /\ m \in Inside(nodes, i) /\ m \notin Inside(nodes, m)
    /\ Inside(nodes, i) = Inside(nodes, m) \cup {m}
    /\ Inside(nodes, i + 1) = Inside(nodes, m)

LEMMA InsideEnd ==
    ASSUME NEW nodes, NEW i \in Nat \ {0}, nodes[i].is = "end", Inside(nodes, i) # {}
    PROVE  \E m \in 1..i - 1 : Closes(nodes, m, i)
<1> DEFINE m == Max(Inside(nodes, i))
<1>1. /\ Inside(nodes, i + 1) \in SUBSET (1..i)
      /\ \A j \in 1..i : j \in Inside(nodes, i + 1) <=> Encloses(nodes, j, i + 1)
      /\ Inside(nodes, i) \in SUBSET (1..i - 1)
      /\ \A j \in 1..i - 1 : j \in Inside(nodes, i) <=> Encloses(nodes, j, i)
  <2>1. i + 1 \in Nat \ {0} /\ (i + 1) - 1 = i
    OBVIOUS
  <2> QED BY <2>1, InsideDef
<1>2. m \in Inside(nodes, i) /\ \A j \in Inside(nodes, i) : j <= m
  <2>1. Inside(nodes, i) \in SUBSET (0..i) /\ i \in Nat
    BY <1>1
  <2> QED BY <2>1, MaxIsAmong
<1> HIDE DEF m
<1>3. m \in 1..i - 1 /\ m \in Nat \ {0} /\ Encloses(nodes, m, i)
  BY <1>1, <1>2
<1>4. /\ Inside(nodes, m) \in SUBSET (1..m - 1)
      /\ \A j \in 1..m - 1 : j \in Inside(nodes, m) <=> Encloses(nodes, j, m)
  BY <1>3, InsideDef
<1>5. nodes[i].is \notin Opens /\ Left(nodes, i, i) = -1
  BY LeftOne DEF Opens
<1>6. ASSUME NEW j \in 1..i, NEW k \in j..i - 1
      PROVE  /\ Left(nodes, j, k) \in Int /\ Left(nodes, j, i - 1) \in Int
             /\ Left(nodes, k + 1, i - 1) \in Int
             /\ Left(nodes, j, i - 1) = Left(nodes, j, k) + Left(nodes, k + 1, i - 1)
  <2>1. j \in Nat /\ k \in Nat /\ k + 1 \in Nat /\ i - 1 \in Nat /\ j <= k + 1 /\ k <= i - 1
    OBVIOUS
  <2> QED BY <2>1, LeftOf
<1>7. \A j \in 1..i - 1 : /\ Left(nodes, j, i - 1) \in Int
                          /\ Left(nodes, j, i) = Left(nodes, j, i - 1) - 1
  <2> TAKE j \in 1..i - 1
  <2>1. j \in Nat /\ i - 1 \in Nat /\ j <= (i - 1) + 1 /\ i - 1 <= i /\ i = (i - 1) + 1
    OBVIOUS
  <2>2. Left(nodes, j, i - 1) \in Int /\ Left(nodes, j, i) = Left(nodes, j, i - 1) + Left(nodes, i, i)
    BY <2>1, LeftOf
  <2> QED BY <1>5, <2>2
<1>8. nodes[m].is \in Opens
  <2>1. m \in m..i - 1
    BY <1>3
  <2>2. Left(nodes, m, m) >= 1
    BY <1>3, <2>1 DEF Encloses
  <2> QED BY <1>3, <2>2, LeftOne
<1>9. Left(nodes, m, i - 1) = 1
  <2> DEFINE J == {j \in m + 1..i - 1 : Left(nodes, j, i - 1) >= 1}
  <2>1. J = {}
    <3> SUFFICES ASSUME J # {} PROVE FALSE
      OBVIOUS
    <3>1. PICK j \in J : \A l \in J : l <= j
      <4>1. J \in SUBSET (0..i) /\ i \in Nat
        BY <1>3
      <4> HIDE DEF J
      <4> QED BY <4>1, MaxIsAmong
    <3>2. j \in 1..i - 1 /\ m < j /\ Left(nodes, j, i - 1) >= 1
      BY <1>3
    <3>3. ASSUME NEW k \in j..i - 1 PROVE Left(nodes, j, k) >= 1
      <4>1. CASE k = i - 1
        BY <3>2, <4>1
      <4>2. CASE k # i - 1
        <5>1. k + 1 \in m + 1..i - 1 /\ ~(k + 1 <= j)
          BY <1>3, <3>2, <4>2
        <5>2. k + 1 \notin J
          <6> HIDE DEF J
          <6> QED BY <3>1, <5>1
        <5>3. ~(Left(nodes, k + 1, i - 1) >= 1)
          BY <5>1, <5>2
        <5>4. j \in 1..i
          BY <3>2
        <5>5. /\ Left(nodes, j, k) \in Int /\ Left(nodes, j, i - 1) \in Int
              /\ Left(nodes, k + 1, i - 1) \in Int
              /\ Left(nodes, j, i - 1) = Left(nodes, j, k) + Left(nodes, k + 1, i - 1)
          BY <1>6, <5>4
        <5> HIDE DEF J
        <5> QED BY <3>2, <5>3, <5>5
      <4> QED BY <4>1, <4>2
    <3> HIDE DEF J
    <3>4. j \in Inside(nodes, i)
      BY <1>1, <3>2, <3>3 DEF Encloses
    <3>5. j <= m
      BY <1>2, <3>4
    <3> QED BY <1>3, <3>2, <3>5
  <2>2. Left(nodes, m, i - 1) >= 1 /\ Left(nodes, m, i - 1) \in Int
    BY <1>3, <1>7 DEF Encloses
  <2>3. Left(nodes, m, m) = 1
    BY <1>3, <1>8, LeftOne
  <2>4. CASE m = i - 1
    BY <2>3, <2>4
  <2>5. CASE m # i - 1
    <3>1. m + 1 \in m + 1..i - 1
      BY <1>3, <2>5
    <3>2. ~(Left(nodes, m + 1, i - 1) >= 1)
      BY <2>1, <3>1
    <3>3. m \in 1..i /\ m \in m..i - 1
      BY <1>3
    <3>4. /\ Left(nodes, m + 1, i - 1) \in Int
          /\ Left(nodes, m, i - 1) = Left(nodes, m, m) + Left(nodes, m + 1, i - 1)
      BY <1>6, <3>3
    <3> HIDE DEF J
    <3> QED BY <2>2, <2>3, <3>2, <3>4
  <2> QED BY <2>4, <2>5
<1>10. ASSUME NEW j \in Inside(nodes, m) PROVE j \in Inside(nodes, i) /\ j \in Inside(nodes, i + 1)
  <2>1. j \in 1..m - 1 /\ j \in 1..i - 1 /\ j \in 1..i /\ Encloses(nodes, j, m)
    BY <1>3, <1>4
  <2>2. ASSUME NEW k \in j..i - 1 PROVE Left(nodes, j, k) >= 1 /\ (k >= m => Left(nodes, j, k) >= 2)
    <3>1. CASE k < m
      BY <1>3, <2>1, <3>1 DEF Encloses
    <3>2. CASE k >= m
      <4>1. m - 1 \in j..m - 1 /\ k \in m..i - 1
        BY <1>3, <2>1, <3>2
      <4>2. Left(nodes, j, m - 1) >= 1 /\ Left(nodes, m, k) >= 1
        BY <1>3, <2>1, <4>1 DEF Encloses
      <4>3. j \in Nat /\ m - 1 \in Nat /\ k \in Nat /\ j <= (m - 1) + 1 /\ m - 1 <= k
              /\ m = (m - 1) + 1
        BY <1>3, <2>1, <3>2
      <4>4. /\ Left(nodes, j, m - 1) \in Int /\ Left(nodes, m, k) \in Int
            /\ Left(nodes, j, k) = Left(nodes, j, m - 1) + Left(nodes, m, k)
        BY <4>3, LeftOf
      <4> QED BY <4>2, <4>4
    <3> QED BY <1>3, <2>1, <3>1, <3>2
  <2>3. j \in Inside(nodes, i)
    BY <1>1, <2>1, <2>2 DEF Encloses
  <2>4. i - 1 \in j..i - 1 /\ i - 1 >= m
    BY <1>3, <2>1
  <2>5. Left(nodes, j, i) >= 1
    BY <1>7, <2>1, <2>2, <2>4
  <2>6. \A k \in j..i : k = i \/ k \in j..i - 1
    BY <2>1
  <2>7. Encloses(nodes, j, i + 1)
    BY <2>1, <2>2, <2>5, <2>6 DEF Encloses
  <2> QED BY <1>1, <2>1, <2>3, <2>7
<1>11. ASSUME NEW j \in Inside(nodes, i), j # m PROVE j \in Inside(nodes, m)
  <2>1. j \in 1..m - 1 /\ j \in 1..i - 1 /\ Encloses(nodes, j, i)
    BY <1>1, <1>2, <1>3, <1>11
  <2>2. Encloses(nodes, j, m)
    BY <1>3, <2>1 DEF Encloses
  <2> QED BY <1>4, <2>1, <2>2
<1>12. ASSUME NEW j \in Inside(nodes, i + 1) PROVE j \in Inside(nodes, m)
  <2>1. j \in 1..i /\ Encloses(nodes, j, i + 1)
    BY <1>1
  <2>2. i \in j..i /\ Left(nodes, j, i) >= 1
    BY <2>1 DEF Encloses
  <2>3. j # i
    BY <1>5, <2>2
  <2>4. j \in 1..i - 1 /\ Encloses(nodes, j, i)
    BY <2>1, <2>3 DEF Encloses
  <2>5. j \in Inside(nodes, i) /\ Left(nodes, j, i - 1) >= 2
    BY <1>1, <1>7, <2>2, <2>4
  <2>6. j # m
    BY <1>9, <2>5
  <2> QED BY <1>11, <2>5, <2>6
<1>13. m \notin Inside(nodes, m)
  BY <1>3, <1>4
<1>14. Inside(nodes, i) = Inside(nodes, m) \cup {m} /\ Inside(nodes, i + 1) = Inside(nodes, m)
  BY <1>2, <1>10, <1>11, <1>12
<1>15. Closes(nodes, m, i)
  BY <1>2, <1>3, <1>8, <1>13, <1>14 DEF Closes
<1> QED BY <1>3, <1>15

-----------------------------------------------------------------------------
(* A list stays one when an element is added or its last one taken off.     *)
LEMMA ListGrows ==
    ASSUME NEW s, IsList(s), NEW x
    PROVE  /\ IsList(Append(s, x))
           /\ Len(s) \in Nat /\ DOMAIN s = 1..Len(s)
           /\ Len(Append(s, x)) = Len(s) + 1
           /\ DOMAIN Append(s, x) = 1..Len(s) + 1
           /\ \A k \in 1..Len(s) : Append(s, x)[k] = s[k]
           /\ Append(s, x)[Len(s) + 1] = x
           /\ Range(Append(s, x)) = Range(s) \cup {x}
<1> DEFINE T == Range(s) \cup {x}
<1>1. s \in Seq(Range(s)) /\ Range(s) \subseteq T /\ x \in T
  BY DEF IsList
<1>2. s \in Seq(T)
  <2> HIDE DEF T
  <2> QED BY <1>1
<1> HIDE DEF T
<1>3. Append(s, x) \in Seq(T) /\ Range(Append(s, x)) = Range(s) \cup {x}
  BY <1>1, <1>2, PushProperties
<1>4. IsList(Append(s, x))
  BY <1>3 DEF IsList, T
<1>5. /\ Len(Append(s, x)) = Len(s) + 1
      /\ \A k \in 1..Len(s) : Append(s, x)[k] = s[k]
      /\ Append(s, x)[Len(s) + 1] = x
  BY <1>1, <1>2, AppendProperties
<1>6. Len(s) \in Nat /\ DOMAIN s = 1..Len(s) /\ DOMAIN Append(s, x) = 1..Len(Append(s, x))
  BY <1>2, <1>3, LenProperties
<1> QED BY <1>3, <1>4, <1>5, <1>6

LEMMA ListShrinks ==
    ASSUME NEW s, IsList(s), s # <<>>
    PROVE  /\ IsList(Front(s))
           /\ Len(s) \in Nat \ {0} /\ DOMAIN s = 1..Len(s)
           /\ Len(Front(s)) = Len(s) - 1
           /\ DOMAIN Front(s) = 1..Len(s) - 1
           /\ \A k \in 1..Len(s) - 1 : Front(s)[k] = s[k]
           /\ Last(s) = s[Len(s)]
<1> DEFINE m == Len(s) - 1
<1>1. s \in Seq(Range(s))
  BY DEF IsList
<1>2. m \in Nat /\ Len(s) \in Nat \ {0} /\ DOMAIN s = 1..Len(s)
  BY <1>1, EmptySeq, LenProperties
<1>3. \A j \in 1..m : s[j] \in Range(s)
  BY <1>1, <1>2, ElementOfSeq
<1>4. Front(s) = SubSeq(s, 1, m) /\ Last(s) = s[Len(s)]
  BY DEF Front, Last
<1>5. Front(s) \in Seq(Range(s)) /\ Len(Front(s)) = m /\ \A k \in 1..m : Front(s)[k] = s[k]
  <2> HIDE DEF m
  <2>1. \A j \in 1..m : s[j] \in Range(s)
    BY <1>3
  <2>2. /\ SubSeq(s, 1, m) \in Seq(Range(s))
        /\ Len(SubSeq(s, 1, m)) = IF 1 <= m THEN m - 1 + 1 ELSE 0
        /\ \A j \in 1..m - 1 + 1 : SubSeq(s, 1, m)[j] = s[1 + j - 1]
    BY <1>2, <2>1, SubSeqProperties
  <2> QED BY <1>2, <1>4, <2>2
<1> HIDE DEF m
<1>6. Front(s) \in [1..m -> Range(s)] /\ DOMAIN Front(s) = 1..m
  BY <1>5, LenProperties
<1>7. IsList(Front(s))
  <2> DEFINE R == Range(Front(s))
  <2>1. R = {Front(s)[k] : k \in 1..m}
    BY <1>5, RangeEquality
  <2>2. \A k \in 1..m : Front(s)[k] \in R
    BY <2>1
  <2> HIDE DEF R
  <2>3. Front(s) \in [1..m -> R]
    BY <1>6, <2>2
  <2>4. Front(s) \in Seq(R)
    BY <1>2, <2>3, FunctionIsSeq
  <2> QED BY <2>4 DEF IsList, R
<1> QED BY <1>2, <1>4, <1>5, <1>6, <1>7 DEF m

-----------------------------------------------------------------------------
(* What is around a node, by the nodes alone. *)
Places(nodes) == [j \in DOMAIN nodes |-> j]
InsideOf(nodes, i, kinds) == {j \in Inside(nodes, i) : nodes[j].is \in kinds}
AroundIn(nodes, i, kinds) == SelectAt(Places(nodes), InsideOf(nodes, i, kinds))
NamesIn(nodes, i, kinds) ==
    [k \in DOMAIN AroundIn(nodes, i, kinds) |-> nodes[AroundIn(nodes, i, kinds)[k]].name]

LEMMA PlacesProperties ==
    ASSUME NEW nodes, IsList(nodes)
    PROVE  /\ Len(nodes) \in Nat /\ DOMAIN nodes = 1..Len(nodes)
           /\ Places(nodes) \in Seq(Nat) /\ Len(Places(nodes)) = Len(nodes)
           /\ \A j \in 1..Len(nodes) : Places(nodes)[j] = j
<1>1. Len(nodes) \in Nat /\ DOMAIN nodes = 1..Len(nodes)
  BY LenProperties DEF IsList
<1>2. Places(nodes) \in [1..Len(nodes) -> Nat]
        /\ \A j \in 1..Len(nodes) : Places(nodes)[j] = j
  BY <1>1 DEF Places
<1>3. Places(nodes) \in Seq(Nat) /\ Len(Places(nodes)) = Len(nodes)
  BY <1>1, <1>2, FunctionIsSeq
<1> QED BY <1>1, <1>2, <1>3

LEMMA AroundProperties ==
    ASSUME NEW nodes, IsList(nodes), NEW i \in 1..Len(nodes) + 1, NEW kinds
    PROVE  /\ AroundIn(nodes, i, kinds) \in Seq(Nat)
           /\ Range(AroundIn(nodes, i, kinds)) = InsideOf(nodes, i, kinds)
           /\ InsideOf(nodes, i, kinds) \in SUBSET (1..i - 1)
           /\ i \in Nat \ {0}
<1>1. /\ Len(nodes) \in Nat /\ Places(nodes) \in Seq(Nat) /\ Len(Places(nodes)) = Len(nodes)
      /\ \A j \in 1..Len(nodes) : Places(nodes)[j] = j
  BY PlacesProperties
<1>2. i \in Nat \ {0}
  BY <1>1
<1>3. InsideOf(nodes, i, kinds) \in SUBSET (1..i - 1)
  BY <1>2, InsideDef DEF InsideOf
<1> DEFINE I == InsideOf(nodes, i, kinds)
           P == Places(nodes)
<1>4. SelectAt(P, I) \in Seq(Nat) /\ Range(SelectAt(P, I)) = {P[j] : j \in I \cap 1..Len(P)}
  <2> HIDE DEF P, I
  <2> QED BY <1>1, SelectAtPlaces, SelectAtRange DEF P
<1>5. I \subseteq 1..Len(nodes)
  BY <1>1, <1>2, <1>3
<1>6. {P[j] : j \in I \cap 1..Len(P)} = I
  <2> HIDE DEF I
  <2> QED BY <1>1, <1>5
<1> QED BY <1>2, <1>3, <1>4, <1>6 DEF AroundIn

(* A definition that opens is the last of those around what follows. *)
Grows(nodes, i, from, m, kinds) ==
    AroundIn(nodes, i, kinds) = IF nodes[m].is \in kinds
                                THEN Append(AroundIn(nodes, from, kinds), m)
                                ELSE AroundIn(nodes, from, kinds)

LEMMA AroundOneMore ==
    ASSUME NEW nodes, IsList(nodes), NEW m \in 1..Len(nodes), NEW i, NEW kinds,
           Inside(nodes, i) = Inside(nodes, m) \cup {m}
    PROVE  Grows(nodes, i, m, m, kinds)
<1>1. /\ Len(nodes) \in Nat /\ Places(nodes) \in Seq(Nat) /\ Len(Places(nodes)) = Len(nodes)
      /\ \A j \in 1..Len(nodes) : Places(nodes)[j] = j
  BY PlacesProperties
<1>2. InsideOf(nodes, m, kinds) \in SUBSET (1..m - 1)
  <2>1. m \in 1..Len(nodes) + 1
    BY <1>1
  <2> QED BY <2>1, AroundProperties
<1>3. InsideOf(nodes, i, kinds) = IF nodes[m].is \in kinds THEN InsideOf(nodes, m, kinds) \cup {m}
                                  ELSE InsideOf(nodes, m, kinds)
  BY DEF InsideOf
<1>4. SelectsLast(Places(nodes), InsideOf(nodes, m, kinds), m)
  <2>1. m \in 1..Len(Places(nodes))
    BY <1>1
  <2> QED BY <1>1, <1>2, <2>1, SelectAtLast
<1>5. Places(nodes)[m] = m
  BY <1>1
<1>6. CASE nodes[m].is \in kinds
  BY <1>3, <1>4, <1>5, <1>6 DEF Grows, AroundIn, SelectsLast
<1>7. CASE nodes[m].is \notin kinds
  BY <1>3, <1>7 DEF Grows, AroundIn
<1> QED BY <1>6, <1>7

NamesGrow(nodes, i, from, m, kinds) ==
    NamesIn(nodes, i, kinds) = IF nodes[m].is \in kinds
                               THEN Append(NamesIn(nodes, from, kinds), nodes[m].name)
                               ELSE NamesIn(nodes, from, kinds)

(* Definitions have names. *)
NamesThem(nodes, kinds) == \A j \in DOMAIN nodes : nodes[j].is \in kinds => nodes[j].name \in STRING

LEMMA NamesTyped ==
    ASSUME NEW nodes, IsList(nodes), NEW kinds, NamesThem(nodes, kinds),
           NEW i \in 1..Len(nodes) + 1
    PROVE  /\ NamesIn(nodes, i, kinds) \in Seq(STRING)
           /\ Len(NamesIn(nodes, i, kinds)) = Len(AroundIn(nodes, i, kinds))
           /\ \A k \in 1..Len(AroundIn(nodes, i, kinds)) :
                  NamesIn(nodes, i, kinds)[k] = nodes[AroundIn(nodes, i, kinds)[k]].name
<1> DEFINE a == AroundIn(nodes, i, kinds)
           b == NamesIn(nodes, i, kinds)
<1>1. /\ a \in Seq(Nat) /\ Range(a) = InsideOf(nodes, i, kinds)
      /\ InsideOf(nodes, i, kinds) \in SUBSET (1..i - 1)
  BY AroundProperties
<1>2. Len(nodes) \in Nat /\ DOMAIN nodes = 1..Len(nodes)
  BY PlacesProperties
<1>3. b = [k \in DOMAIN a |-> nodes[a[k]].name]
  BY DEF NamesIn
<1> HIDE DEF a, b
<1>4. Len(a) \in Nat /\ DOMAIN a = 1..Len(a) /\ Range(a) = {a[k] : k \in 1..Len(a)}
  BY <1>1, LenProperties, RangeEquality
<1>5. ASSUME NEW k \in 1..Len(a) PROVE nodes[a[k]].name \in STRING
  <2>1. a[k] \in InsideOf(nodes, i, kinds)
    BY <1>1, <1>4
  <2>2. a[k] \in DOMAIN nodes /\ nodes[a[k]].is \in kinds
    BY <1>1, <1>2, <2>1 DEF InsideOf
  <2> QED BY <2>2 DEF NamesThem
<1>6. b \in [1..Len(a) -> STRING] /\ \A k \in 1..Len(a) : b[k] = nodes[a[k]].name
  BY <1>3, <1>4, <1>5
<1>7. b \in Seq(STRING) /\ Len(b) = Len(a)
  BY <1>4, <1>6, FunctionIsSeq
<1> QED BY <1>6, <1>7 DEF a, b

LEMMA NamesOneMore ==
    ASSUME NEW nodes, IsList(nodes), NEW kinds, NamesThem(nodes, kinds),
           NEW m \in 1..Len(nodes), NEW i \in 1..Len(nodes) + 1,
           Inside(nodes, i) = Inside(nodes, m) \cup {m}
    PROVE  NamesGrow(nodes, i, m, m, kinds)
<1> DEFINE a == AroundIn(nodes, m, kinds)
           b == NamesIn(nodes, m, kinds)
           c == AroundIn(nodes, i, kinds)
           d == NamesIn(nodes, i, kinds)
           x == nodes[m].name
<1>1. Grows(nodes, i, m, m, kinds)
  BY AroundOneMore
<1>2. Len(nodes) \in Nat /\ DOMAIN nodes = 1..Len(nodes) /\ m \in 1..Len(nodes) + 1
  BY PlacesProperties
<1>3. /\ a \in Seq(Nat) /\ b \in Seq(STRING) /\ Len(b) = Len(a)
      /\ \A k \in 1..Len(a) : b[k] = nodes[a[k]].name
  BY <1>2, AroundProperties, NamesTyped
<1>4. /\ d \in Seq(STRING) /\ Len(d) = Len(c)
      /\ \A k \in 1..Len(c) : d[k] = nodes[c[k]].name
  BY NamesTyped
<1>5. CASE nodes[m].is \in kinds
  <2>1. c = Append(a, m) /\ x \in STRING /\ m \in Nat
    BY <1>1, <1>2, <1>5 DEF Grows, NamesThem
  <2> HIDE DEF a, b, c, d, x
  <2>2. /\ Len(c) = Len(a) + 1 /\ Len(a) \in Nat /\ c[Len(a) + 1] = m
        /\ \A k \in 1..Len(a) : c[k] = a[k]
    BY <1>3, <2>1, AppendProperties, LenProperties
  <2>3. /\ Append(b, x) \in Seq(STRING) /\ Len(Append(b, x)) = Len(a) + 1
        /\ Append(b, x)[Len(a) + 1] = x
        /\ \A k \in 1..Len(a) : Append(b, x)[k] = b[k]
    BY <1>3, <2>1, AppendProperties
  <2>4. d[Len(a) + 1] = x
    BY <1>4, <2>2 DEF x
  <2>5. ASSUME NEW k \in 1..Len(a) PROVE d[k] = b[k]
    <3>1. k \in 1..Len(c) /\ c[k] = a[k]
      BY <2>2
    <3>2. d[k] = nodes[a[k]].name
      BY <1>4, <3>1
    <3> QED BY <1>3, <3>2
  <2>6. \A k \in 1..Len(a) + 1 : d[k] = Append(b, x)[k]
    BY <2>2, <2>3, <2>4, <2>5
  <2>7. d = Append(b, x)
    BY <1>4, <2>2, <2>3, <2>6, SeqEqual
  <2> QED BY <1>5, <2>7 DEF NamesGrow, b, d, x
<1>6. CASE nodes[m].is \notin kinds
  <2>1. c = a
    BY <1>1, <1>6 DEF Grows
  <2>2. d = b
    BY <2>1 DEF NamesIn
  <2> QED BY <1>6, <2>2 DEF NamesGrow
<1> QED BY <1>5, <1>6

(* The innermost function around, 0 when there is none. *)
FuncIn(nodes, i) ==
    IF InsideOf(nodes, i, {"func"}) = {} THEN 0 ELSE Max(InsideOf(nodes, i, {"func"}))

LEMMA FuncInOneMore ==
    ASSUME NEW nodes, IsList(nodes), NEW m \in 1..Len(nodes), NEW i,
           Inside(nodes, i) = Inside(nodes, m) \cup {m}
    PROVE  FuncIn(nodes, i) = IF nodes[m].is = "func" THEN m ELSE FuncIn(nodes, m)
<1> DEFINE F == InsideOf(nodes, m, {"func"})
           G == InsideOf(nodes, i, {"func"})
<1>1. m \in Nat \ {0} /\ F \in SUBSET (1..m - 1)
  <2>1. m \in 1..Len(nodes) + 1
    BY PlacesProperties
  <2> QED BY <2>1, AroundProperties
<1>2. G = IF nodes[m].is = "func" THEN F \cup {m} ELSE F
  BY DEF InsideOf
<1>3. FuncIn(nodes, i) = (IF G = {} THEN 0 ELSE Max(G))
        /\ FuncIn(nodes, m) = IF F = {} THEN 0 ELSE Max(F)
  BY DEF FuncIn
<1> HIDE DEF F, G
<1>4. CASE nodes[m].is = "func"
  <2>1. m \in G /\ G \in SUBSET (0..m) /\ m \in Nat
    BY <1>1, <1>2, <1>4
  <2>2. Max(G) \in G /\ \A y \in G : y <= Max(G)
    BY <2>1, MaxIsAmong
  <2>3. Max(G) = m
    <3>1. m <= Max(G) /\ Max(G) \in 0..m
      BY <2>1, <2>2
    <3> QED BY <2>1, <3>1
  <2> QED BY <1>3, <1>4, <2>1, <2>3
<1>5. CASE nodes[m].is # "func"
  BY <1>2, <1>3, <1>5
<1> QED BY <1>4, <1>5

LEMMA FuncInPlace ==
    ASSUME NEW nodes, IsList(nodes), NEW i \in 1..Len(nodes) + 1
    PROVE  /\ FuncIn(nodes, i) = 0 \/ (/\ FuncIn(nodes, i) \in 1..i - 1
                                       /\ FuncIn(nodes, i) \in InsideOf(nodes, i, {"func"})
                                       /\ nodes[FuncIn(nodes, i)].is = "func")
           /\ FuncIn(nodes, i) = 0 <=> InsideOf(nodes, i, {"func"}) = {}
<1> DEFINE F == InsideOf(nodes, i, {"func"})
<1>1. i \in Nat /\ F \in SUBSET (1..i - 1) /\ F \in SUBSET (0..i)
  BY AroundProperties
<1>2. FuncIn(nodes, i) = IF F = {} THEN 0 ELSE Max(F)
  BY DEF FuncIn
<1>3. \A j \in F : nodes[j].is = "func"
  BY DEF InsideOf
<1> HIDE DEF F
<1>4. F # {} => Max(F) \in F
  BY <1>1, MaxIsAmong
<1> QED BY <1>1, <1>2, <1>3, <1>4 DEF F

-----------------------------------------------------------------------------
(* What the program alone says: the package of a file, the names a function *)
(* is nested in, and the names by which it is registered.                   *)
NodesIn(p, f) == p.files[f].nodes

ScopeKinds(lang) == IF lang \in {"python", "typescript"} THEN {"class", "func"}
                    ELSE IF lang = "java" THEN {"class"} ELSE {}
ScopeIn(p, f, i) == NamesIn(NodesIn(p, f), i, ScopeKinds(p.lang))

PackagesIn(nodes) == {i \in DOMAIN nodes : nodes[i].is = "package"}
PackageIn(p, f) == IF PackagesIn(NodesIn(p, f)) = {} THEN <<>>
                   ELSE NodesIn(p, f)[Max(PackagesIn(NodesIn(p, f)))].path

GoPackageIn(p, f) ==
    LET modulePath == Go!findGoModulePath(p.goMods)
    IN  IF modulePath # <<>> THEN <<modulePath \o Front(p.files[f].path)>>
        ELSE Go!Segments(Front(p.files[f].path))

ModuleIn(p, f) ==
    IF p.lang = "python" THEN Py!pythonModuleFQN(p.files[f].path)
    ELSE IF p.lang = "typescript" THEN TS!tsModuleFQN(p.files[f].path)
    ELSE IF p.lang = "java" THEN PackageIn(p, f)
    ELSE GoPackageIn(p, f)

OwnNameIn(p, f, i) ==
    IF p.lang = "go" THEN Go!OwnName(NodesIn(p, f)[i])
    ELSE Append(ScopeIn(p, f, i), NodesIn(p, f)[i].name)

NameIn(p, f, i) == ModuleIn(p, f) \o OwnNameIn(p, f, i)

CurIn(p, f, i) == IF FuncIn(NodesIn(p, f), i) = 0 THEN <<>>
                  ELSE NameIn(p, f, FuncIn(NodesIn(p, f), i))

Languages == {"python", "java", "typescript", "go"}
IsFunc(p, f, i) == f \in DOMAIN p.files /\ i \in DOMAIN NodesIn(p, f) /\ NodesIn(p, f)[i].is = "func"

(* The extractors use the same operators as the properties. *)
LEMMA SamePy ==
    /\ \A s, places : Py!SelectAt(s, places) = SelectAt(s, places)
    /\ \A nodes, i : Py!Inside(nodes, i) = Inside(nodes, i)
    /\ \A s : Py!Front(s) = Front(s) /\ Py!Last(s) = Last(s)
    /\ \A S : Py!Max(S) = Max(S)
    /\ \A map, name, value : Py!Bind(map, name, value) = Bind(map, name, value)
<1>1. \A S : Py!Cardinality(S) = Cardinality(S)
  BY Zenon DEF Py!Cardinality, Cardinality
<1>2. \A nodes, i, j, kinds : Py!Count(nodes, i, j, kinds) = Count(nodes, i, j, kinds)
  BY <1>1, Zenon DEF Py!Count, Count
<1>3. \A nodes, i : Py!Inside(nodes, i) = Inside(nodes, i)
  BY <1>2, Zenon DEF Py!Inside, Inside, Py!Opens, Opens
<1>4. \A s, places : Py!SelectAt(s, places) = SelectAt(s, places)
  BY Zenon DEF Py!SelectAt, SelectAt
<1>5. \A s : Py!Front(s) = Front(s) /\ Py!Last(s) = Last(s)
  BY Zenon DEF Py!Front, Front, Py!Last, Last
<1>6. \A S : Py!Max(S) = Max(S)
  BY Zenon DEF Py!Max, Max
<1>7. \A map, name, value : Py!Bind(map, name, value) = Bind(map, name, value)
  BY Zenon DEF Py!Bind, Bind
<1> QED BY <1>3, <1>4, <1>5, <1>6, <1>7, Zenon

LEMMA SameJava ==
    /\ \A s, places : Java!SelectAt(s, places) = SelectAt(s, places)
    /\ \A nodes, i : Java!Inside(nodes, i) = Inside(nodes, i)
    /\ \A s : Java!Front(s) = Front(s) /\ Java!Last(s) = Last(s)
    /\ \A S : Java!Max(S) = Max(S)
    /\ \A map, name, value : Java!Bind(map, name, value) = Bind(map, name, value)
<1>1. \A S : Java!Cardinality(S) = Cardinality(S)
  BY Zenon DEF Java!Cardinality, Cardinality
<1>2. \A nodes, i, j, kinds : Java!Count(nodes, i, j, kinds) = Count(nodes, i, j, kinds)
  BY <1>1, Zenon DEF Java!Count, Count
<1>3. \A nodes, i : Java!Inside(nodes, i) = Inside(nodes, i)
  BY <1>2, Zenon DEF Java!Inside, Inside, Java!Opens, Opens
<1>4. \A s, places : Java!SelectAt(s, places) = SelectAt(s, places)
  BY Zenon DEF Java!SelectAt, SelectAt
<1>5. \A s : Java!Front(s) = Front(s) /\ Java!Last(s) = Last(s)
  BY Zenon DEF Java!Front, Front, Java!Last, Last
<1>6. \A S : Java!Max(S) = Max(S)
  BY Zenon DEF Java!Max, Max
<1>7. \A map, name, value : Java!Bind(map, name, value) = Bind(map, name, value)
  BY Zenon DEF Java!Bind, Bind
<1> QED BY <1>3, <1>4, <1>5, <1>6, <1>7, Zenon

LEMMA SameTS ==
    /\ \A s, places : TS!SelectAt(s, places) = SelectAt(s, places)
    /\ \A nodes, i : TS!Inside(nodes, i) = Inside(nodes, i)
    /\ \A s : TS!Front(s) = Front(s) /\ TS!Last(s) = Last(s)
    /\ \A s : TS!FlattenSeq(s) = FlattenSeq(s)
    /\ \A S : TS!Max(S) = Max(S)
    /\ \A map, name, value : TS!Bind(map, name, value) = Bind(map, name, value)
<1>1. \A S : TS!Cardinality(S) = Cardinality(S)
  BY Zenon DEF TS!Cardinality, Cardinality
<1>2. \A nodes, i, j, kinds : TS!Count(nodes, i, j, kinds) = Count(nodes, i, j, kinds)
  BY <1>1, Zenon DEF TS!Count, Count
<1>3. \A nodes, i : TS!Inside(nodes, i) = Inside(nodes, i)
  BY <1>2, Zenon DEF TS!Inside, Inside, TS!Opens, Opens
<1>4. \A s, places : TS!SelectAt(s, places) = SelectAt(s, places)
  BY Zenon DEF TS!SelectAt, SelectAt
<1>5. \A s : TS!Front(s) = Front(s) /\ TS!Last(s) = Last(s)
  BY Zenon DEF TS!Front, Front, TS!Last, Last
<1>6. \A S : TS!Max(S) = Max(S)
  BY Zenon DEF TS!Max, Max
<1>7. \A map, name, value : TS!Bind(map, name, value) = Bind(map, name, value)
  BY Zenon DEF TS!Bind, Bind
<1>8. \A s : TS!FlattenSeq(s) = FlattenSeq(s)
  BY Zenon DEF TS!FlattenSeq, FlattenSeq
<1> QED BY <1>3, <1>4, <1>5, <1>6, <1>7, <1>8, Zenon

LEMMA SameGo ==
    /\ \A s : Go!Front(s) = Front(s) /\ Go!Last(s) = Last(s)
    /\ \A S : Go!Min(S) = Min(S) /\ Go!SetToSeq(S) = SetToSeq(S)
    /\ \A map, name, value : Go!Bind(map, name, value) = Bind(map, name, value)
<1>1. \A S : Go!Cardinality(S) = Cardinality(S)
  BY Zenon DEF Go!Cardinality, Cardinality
<1>2. \A f : Go!IsInjective(f) <=> IsInjective(f)
  BY Zenon DEF Go!IsInjective, IsInjective
<1>3. \A S : Go!SetToSeq(S) = SetToSeq(S)
  BY <1>1, <1>2, Zenon DEF Go!SetToSeq, SetToSeq
<1>4. \A S : Go!Min(S) = Min(S)
  BY Zenon DEF Go!Min, Min
<1>5. \A s : Go!Front(s) = Front(s) /\ Go!Last(s) = Last(s)
  BY Zenon DEF Go!Front, Front, Go!Last, Last
<1>6. \A map, name, value : Go!Bind(map, name, value) = Bind(map, name, value)
  BY Zenon DEF Go!Bind, Bind
<1> QED BY <1>3, <1>4, <1>5, <1>6, Zenon

(* These are the names the properties speak of. *)
NamedAs(f, i) == NameOf(f, i) = NameIn(program, f, i)

LEMMA NameOfIn ==
    ASSUME NEW f, NEW i, program.lang \in Languages
    PROVE  NamedAs(f, i)
<1>1. CASE program.lang = "python"
  <2>1. NameOf(f, i) = Py!NameOf(f, i)
    BY <1>1 DEF NameOf
  <2>2. Py!AroundOf(f, i, {"class", "func"}) = AroundIn(program.files[f].nodes, i, {"class", "func"})
    BY SamePy, Zenon DEF Py!AroundOf, Py!Nodes, AroundIn, Places, InsideOf
  <2>3. Py!NameOf(f, i) = Py!pythonModuleFQN(program.files[f].path)
            \o Append(NamesIn(program.files[f].nodes, i, {"class", "func"}),
                      program.files[f].nodes[i].name)
    BY <2>2, Zenon DEF Py!NameOf, Py!NamesAround, Py!Nodes, NamesIn
  <2> QED BY <1>1, <2>1, <2>3
      DEF NamedAs, NameIn, ModuleIn, OwnNameIn, ScopeIn, ScopeKinds, NodesIn
<1>2. CASE program.lang = "typescript"
  <2>1. NameOf(f, i) = TS!NameOf(f, i)
    BY <1>2 DEF NameOf
  <2>2. TS!AroundOf(f, i, {"class", "func"}) = AroundIn(program.files[f].nodes, i, {"class", "func"})
    BY SameTS, Zenon DEF TS!AroundOf, TS!Nodes, AroundIn, Places, InsideOf
  <2>3. TS!NameOf(f, i) = TS!tsModuleFQN(program.files[f].path)
            \o Append(NamesIn(program.files[f].nodes, i, {"class", "func"}),
                      program.files[f].nodes[i].name)
    BY <2>2, Zenon DEF TS!NameOf, TS!NamesAround, TS!Nodes, NamesIn
  <2> QED BY <1>2, <2>1, <2>3
      DEF NamedAs, NameIn, ModuleIn, OwnNameIn, ScopeIn, ScopeKinds, NodesIn
<1>3. CASE program.lang = "java"
  <2>1. NameOf(f, i) = Java!NameOf(f, i)
    BY <1>3 DEF NameOf
  <2>2. Java!AroundOf(f, i, {"class"}) = AroundIn(program.files[f].nodes, i, {"class"})
    BY SameJava, Zenon DEF Java!AroundOf, Java!Nodes, AroundIn, Places, InsideOf
  <2>3. Java!PackageOf(f) = PackageIn(program, f)
    BY SameJava, Zenon DEF Java!PackageOf, Java!Nodes, PackageIn, PackagesIn, NodesIn
  <2>4. Java!NameOf(f, i) = PackageIn(program, f)
            \o Append(NamesIn(program.files[f].nodes, i, {"class"}),
                      program.files[f].nodes[i].name)
    BY <2>2, <2>3, Zenon DEF Java!NameOf, Java!NamesAround, Java!Nodes, NamesIn
  <2> QED BY <1>3, <2>1, <2>4
      DEF NamedAs, NameIn, ModuleIn, OwnNameIn, ScopeIn, ScopeKinds, NodesIn
<1>4. CASE program.lang = "go"
  <2>1. NameOf(f, i) = Go!NameOf(f, i)
    BY <1>4 DEF NameOf
  <2>2. Go!NameOf(f, i) = GoPackageIn(program, f) \o Go!OwnName(program.files[f].nodes[i])
    BY SameGo, Zenon DEF Go!NameOf, Go!goModuleFQN, Go!Nodes, GoPackageIn
  <2> QED BY <1>4, <2>1, <2>2 DEF NamedAs, NameIn, ModuleIn, OwnNameIn, NodesIn
<1> QED BY <1>1, <1>2, <1>3, <1>4 DEF Languages

(* What the parsers hand over. *)
GoodProgram(p) == IsProgram(p) /\ p.lang \in Languages

LEMMA ProgramFiles ==
    ASSUME NEW p, GoodProgram(p)
    PROVE  /\ Len(p.files) \in Nat \ {0} /\ DOMAIN p.files = 1..Len(p.files)
           /\ \A f \in DOMAIN p.files :
                  /\ p.lang = "typescript" => p.files[f].path \in Seq(Seq(STRING))
                  /\ p.lang # "typescript" => p.files[f].path \in Seq(STRING)
                  /\ p.files[f].path # <<>>
                  /\ IsList(NodesIn(p, f))
                  /\ IsText(p.lang, NodesIn(p, f))
<1>1. p.files \in Seq(Range(p.files)) /\ p.files # <<>>
  BY DEF GoodProgram, IsProgram, IsList
<1>2. Len(p.files) \in Nat \ {0} /\ DOMAIN p.files = 1..Len(p.files)
  BY <1>1, EmptySeq, LenProperties
<1>3. \A f \in DOMAIN p.files :
        /\ p.lang = "typescript" => p.files[f].path \in Seq(Seq(STRING))
        /\ p.lang # "typescript" => p.files[f].path \in Seq(STRING)
        /\ p.files[f].path # <<>>
        /\ IsText(p.lang, NodesIn(p, f))
  BY DEF GoodProgram, IsProgram, NodesIn
<1> QED BY <1>2, <1>3 DEF IsText

LEMMA ScopeNames ==
    ASSUME NEW p, GoodProgram(p), NEW f \in DOMAIN p.files
    PROVE  /\ NamesThem(NodesIn(p, f), {"class", "func"})
           /\ NamesThem(NodesIn(p, f), ScopeKinds(p.lang))
<1>1. IsText(p.lang, NodesIn(p, f))
  BY ProgramFiles
<1>2. NamesThem(NodesIn(p, f), {"class", "func"})
  BY <1>1 DEF IsText, NamesThem
<1>3. ScopeKinds(p.lang) \subseteq {"class", "func"}
  BY DEF ScopeKinds
<1> QED BY <1>2, <1>3 DEF NamesThem

LEMMA FrontTyped ==
    ASSUME NEW S, NEW s \in Seq(S), s # <<>>
    PROVE  Front(s) \in Seq(S)
BY PopProperties DEF Front

LEMMA PackageTyped ==
    ASSUME NEW p, GoodProgram(p), NEW f \in DOMAIN p.files, p.lang = "java"
    PROVE  PackageIn(p, f) \in Seq(STRING)
<1> DEFINE nodes == NodesIn(p, f)
           P == PackagesIn(nodes)
<1>1. IsList(nodes) /\ IsText("java", nodes)
  BY ProgramFiles
<1>2. Len(nodes) \in Nat /\ DOMAIN nodes = 1..Len(nodes)
  BY <1>1, PlacesProperties
<1>3. P \in SUBSET (0..Len(nodes)) /\ \A i \in P : i \in DOMAIN nodes /\ nodes[i].is = "package"
  BY <1>2 DEF PackagesIn
<1>4. \A i \in P : nodes[i].path \in Seq(STRING)
  BY <1>1, <1>3 DEF IsText
<1>5. PackageIn(p, f) = IF P = {} THEN <<>> ELSE nodes[Max(P)].path
  BY DEF PackageIn
<1> HIDE DEF P
<1>6. P # {} => Max(P) \in P
  BY <1>2, <1>3, MaxIsAmong
<1> QED BY <1>4, <1>5, <1>6, EmptySeq

LEMMA TSModuleTyped ==
    ASSUME NEW path \in Seq(Seq(STRING)), path # <<>>
    PROVE  TS!tsModuleFQN(path) \in Seq(STRING)
<1> DEFINE named == IF Len(path) > 1 /\ Last(path) = <<"index">> THEN Front(path) ELSE path
<1>1. named \in Seq(Seq(STRING))
  BY FrontTyped
<1>2. TS!tsModuleFQN(path) = FlattenSeq(named)
  BY SameTS, Zenon DEF TS!tsModuleFQN
<1> HIDE DEF named
<1>3. FlattenSeq(named) \in Seq(STRING)
  BY <1>1, FlattenProperties
<1> QED BY <1>2, <1>3

LEMMA SegmentsTyped ==
    ASSUME NEW names \in Seq(STRING)
    PROVE  /\ Go!Segments(names) \in Seq(Seq(STRING))
           /\ Len(Go!Segments(names)) = Len(names)
<1>1. Len(names) \in Nat /\ DOMAIN names = 1..Len(names) /\ \A i \in 1..Len(names) : names[i] \in STRING
  BY LenProperties, ElementOfSeq
<1>2. \A i \in 1..Len(names) : <<names[i]>> \in Seq(STRING)
  BY <1>1
<1>3. Go!Segments(names) \in [1..Len(names) -> Seq(STRING)]
  BY <1>1, <1>2 DEF Go!Segments
<1> QED BY <1>1, <1>3, FunctionIsSeq

LEMMA GoModuleTyped ==
    ASSUME NEW mods \in Seq(Seq(STRING))
    PROVE  Go!findGoModulePath(mods) \in Seq(STRING)
<1> DEFINE D == {i \in DOMAIN mods : mods[i] # <<>>}
<1>1. Len(mods) \in Nat /\ DOMAIN mods = 1..Len(mods)
        /\ \A i \in 1..Len(mods) : mods[i] \in Seq(STRING)
  BY LenProperties, ElementOfSeq
<1>2. D \in SUBSET Nat /\ \A i \in D : mods[i] \in Seq(STRING)
  BY <1>1
<1>3. Go!findGoModulePath(mods) = IF D = {} THEN <<>> ELSE mods[Min(D)]
  BY SameGo, Zenon DEF Go!findGoModulePath
<1> HIDE DEF D
<1>4. ASSUME D # {} PROVE Min(D) \in D
  <2>1. \E m \in D : \A k \in D : m <= k
    BY <1>2, <1>4, LeastNatural
  <2> QED BY <2>1 DEF Min
<1> QED BY <1>2, <1>3, <1>4, EmptySeq

LEMMA GoPackageTyped ==
    ASSUME NEW p, GoodProgram(p), NEW f \in DOMAIN p.files, p.lang = "go"
    PROVE  GoPackageIn(p, f) \in Seq(Seq(STRING))
<1> DEFINE modulePath == Go!findGoModulePath(p.goMods)
           dir == Front(p.files[f].path)
<1>1. dir \in Seq(STRING)
  BY ProgramFiles, FrontTyped
<1>2. modulePath \in Seq(STRING)
  BY GoModuleTyped DEF GoodProgram, IsProgram
<1>3. GoPackageIn(p, f) = IF modulePath # <<>> THEN <<modulePath \o dir>> ELSE Go!Segments(dir)
  BY DEF GoPackageIn
<1> HIDE DEF modulePath, dir
<1>4. modulePath \o dir \in Seq(STRING)
  BY <1>1, <1>2, ConcatProperties
<1>5. <<modulePath \o dir>> \in Seq(Seq(STRING))
  BY <1>4
<1>6. Go!Segments(dir) \in Seq(Seq(STRING))
  BY <1>1, SegmentsTyped
<1> QED BY <1>3, <1>5, <1>6

LEMMA OneToSeq ==
    ASSUME NEW S, NEW T \in SUBSET S, \A x, y \in T : x = y
    PROVE  SetToSeq(T) \in Seq(S)
<1>1. CASE T = {}
  <2>1. Cardinality(T) = 0 /\ Cardinality(T) \in Nat
    BY <1>1, FS_EmptySet
  <2> DEFINE e == [i \in 1..0 |-> 0]
  <2>2. e \in [1..Cardinality(T) -> T] /\ IsInjective(e)
    BY <2>1 DEF IsInjective
  <2> HIDE DEF e
  <2>3. SetToSeq(T) \in [1..Cardinality(T) -> T]
    BY <2>2, Zenon DEF SetToSeq
  <2> QED BY <2>1, <2>3, FunctionIsSeq
<1>2. CASE T # {}
  <2>1. PICK x \in T : T = {x}
    BY <1>2
  <2>2. Cardinality(T) = 1 /\ Cardinality(T) \in Nat
    <3>1. Cardinality({x}) = 1
      BY FS_Singleton, Zenon
    <3> QED BY <2>1, <3>1
  <2> DEFINE e == [i \in 1..1 |-> x]
  <2>3. e \in [1..Cardinality(T) -> T] /\ IsInjective(e)
    BY <2>1, <2>2 DEF IsInjective
  <2> HIDE DEF e
  <2>4. SetToSeq(T) \in [1..Cardinality(T) -> T]
    BY <2>3, Zenon DEF SetToSeq
  <2>5. SetToSeq(T) \in [1..1 -> S]
    BY <2>2, <2>4
  <2> QED BY <2>5, FunctionIsSeq
<1> QED BY <1>1, <1>2

LEMMA GoNameTyped ==
    ASSUME NEW p, GoodProgram(p), NEW f, NEW i, IsFunc(p, f, i), p.lang = "go"
    PROVE  Go!OwnName(NodesIn(p, f)[i]) \in Seq(Seq(STRING)) \ {<<>>}
<1> DEFINE node == NodesIn(p, f)[i]
           types == {r.type : r \in node.recv}
           names == Append(SetToSeq(types), node.name)
<1>1. f \in DOMAIN p.files /\ i \in DOMAIN NodesIn(p, f) /\ node.is = "func"
  BY DEF IsFunc
<1>2. IsText("go", NodesIn(p, f))
  BY <1>1, ProgramFiles
<1>3. node.name \in STRING /\ \A r, s \in node.recv : r = s /\ r.type \in STRING
  BY <1>1, <1>2 DEF IsText
<1>4. types \in SUBSET STRING /\ \A x, y \in types : x = y
  <2> HIDE DEF node
  <2> QED BY <1>3
<1>5. Go!OwnName(node) = Go!Segments(names)
  BY SameGo, Zenon DEF Go!OwnName
<1> HIDE DEF types, node
<1>6. SetToSeq(types) \in Seq(STRING)
  BY <1>4, OneToSeq
<1>7. names \in Seq(STRING) /\ Len(names) = Len(SetToSeq(types)) + 1 /\ Len(SetToSeq(types)) \in Nat
  BY <1>3, <1>6, AppendProperties, LenProperties
<1> HIDE DEF names
<1>8. Go!Segments(names) \in Seq(Seq(STRING)) /\ Len(Go!Segments(names)) = Len(names)
  BY <1>7, SegmentsTyped
<1>9. Go!Segments(names) # <<>>
  BY <1>7, <1>8, EmptySeq
<1> QED BY <1>5, <1>8, <1>9 DEF node

(* A function's name is never empty, which is what none stands for. *)
LEMMA NameNotEmpty ==
    ASSUME NEW p, GoodProgram(p), NEW f, NEW i, IsFunc(p, f, i)
    PROVE  NameIn(p, f, i) # <<>>
<1> DEFINE m == ModuleIn(p, f)
           own == OwnNameIn(p, f, i)
<1>1. f \in DOMAIN p.files /\ i \in DOMAIN NodesIn(p, f) /\ NodesIn(p, f)[i].is = "func"
  BY DEF IsFunc
<1>2. ASSUME NEW S, m \in Seq(S), own \in Seq(S), own # <<>> PROVE m \o own # <<>>
  <2> HIDE DEF m, own
  <2>1. Len(m) \in Nat /\ Len(own) \in Nat /\ Len(own) # 0
    BY <1>2, EmptySeq, LenProperties
  <2>2. Len(m \o own) = Len(m) + Len(own)
    BY <1>2, ConcatProperties
  <2>3. Len(<<>>) = 0
    BY EmptySeq
  <2> QED BY <2>1, <2>2, <2>3
<1>3. CASE p.lang = "go"
  <2>1. m \in Seq(Seq(STRING))
    BY <1>1, <1>3, GoPackageTyped DEF ModuleIn
  <2>2. own \in Seq(Seq(STRING)) /\ own # <<>>
    BY <1>3, GoNameTyped DEF OwnNameIn
  <2> HIDE DEF m, own
  <2>3. m \o own # <<>>
    BY <1>2, <2>1, <2>2
  <2> QED BY <2>3 DEF NameIn, m, own
<1>4. CASE p.lang # "go"
  <2>1. m \in Seq(STRING)
    <3>1. p.files[f].path # <<>>
      BY <1>1, ProgramFiles
    <3>3. ASSUME p.lang = "python" PROVE Py!pythonModuleFQN(p.files[f].path) \in Seq(STRING)
      <4>1. p.files[f].path \in Seq(STRING)
        BY <1>1, <3>3, ProgramFiles
      <4>2. Front(p.files[f].path) \in Seq(STRING)
        BY <3>1, <4>1, FrontTyped
      <4> QED BY <4>1, <4>2, SamePy DEF Py!pythonModuleFQN
    <3>4. ASSUME p.lang = "typescript" PROVE TS!tsModuleFQN(p.files[f].path) \in Seq(STRING)
      <4>1. p.files[f].path \in Seq(Seq(STRING))
        BY <1>1, <3>4, ProgramFiles
      <4> QED BY <3>1, <4>1, TSModuleTyped
    <3>5. p.lang = "java" => PackageIn(p, f) \in Seq(STRING)
      BY <1>1, PackageTyped
    <3>6. p.lang \in Languages
      BY DEF GoodProgram
    <3> QED BY <1>4, <3>3, <3>4, <3>5, <3>6 DEF ModuleIn, Languages
  <2>2. own = Append(ScopeIn(p, f, i), NodesIn(p, f)[i].name)
    BY <1>4 DEF OwnNameIn
  <2>3. NodesIn(p, f)[i].name \in STRING
    BY <1>1, ScopeNames DEF NamesThem
  <2>4. ScopeIn(p, f, i) \in Seq(STRING)
    <3>1. IsList(NodesIn(p, f)) /\ NamesThem(NodesIn(p, f), ScopeKinds(p.lang))
      BY <1>1, ProgramFiles, ScopeNames
    <3>2. i \in 1..Len(NodesIn(p, f)) + 1
      BY <1>1, <3>1, PlacesProperties
    <3> QED BY <3>1, <3>2, NamesTyped DEF ScopeIn
  <2>5. own \in Seq(STRING) /\ own # <<>>
    BY <2>2, <2>3, <2>4, AppendProperties
  <2> HIDE DEF m, own
  <2>6. m \o own # <<>>
    BY <1>2, <2>1, <2>5
  <2> QED BY <2>6 DEF NameIn, m, own
<1> QED BY <1>3, <1>4

-----------------------------------------------------------------------------
(* The inductive invariant. *)
PlaceInv ==
    /\ program \in Programs /\ program.lang \in Languages
    /\ phase \in {"discover", "walk", "done"}
    /\ phase = "discover" => program.lang = "go"
    /\ file \in DOMAIN program.files
    /\ at \in 1..Len(NodesIn(program, file)) + 1

(* The frames are those of the definitions around, outermost first; each    *)
(* holds the names and the function around its own definition.              *)
Saves(p, f, m, k, frame) ==
    /\ frame.is = NodesIn(p, f)[m].is
    /\ frame.scope = ScopeIn(p, f, m)
    /\ frame.curFunc = CurIn(p, f, m)
    /\ Len(frame.scope) <= k - 1

Mirrors(p, f, i, saved) ==
    LET around == AroundIn(NodesIn(p, f), i, Opens)
    IN  /\ IsList(saved)
        /\ Len(saved) = Len(around)
        /\ \A k \in 1..Len(around) : Saves(p, f, around[k], k, saved[k])

(* While walking, the extractor knows the names and the function around.    *)
FramesInv ==
    /\ phase = "walk" => /\ Mirrors(program, file, at, frames)
                         /\ scope = ScopeIn(program, file, at)
                         /\ curFunc = CurIn(program, file, at)
    /\ phase # "walk" => frames = <<>> /\ scope = <<>> /\ curFunc = <<>>
    /\ Len(scope) <= Len(frames)

(* Outside all functions no variable has a type. *)
NoneTyped(saved) ==
    \A k \in DOMAIN saved : saved[k].curFunc = <<>> => saved[k].localTypes = Empty

TypesInv ==
    /\ NoneTyped(frames)
    /\ curFunc = <<>> => localTypes = Empty
    /\ program.lang = "python" => localTypes = Empty

(* A package declaration counts from where it stands. *)
PackageBefore(p, f, i) ==
    IF \E j \in PackagesIn(NodesIn(p, f)) : j < i THEN PackageIn(p, f) ELSE <<>>

PackageInv ==
    program.lang = "java" /\ phase = "walk" => pkg = PackageBefore(program, file, at)

(* The functions the walk, or Go's first pass, has come by. *)
Passed(f, i) ==
    \/ phase = "done"
    \/ program.lang = "go" /\ phase = "walk"
    \/ f < file
    \/ f = file /\ i < at

RegisteredInv ==
    \A f \in DOMAIN program.files : \A i \in DOMAIN NodesIn(program, f) :
        IsFunc(program, f, i) /\ Passed(f, i) => NameIn(program, f, i) \in DOMAIN funcs

EntriesInv ==
    \A fqn \in DOMAIN funcs :
        /\ IsFunc(program, funcs[fqn].file, funcs[fqn].at)
        /\ fqn = NameIn(program, funcs[fqn].file, funcs[fqn].at)

InPlace(p, site) ==
    /\ site.file \in DOMAIN p.files
    /\ site.at \in DOMAIN NodesIn(p, site.file)
    /\ site.caller = CurIn(p, site.file, site.at)

SitesInv ==
    /\ IsList(calls) /\ IsList(fields)
    /\ \A site \in Range(calls) \cup Range(fields) :
           InPlace(program, site) /\ site.caller \in DOMAIN funcs \cup {<<>>}

IInv == /\ PlaceInv /\ FramesInv /\ TypesInv /\ PackageInv
        /\ RegisteredInv /\ EntriesInv /\ SitesInv

-----------------------------------------------------------------------------
(* What is around the node after one, by what that one is. *)
LEMMA NodeProperties ==
    ASSUME NEW p, GoodProgram(p), NEW f \in DOMAIN p.files, NEW i \in 1..Len(NodesIn(p, f))
    PROVE  /\ IsList(NodesIn(p, f)) /\ IsText(p.lang, NodesIn(p, f))
           /\ Len(NodesIn(p, f)) \in Nat /\ DOMAIN NodesIn(p, f) = 1..Len(NodesIn(p, f))
           /\ i \in Nat \ {0} /\ i \in DOMAIN NodesIn(p, f)
           /\ i + 1 \in 1..Len(NodesIn(p, f)) + 1 /\ i \in 1..Len(NodesIn(p, f)) + 1
<1>1. IsList(NodesIn(p, f)) /\ IsText(p.lang, NodesIn(p, f))
  BY ProgramFiles
<1>2. Len(NodesIn(p, f)) \in Nat /\ DOMAIN NodesIn(p, f) = 1..Len(NodesIn(p, f))
  BY <1>1, PlacesProperties
<1> QED BY <1>1, <1>2

SameAround(p, f, i, j) ==
    /\ AroundIn(NodesIn(p, f), i, Opens) = AroundIn(NodesIn(p, f), j, Opens)
    /\ ScopeIn(p, f, i) = ScopeIn(p, f, j)
    /\ CurIn(p, f, i) = CurIn(p, f, j)

OneMoreAround(p, f, i, m) ==
    LET node == NodesIn(p, f)[m]
    IN  /\ AroundIn(NodesIn(p, f), i, Opens) = Append(AroundIn(NodesIn(p, f), m, Opens), m)
        /\ ScopeIn(p, f, i) = IF node.is \in ScopeKinds(p.lang)
                              THEN Append(ScopeIn(p, f, m), node.name) ELSE ScopeIn(p, f, m)
        /\ CurIn(p, f, i) = IF node.is = "func" THEN NameIn(p, f, m) ELSE CurIn(p, f, m)

LEMMA AroundSame ==
    ASSUME NEW p, NEW f, NEW i, NEW j, Inside(NodesIn(p, f), i) = Inside(NodesIn(p, f), j)
    PROVE  SameAround(p, f, i, j)
<1> DEFINE nodes == NodesIn(p, f)
<1>1. \A kinds : InsideOf(nodes, i, kinds) = InsideOf(nodes, j, kinds)
  BY DEF InsideOf
<1> HIDE DEF nodes
<1>2. \A kinds : AroundIn(nodes, i, kinds) = AroundIn(nodes, j, kinds)
  <2> TAKE kinds
  <2>1. InsideOf(nodes, i, kinds) = InsideOf(nodes, j, kinds)
    BY <1>1
  <2> QED BY <2>1 DEF AroundIn
<1>3. \A kinds : NamesIn(nodes, i, kinds) = NamesIn(nodes, j, kinds)
  <2> TAKE kinds
  <2>1. AroundIn(nodes, i, kinds) = AroundIn(nodes, j, kinds)
    BY <1>2
  <2> QED BY <2>1 DEF NamesIn
<1>4. FuncIn(nodes, i) = FuncIn(nodes, j)
  <2>1. InsideOf(nodes, i, {"func"}) = InsideOf(nodes, j, {"func"})
    BY <1>1
  <2> QED BY <2>1 DEF FuncIn
<1> QED BY <1>2, <1>3, <1>4, Zenon DEF SameAround, ScopeIn, CurIn, nodes

LEMMA AroundOne ==
    ASSUME NEW p, GoodProgram(p), NEW f \in DOMAIN p.files, NEW m \in 1..Len(NodesIn(p, f)),
           NEW i \in 1..Len(NodesIn(p, f)) + 1, NodesIn(p, f)[m].is \in Opens,
           Inside(NodesIn(p, f), i) = Inside(NodesIn(p, f), m) \cup {m}
    PROVE  OneMoreAround(p, f, i, m)
<1> DEFINE nodes == NodesIn(p, f)
           kinds == ScopeKinds(p.lang)
<1>1. /\ IsList(nodes) /\ NamesThem(nodes, kinds) /\ m # 0
      /\ m \in 1..Len(nodes) /\ i \in 1..Len(nodes) + 1
      /\ Inside(nodes, i) = Inside(nodes, m) \cup {m}
  BY NodeProperties, ScopeNames
<1>2. Grows(nodes, i, m, m, Opens)
  <2> HIDE DEF nodes
  <2> QED BY <1>1, AroundOneMore
<1>3. NamesGrow(nodes, i, m, m, kinds)
  <2> HIDE DEF nodes, kinds
  <2> QED BY <1>1, NamesOneMore
<1>4. FuncIn(nodes, i) = IF nodes[m].is = "func" THEN m ELSE FuncIn(nodes, m)
  BY <1>1, FuncInOneMore
<1> HIDE DEF nodes
<1>5. AroundIn(nodes, i, Opens) = Append(AroundIn(nodes, m, Opens), m)
  BY <1>2 DEF Grows, nodes
<1>6. ScopeIn(p, f, i) = IF nodes[m].is \in ScopeKinds(p.lang)
                         THEN Append(ScopeIn(p, f, m), nodes[m].name) ELSE ScopeIn(p, f, m)
  BY <1>3, Zenon DEF NamesGrow, ScopeIn, nodes
<1>7. CurIn(p, f, i) = IF nodes[m].is = "func" THEN NameIn(p, f, m) ELSE CurIn(p, f, m)
  <2>1. CASE nodes[m].is = "func"
    BY <1>1, <1>4, <2>1 DEF CurIn, nodes
  <2>2. CASE nodes[m].is # "func"
    BY <1>4, <2>2 DEF CurIn, nodes
  <2> QED BY <2>1, <2>2
<1> QED BY <1>5, <1>6, <1>7, Zenon DEF OneMoreAround, nodes

LEMMA AfterOpen ==
    ASSUME NEW p, GoodProgram(p), NEW f \in DOMAIN p.files, NEW i \in 1..Len(NodesIn(p, f)),
           NodesIn(p, f)[i].is \in Opens
    PROVE  OneMoreAround(p, f, i + 1, i)
<1>1. i \in Nat \ {0} /\ i + 1 \in 1..Len(NodesIn(p, f)) + 1
  BY NodeProperties
<1>2. Inside(NodesIn(p, f), i + 1) = Inside(NodesIn(p, f), i) \cup {i}
  BY <1>1, InsideOpen
<1> QED BY <1>1, <1>2, AroundOne

LEMMA AfterQuiet ==
    ASSUME NEW p, GoodProgram(p), NEW f \in DOMAIN p.files, NEW i \in 1..Len(NodesIn(p, f)),
           NodesIn(p, f)[i].is \notin Opens, NodesIn(p, f)[i].is # "end"
    PROVE  SameAround(p, f, i + 1, i)
<1>1. i \in Nat \ {0}
  BY NodeProperties
<1>2. Inside(NodesIn(p, f), i + 1) = Inside(NodesIn(p, f), i)
  BY <1>1, InsideQuiet
<1> QED BY <1>2, AroundSame

LEMMA AfterEnd ==
    ASSUME NEW p, GoodProgram(p), NEW f \in DOMAIN p.files, NEW i \in 1..Len(NodesIn(p, f)),
           NodesIn(p, f)[i].is = "end"
    PROVE  \E m \in 1..Len(NodesIn(p, f)) : /\ OneMoreAround(p, f, i, m)
                                            /\ SameAround(p, f, i + 1, m)
<1> DEFINE nodes == NodesIn(p, f)
<1>1. /\ IsText(p.lang, nodes) /\ i \in Nat \ {0} /\ i \in DOMAIN nodes
      /\ i \in 1..Len(nodes) + 1 /\ Len(nodes) \in Nat
  BY NodeProperties
<1>2. Inside(nodes, i) # {}
  BY <1>1 DEF IsText
<1>3. PICK m \in 1..i - 1 : Closes(nodes, m, i)
  BY <1>1, <1>2, InsideEnd
<1>4. /\ nodes[m].is \in Opens /\ Inside(nodes, i) = Inside(nodes, m) \cup {m}
      /\ Inside(nodes, i + 1) = Inside(nodes, m)
  BY <1>3, Zenon DEF Closes
<1>5. m \in 1..Len(nodes)
  BY <1>1
<1> HIDE DEF nodes
<1>6. OneMoreAround(p, f, i, m)
  BY <1>1, <1>4, <1>5, AroundOne DEF nodes
<1>7. SameAround(p, f, i + 1, m)
  BY <1>4, AroundSame DEF nodes
<1> QED BY <1>5, <1>6, <1>7, Zenon DEF nodes

-----------------------------------------------------------------------------
(* The frames follow what is around. *)
LEMMA MirrorsGrows ==
    ASSUME NEW p, GoodProgram(p), NEW f \in DOMAIN p.files, NEW i \in 1..Len(NodesIn(p, f)),
           OneMoreAround(p, f, i + 1, i),
           NEW saved, Mirrors(p, f, i, saved),
           NEW frame, Saves(p, f, i, Len(saved) + 1, frame)
    PROVE  Mirrors(p, f, i + 1, Append(saved, frame))
<1> DEFINE a == AroundIn(NodesIn(p, f), i, Opens)
           b == AroundIn(NodesIn(p, f), i + 1, Opens)
           grown == Append(saved, frame)
<1>1. a \in Seq(Nat) /\ i \in Nat
  BY NodeProperties, AroundProperties
<1>2. b = Append(a, i)
  BY DEF OneMoreAround
<1>3. /\ IsList(saved) /\ Len(saved) = Len(a)
      /\ \A k \in 1..Len(a) : Saves(p, f, a[k], k, saved[k])
  BY DEF Mirrors
<1> HIDE DEF a, b, grown
<1>4. /\ Len(b) = Len(a) + 1 /\ Len(a) \in Nat /\ b[Len(a) + 1] = i
      /\ \A k \in 1..Len(a) : b[k] = a[k]
  BY <1>1, <1>2, AppendProperties, LenProperties
<1>5. /\ IsList(grown) /\ Len(grown) = Len(saved) + 1 /\ grown[Len(saved) + 1] = frame
      /\ \A k \in 1..Len(saved) : grown[k] = saved[k]
  BY <1>3, ListGrows DEF grown
<1>6. ASSUME NEW k \in 1..Len(b) PROVE Saves(p, f, b[k], k, grown[k])
  <2>1. CASE k = Len(a) + 1
    BY <1>3, <1>4, <1>5, <2>1
  <2>2. CASE k # Len(a) + 1
    <3>1. k \in 1..Len(a)
      BY <1>4, <2>2
    <3>2. b[k] = a[k] /\ grown[k] = saved[k]
      BY <1>3, <1>4, <1>5, <3>1
    <3> QED BY <1>3, <3>1, <3>2
  <2> QED BY <2>1, <2>2
<1> QED BY <1>3, <1>4, <1>5, <1>6 DEF Mirrors, b, grown

LEMMA MirrorsShrinks ==
    ASSUME NEW p, GoodProgram(p), NEW f \in DOMAIN p.files, NEW i,
           NEW m \in 1..Len(NodesIn(p, f)),
           OneMoreAround(p, f, i, m), SameAround(p, f, i + 1, m),
           NEW saved, Mirrors(p, f, i, saved)
    PROVE  /\ saved # <<>> /\ Len(saved) \in Nat \ {0}
           /\ Saves(p, f, m, Len(saved), Last(saved))
           /\ Last(saved) = saved[Len(saved)]
           /\ Mirrors(p, f, i + 1, Front(saved))
<1> DEFINE a == AroundIn(NodesIn(p, f), i, Opens)
           b == AroundIn(NodesIn(p, f), i + 1, Opens)
           rest == Front(saved)
<1>1. AroundIn(NodesIn(p, f), m, Opens) \in Seq(Nat) /\ m \in Nat
  BY NodeProperties, AroundProperties
<1>2. a = Append(b, m) /\ b \in Seq(Nat)
  BY <1>1 DEF OneMoreAround, SameAround
<1>3. /\ IsList(saved) /\ Len(saved) = Len(a)
      /\ \A k \in 1..Len(a) : Saves(p, f, a[k], k, saved[k])
  BY DEF Mirrors
<1> HIDE DEF a, b, rest
<1>4. /\ Len(a) = Len(b) + 1 /\ Len(b) \in Nat /\ a[Len(b) + 1] = m
      /\ \A k \in 1..Len(b) : a[k] = b[k]
  BY <1>1, <1>2, AppendProperties, LenProperties
<1>5. saved # <<>> /\ Len(saved) \in Nat \ {0}
  BY <1>3, <1>4, EmptySeq
<1>6. /\ IsList(rest) /\ Len(rest) = Len(saved) - 1 /\ Last(saved) = saved[Len(saved)]
      /\ \A k \in 1..Len(saved) - 1 : rest[k] = saved[k]
  BY <1>3, <1>5, ListShrinks DEF rest
<1>7. Saves(p, f, m, Len(saved), Last(saved))
  <2>1. Len(saved) \in 1..Len(a) /\ a[Len(saved)] = m
    BY <1>3, <1>4
  <2>2. Saves(p, f, a[Len(saved)], Len(saved), saved[Len(saved)])
    BY <1>3, <2>1
  <2> QED BY <1>6, <2>1, <2>2
<1>8. ASSUME NEW k \in 1..Len(b) PROVE Saves(p, f, b[k], k, rest[k])
  <2>1. k \in 1..Len(a) /\ a[k] = b[k] /\ rest[k] = saved[k]
    BY <1>3, <1>4, <1>6
  <2> QED BY <1>3, <2>1
<1>9. Len(rest) = Len(b)
  BY <1>3, <1>4, <1>6
<1> QED BY <1>5, <1>6, <1>7, <1>8, <1>9 DEF Mirrors, b, rest

LEMMA NothingAround ==
    ASSUME NEW p, GoodProgram(p), NEW f \in DOMAIN p.files
    PROVE  Mirrors(p, f, 1, <<>>) /\ ScopeIn(p, f, 1) = <<>> /\ CurIn(p, f, 1) = <<>>
<1> DEFINE nodes == NodesIn(p, f)
<1>1. IsList(nodes) /\ Len(nodes) \in Nat /\ 1 \in 1..Len(nodes) + 1
  BY ProgramFiles, PlacesProperties
<1>2. NamesThem(nodes, ScopeKinds(p.lang))
  BY ScopeNames
<1> HIDE DEF nodes
<1>3. \A kinds : InsideOf(nodes, 1, kinds) = {}
  <2> TAKE kinds
  <2>1. InsideOf(nodes, 1, kinds) \in SUBSET (1..1 - 1)
    BY <1>1, AroundProperties
  <2> QED BY <2>1
<1>4. \A kinds : Len(AroundIn(nodes, 1, kinds)) = 0
  <2> TAKE kinds
  <2> DEFINE a == AroundIn(nodes, 1, kinds)
  <2>1. a \in Seq(Nat) /\ Range(a) = {}
    BY <1>1, <1>3, AroundProperties
  <2> HIDE DEF a
  <2>2. Len(a) \in Nat /\ Range(a) = {a[k] : k \in 1..Len(a)}
    BY <2>1, LenProperties, RangeEquality
  <2>3. Len(a) = 0
    <3>1. ASSUME Len(a) # 0 PROVE FALSE
      <4>1. 1 \in 1..Len(a)
        BY <2>2, <3>1
      <4> QED BY <2>1, <2>2, <4>1
    <3> QED BY <3>1
  <2> QED BY <2>3 DEF a
<1>5. IsList(<<>>) /\ Len(<<>>) = 0
  BY EmptySeq DEF IsList
<1>6. Mirrors(p, f, 1, <<>>)
  <2>1. Len(AroundIn(nodes, 1, Opens)) = 0
    BY <1>4
  <2> QED BY <1>5, <2>1 DEF Mirrors, nodes
<1>7. NamesIn(nodes, 1, ScopeKinds(p.lang)) = <<>>
  <2>1. Len(AroundIn(nodes, 1, ScopeKinds(p.lang))) = 0
    BY <1>4
  <2>2. NamesIn(nodes, 1, ScopeKinds(p.lang)) \in Seq(STRING)
          /\ Len(NamesIn(nodes, 1, ScopeKinds(p.lang))) = 0
    BY <1>1, <1>2, <2>1, NamesTyped
  <2> QED BY <2>2, EmptySeq
<1>8. FuncIn(nodes, 1) = 0
  <2>1. InsideOf(nodes, 1, {"func"}) = {}
    BY <1>3
  <2> QED BY <2>1 DEF FuncIn
<1> QED BY <1>6, <1>7, <1>8 DEF ScopeIn, CurIn, nodes

-----------------------------------------------------------------------------
(* What the handlers of the four languages come down to: passing a node,    *)
(* registering a function, entering and leaving a definition, and going to  *)
(* the next file.                                                           *)
Here == NodesIn(program, file)[at]

MoveOn == /\ at <= Len(NodesIn(program, file)) /\ at' = at + 1
          /\ program' = program /\ phase' = phase /\ file' = file

Adds(s, t, f, i, caller) ==
    t = s \/ \E site : t = Append(s, site) /\ site.file = f /\ site.at = i /\ site.caller = caller

KeepsScope == /\ frames' = frames /\ scope' = scope /\ curFunc' = curFunc
              /\ curFunc = <<>> \/ program.lang = "python" => localTypes' = localTypes

Registers ==
    \E info : funcs' = Bind(funcs, NameIn(program, file, at), [file |-> file, at |-> at, info |-> info])

PassStep ==
    /\ phase \in {"discover", "walk"} /\ MoveOn /\ KeepsScope /\ funcs' = funcs
    /\ IF phase = "walk" THEN Here.is \notin Opens /\ Here.is # "end"
       ELSE Here.is # "func" /\ calls' = calls /\ fields' = fields
    /\ Adds(calls, calls', file, at, curFunc) /\ Adds(fields, fields', file, at, curFunc)
    /\ program.lang = "java" => pkg' = IF Here.is = "package" THEN Here.path ELSE pkg

RegisterStep ==
    /\ phase = "discover" /\ MoveOn /\ KeepsScope /\ Here.is = "func" /\ Registers
    /\ calls' = calls /\ fields' = fields

Frame == [is |-> Here.is, scope |-> scope, curFunc |-> curFunc, localTypes |-> localTypes,
          classFields |-> classFields, classFQN |-> classFQN]

EnterStep ==
    /\ phase = "walk" /\ MoveOn /\ Here.is \in Opens /\ frames' = Append(frames, Frame)
    /\ scope' = IF Here.is \in ScopeKinds(program.lang) THEN Append(scope, Here.name) ELSE scope
    /\ curFunc' = IF Here.is = "func" THEN NameIn(program, file, at) ELSE curFunc
    /\ Here.is # "func" \/ program.lang = "python" => localTypes' = localTypes
    /\ \/ Here.is = "func" /\ Registers
       \/ funcs' = funcs /\ (Here.is = "func" => NameIn(program, file, at) \in DOMAIN funcs)
    /\ calls' = calls /\ fields' = fields /\ pkg' = pkg

LeaveStep ==
    /\ phase = "walk" /\ MoveOn /\ Here.is = "end" /\ frames' = Front(frames)
    /\ \/ scope' = Last(frames).scope
       \/ Last(frames).is \notin ScopeKinds(program.lang) /\ scope' = scope
    /\ \/ curFunc' = Last(frames).curFunc
       \/ Last(frames).is # "func" /\ curFunc' = curFunc
    /\ \/ curFunc' = Last(frames).curFunc /\ localTypes' = Last(frames).localTypes
       \/ (curFunc' = curFunc \/ program.lang = "python") /\ localTypes' = localTypes
    /\ program.lang = "python" => localTypes' = localTypes
    /\ funcs' = funcs /\ calls' = calls /\ fields' = fields /\ pkg' = pkg

FileStep ==
    /\ phase # "done" /\ at > Len(NodesIn(program, file)) /\ at' = 1 /\ program' = program
    /\ IF file < Len(program.files) THEN file' = file + 1 /\ phase' = phase
       ELSE file' = 1 /\ phase' = IF phase = "discover" THEN "walk" ELSE "done"
    /\ frames' = <<>> /\ scope' = <<>> /\ curFunc' = <<>> /\ pkg' = <<>> /\ localTypes' = Empty
    /\ funcs' = funcs /\ calls' = calls /\ fields' = fields

Steps == PassStep \/ RegisterStep \/ EnterStep \/ LeaveStep \/ FileStep

LEMMA PythonSteps ==
    ASSUME PlaceInv, FramesInv, program.lang = "python", Py!Next PROVE Steps
<1> USE DEF Py!Walking, Py!At, Py!Node, Py!Nodes, Py!Advance, Py!graph, Py!extractor,
            MoveOn, Here, KeepsScope, NodesIn
<1>1. phase \in {"walk", "done"}
  BY DEF PlaceInv
<1>2. "end" \notin Opens /\ {"class", "func", "block"} = Opens
  BY DEF Opens
<1>3. \A s, f, i, c : Adds(s, s, f, i, c)
  BY DEF Adds
<1>4. ASSUME \/ Py!handleImport \/ Py!handleImportFrom \/ Py!PassComment PROVE PassStep
  BY <1>1, <1>2, <1>3, <1>4
     DEF Py!handleImport, Py!handleImportFrom, Py!PassComment, PassStep
<1>5. ASSUME Py!handleCall PROVE PassStep
  <2>1. Adds(calls, calls', file, at, curFunc)
    BY <1>5 DEF Py!handleCall, Py!AddCall, Adds
  <2> QED BY <1>1, <1>2, <1>3, <1>5, <2>1 DEF Py!handleCall, PassStep
<1>6. ASSUME Py!handleFieldAccess PROVE PassStep
  <2>1. Adds(fields, fields', file, at, curFunc)
    BY <1>6 DEF Py!handleFieldAccess, Py!AddField, Adds
  <2> QED BY <1>1, <1>2, <1>3, <1>6, <2>1 DEF Py!handleFieldAccess, PassStep
<1>7. ASSUME Py!handleClass PROVE EnterStep
  <2>1. frames' = Append(frames, Frame)
    BY <1>7, Zenon DEF Py!handleClass, Py!Enter, Frame
  <2> QED BY <1>1, <1>2, <1>7, <2>1 DEF Py!handleClass, EnterStep, ScopeKinds
<1>8. ASSUME Py!handleFunction PROVE EnterStep
  <2>1. frames' = Append(frames, Frame)
    BY <1>8, Zenon DEF Py!handleFunction, Py!Enter, Frame
  <2>2. scope = ScopeIn(program, file, at)
    BY <1>1, <1>8 DEF Py!handleFunction, FramesInv
  <2>3. Py!modFQN \o Append(scope, Here.name) = NameIn(program, file, at)
    BY <2>2 DEF NameIn, ModuleIn, OwnNameIn, Py!modFQN
  <2>4. Registers
    <3>1. funcs' = Py!Bind(funcs, Py!modFQN \o Append(scope, Here.name),
                           [file |-> file, at |-> at, info |-> Here.decorators])
      BY <1>8, Zenon DEF Py!handleFunction, Py!AddFunc
    <3>2. funcs' = Bind(funcs, NameIn(program, file, at),
                        [file |-> file, at |-> at, info |-> Here.decorators])
      BY <2>3, <3>1, SamePy, Zenon
    <3> QED BY <3>2, Zenon DEF Registers
  <2> QED BY <1>1, <1>2, <1>8, <2>1, <2>3, <2>4 DEF Py!handleFunction, EnterStep, ScopeKinds
<1>9. ASSUME Py!Leave PROVE LeaveStep
  BY <1>1, <1>2, <1>9, SamePy DEF Py!Leave, LeaveStep
<1>10. ASSUME Py!NextFile PROVE FileStep
  BY <1>1, <1>10 DEF Py!NextFile, FileStep, Py!Empty, Empty
<1> QED BY <1>4, <1>5, <1>6, <1>7, <1>8, <1>9, <1>10 DEF Py!Next, Steps

(* A function comes after the package declaration, if there is one. *)
LEMMA PackageKnown ==
    ASSUME PlaceInv, PackageInv, program.lang = "java", phase = "walk",
           at <= Len(NodesIn(program, file)), NodesIn(program, file)[at].is = "func"
    PROVE  pkg = PackageIn(program, file)
<1> DEFINE nodes == NodesIn(program, file)
           P == PackagesIn(nodes)
<1>1. GoodProgram(program)
  BY ProgramsAssumption DEF PlaceInv, GoodProgram
<1>2. file \in DOMAIN program.files /\ at \in 1..Len(nodes) + 1
  BY DEF PlaceInv
<1>3. IsList(nodes) /\ IsText("java", nodes)
  BY <1>1, <1>2, ProgramFiles
<1>4. Len(nodes) \in Nat /\ DOMAIN nodes = 1..Len(nodes) /\ at \in 1..Len(nodes)
  BY <1>2, <1>3, PlacesProperties
<1>5. pkg = IF \E j \in P : j < at THEN PackageIn(program, file) ELSE <<>>
  BY DEF PackageInv, PackageBefore
<1>6. ASSUME NEW j \in P PROVE j < at
  <2>1. j \in 1..Len(nodes) /\ nodes[j].is = "package"
    BY <1>4 DEF PackagesIn
  <2>2. \A k \in 1..j - 1 : nodes[k].is = "comment"
    BY <1>3, <1>4, <2>1 DEF IsText
  <2>3. at \notin 1..j - 1 /\ at # j
    BY <2>1, <2>2
  <2> QED BY <1>4, <2>1, <2>3
<1>7. P = {} => PackageIn(program, file) = <<>>
  BY DEF PackageIn
<1> HIDE DEF P
<1> QED BY <1>5, <1>6, <1>7

LEMMA JavaSteps ==
    ASSUME PlaceInv, FramesInv, PackageInv, program.lang = "java", Java!Next PROVE Steps
<1> USE DEF Java!Walking, Java!At, Java!Node, Java!Nodes, Java!Advance, Java!graph, Java!extractor,
            MoveOn, Here, KeepsScope, NodesIn
<1>1. phase \in {"walk", "done"}
  BY DEF PlaceInv
<1>2. "end" \notin Opens /\ {"class", "func", "block"} = Opens
  BY DEF Opens
<1>3. \A s, f, i, c : Adds(s, s, f, i, c)
  BY DEF Adds
<1>4. ASSUME \/ Java!handlePackage \/ Java!handleImport \/ Java!PassComment PROVE PassStep
  BY <1>1, <1>2, <1>3, <1>4
     DEF Java!handlePackage, Java!handleImport, Java!PassComment, PassStep
<1>5. ASSUME Java!recordLocalDeclaration PROVE PassStep
  BY <1>1, <1>2, <1>3, <1>5 DEF Java!recordLocalDeclaration, PassStep
<1>6. ASSUME Java!handleInvocation PROVE PassStep
  <2>1. PICK callee : Java!AddCall(callee)
    BY <1>6, Zenon DEF Java!handleInvocation
  <2>2. Adds(calls, calls', file, at, curFunc)
    BY <2>1 DEF Java!AddCall, Adds
  <2> QED BY <1>1, <1>2, <1>3, <1>6, <2>2 DEF Java!handleInvocation, PassStep
<1>7. ASSUME Java!handleFieldAccess PROVE PassStep
  <2>1. Adds(fields, fields', file, at, curFunc)
    BY <1>7 DEF Java!handleFieldAccess, Java!AddField, Adds
  <2> QED BY <1>1, <1>2, <1>3, <1>7, <2>1 DEF Java!handleFieldAccess, PassStep
<1>8. ASSUME Java!handleClass PROVE EnterStep
  <2>1. frames' = Append(frames, Frame)
    BY <1>8, Zenon DEF Java!handleClass, Java!Enter, Frame
  <2> QED BY <1>1, <1>2, <1>8, <2>1 DEF Java!handleClass, EnterStep, ScopeKinds
<1>9. ASSUME Java!PassInto PROVE EnterStep
  <2>1. frames' = Append(frames, Frame)
    BY <1>9, Zenon DEF Java!PassInto, Java!Enter, Frame
  <2> QED BY <1>1, <1>2, <1>9, <2>1 DEF Java!PassInto, EnterStep, ScopeKinds
<1>10. ASSUME Java!handleMethod PROVE EnterStep
  <2>1. frames' = Append(frames, Frame)
    BY <1>10, Zenon DEF Java!handleMethod, Java!Enter, Frame
  <2>2. scope = ScopeIn(program, file, at) /\ pkg = PackageIn(program, file)
    <3>1. phase = "walk" /\ at <= Len(NodesIn(program, file)) /\ NodesIn(program, file)[at].is = "func"
      BY <1>10 DEF Java!handleMethod
    <3>2. pkg = PackageIn(program, file)
      BY <3>1, PackageKnown
    <3> QED BY <3>1, <3>2 DEF FramesInv
  <2>3. pkg \o Append(scope, Here.name) = NameIn(program, file, at)
    BY <2>2 DEF NameIn, ModuleIn, OwnNameIn
  <2>4. Registers
    <3>1. funcs' = Java!Bind(funcs, pkg \o Append(scope, Here.name),
                           [file |-> file, at |-> at, info |-> {}])
      BY <1>10, Zenon DEF Java!handleMethod, Java!AddFunc
    <3>2. funcs' = Bind(funcs, NameIn(program, file, at),
                        [file |-> file, at |-> at, info |-> {}])
      BY <2>3, <3>1, SameJava, Zenon
    <3> QED BY <3>2, Zenon DEF Registers
  <2> QED BY <1>1, <1>2, <1>10, <2>1, <2>3, <2>4 DEF Java!handleMethod, EnterStep, ScopeKinds
<1>11. ASSUME Java!Leave PROVE LeaveStep
  BY <1>1, <1>2, <1>11, SameJava DEF Java!Leave, LeaveStep, ScopeKinds
<1>12. ASSUME Java!NextFile PROVE FileStep
  BY <1>1, <1>12 DEF Java!NextFile, FileStep, Java!Empty, Empty
<1> QED BY <1>4, <1>5, <1>6, <1>7, <1>8, <1>9, <1>10, <1>11, <1>12 DEF Java!Next, Steps

LEMMA TypeScriptSteps ==
    ASSUME PlaceInv, FramesInv, PackageInv, program.lang = "typescript", TS!Next PROVE Steps
<1> USE DEF TS!Walking, TS!At, TS!Node, TS!Nodes, TS!Advance, TS!graph, TS!extractor,
            MoveOn, Here, KeepsScope, NodesIn
<1>1. phase \in {"walk", "done"}
  BY DEF PlaceInv
<1>2. "end" \notin Opens /\ {"class", "func", "block"} = Opens
  BY DEF Opens
<1>3. \A s, f, i, c : Adds(s, s, f, i, c)
  BY DEF Adds
<1>4. ASSUME \/ TS!handleImport \/ TS!PassComment PROVE PassStep
  BY <1>1, <1>2, <1>3, <1>4 DEF TS!handleImport, TS!PassComment, PassStep
<1>5. ASSUME TS!handleCall PROVE PassStep
  <2>1. PICK callee : TS!AddCall(callee)
    BY <1>5, Zenon DEF TS!handleCall
  <2>2. Adds(calls, calls', file, at, curFunc)
    BY <2>1 DEF TS!AddCall, Adds
  <2> QED BY <1>1, <1>2, <1>3, <1>5, <2>2 DEF TS!handleCall, PassStep
<1>6. ASSUME TS!handleFieldAccess PROVE PassStep
  <2>1. Adds(fields, fields', file, at, curFunc)
    BY <1>6 DEF TS!handleFieldAccess, TS!AddField, Adds
  <2> QED BY <1>1, <1>2, <1>3, <1>6, <2>1 DEF TS!handleFieldAccess, PassStep
<1>7. ASSUME TS!handleClass PROVE EnterStep
  <2>1. frames' = Append(frames, Frame)
    BY <1>7, Zenon DEF TS!handleClass, TS!Enter, Frame
  <2> QED BY <1>1, <1>2, <1>7, <2>1 DEF TS!handleClass, EnterStep, ScopeKinds
<1>8. ASSUME TS!PassInto PROVE EnterStep
  <2>1. frames' = Append(frames, Frame)
    BY <1>8, Zenon DEF TS!PassInto, TS!Enter, Frame
  <2> QED BY <1>1, <1>2, <1>8, <2>1 DEF TS!PassInto, EnterStep, ScopeKinds
<1>9. ASSUME TS!recordAndRecurse PROVE EnterStep
  <2>1. frames' = Append(frames, Frame)
    BY <1>9, Zenon DEF TS!recordAndRecurse, TS!Enter, Frame
  <2>2. scope = ScopeIn(program, file, at)
    BY <1>1, <1>9 DEF TS!recordAndRecurse, FramesInv
  <2>3. TS!modFQN \o Append(scope, Here.name) = NameIn(program, file, at)
    BY <2>2 DEF NameIn, ModuleIn, OwnNameIn, TS!modFQN
  <2>4. Registers
    <3>1. funcs' = TS!Bind(funcs, TS!modFQN \o Append(scope, Here.name),
                           [file |-> file, at |-> at, info |-> {}])
      BY <1>9, Zenon DEF TS!recordAndRecurse, TS!AddFunc
    <3>2. funcs' = Bind(funcs, NameIn(program, file, at),
                        [file |-> file, at |-> at, info |-> {}])
      BY <2>3, <3>1, SameTS, Zenon
    <3> QED BY <3>2, Zenon DEF Registers
  <2> QED BY <1>1, <1>2, <1>9, <2>1, <2>3, <2>4 DEF TS!recordAndRecurse, EnterStep, ScopeKinds
<1>10. ASSUME TS!Leave PROVE LeaveStep
  BY <1>1, <1>2, <1>10, SameTS DEF TS!Leave, LeaveStep, ScopeKinds
<1>11. ASSUME TS!NextFile PROVE FileStep
  BY <1>1, <1>11 DEF TS!NextFile, FileStep, TS!Empty, Empty
<1> QED BY <1>4, <1>5, <1>6, <1>7, <1>8, <1>9, <1>10, <1>11 DEF TS!Next, Steps

LEMMA GoSteps ==
    ASSUME PlaceInv, FramesInv, PackageInv, program.lang = "go", Go!Next PROVE Steps
<1> USE DEF Go!Walking, Go!At, Go!Node, Go!Nodes, Go!Advance, Go!graph, Go!extractor,
            MoveOn, Here, KeepsScope, NodesIn
<1>1. phase \in {"discover", "walk", "done"}
  BY DEF PlaceInv
<1>2. "end" \notin Opens /\ {"class", "func", "block"} = Opens
  BY DEF Opens
<1>3. \A s, f, i, c : Adds(s, s, f, i, c)
  BY DEF Adds
<1>4. ASSUME \/ Go!handleImportSpec \/ Go!PassComment \/ Go!PassOver PROVE PassStep
  <2>1. CASE Go!handleImportSpec
    BY <1>1, <1>2, <1>3, <2>1, Zenon DEF Go!handleImportSpec, PassStep
  <2>2. CASE Go!PassComment
    BY <1>1, <1>2, <1>3, <2>2 DEF Go!PassComment, PassStep
  <2>3. CASE Go!PassOver
    BY <1>1, <1>2, <1>3, <2>3 DEF Go!PassOver, PassStep
  <2> QED BY <1>4, <2>1, <2>2, <2>3
<1>5. ASSUME Go!recordShortVarDeclaration PROVE PassStep
  BY <1>1, <1>2, <1>3, <1>5, Zenon DEF Go!recordShortVarDeclaration, PassStep
<1>6. ASSUME Go!handleCall PROVE PassStep
  <2>1. PICK callee : Go!AddCall(callee)
    BY <1>6, Zenon DEF Go!handleCall
  <2>2. Adds(calls, calls', file, at, curFunc)
    BY <2>1 DEF Go!AddCall, Adds
  <2> QED BY <1>1, <1>2, <1>3, <1>6, <2>2 DEF Go!handleCall, PassStep
<1>7. ASSUME Go!handleFieldAccess PROVE PassStep
  <2>1. Adds(fields, fields', file, at, curFunc)
    BY <1>7 DEF Go!handleFieldAccess, Go!AddField, Adds
  <2> QED BY <1>1, <1>2, <1>3, <1>7, <2>1 DEF Go!handleFieldAccess, PassStep
<1>8. Go!composeGoFuncFQN(Here) = NameIn(program, file, at)
  BY SameGo DEF Go!composeGoFuncFQN, Go!modFQN, Go!goModuleFQN, NameIn, ModuleIn, GoPackageIn, OwnNameIn
<1>9. ASSUME NEW info, Go!AddFunc(Go!composeGoFuncFQN(Here), info) PROVE Registers
  <2>1. funcs' = Bind(funcs, NameIn(program, file, at), [file |-> file, at |-> at, info |-> info])
    BY <1>8, <1>9, SameGo, Zenon DEF Go!AddFunc
  <2> QED BY <2>1, Zenon DEF Registers
<1>10. ASSUME Go!registerFunction PROVE RegisterStep
  <2>1. Registers
    BY <1>9, <1>10 DEF Go!registerFunction
  <2> QED BY <1>10, <2>1 DEF Go!registerFunction, RegisterStep
<1>11. ASSUME Go!recordAndRecurse PROVE EnterStep
  <2>1. frames' = Append(frames, Frame)
    BY <1>11, Zenon DEF Go!recordAndRecurse, Go!Enter, Frame
  <2>2. \/ Registers
        \/ funcs' = funcs /\ NameIn(program, file, at) \in DOMAIN funcs
    BY <1>8, <1>9, <1>11 DEF Go!recordAndRecurse
  <2> QED BY <1>1, <1>2, <1>8, <1>11, <2>1, <2>2 DEF Go!recordAndRecurse, EnterStep, ScopeKinds
<1>12. ASSUME Go!Leave PROVE LeaveStep
  BY <1>1, <1>2, <1>12, SameGo DEF Go!Leave, LeaveStep, ScopeKinds
<1>13. ASSUME Go!NextFile PROVE FileStep
  BY <1>1, <1>13 DEF Go!NextFile, FileStep, Go!Empty, Empty
<1> QED BY <1>4, <1>5, <1>6, <1>7, <1>10, <1>11, <1>12, <1>13 DEF Go!Next, Steps

-----------------------------------------------------------------------------
(* Every step preserves every part of the invariant. *)
LEMMA HereProperties ==
    ASSUME PlaceInv
    PROVE  /\ GoodProgram(program)
           /\ Len(program.files) \in Nat \ {0} /\ DOMAIN program.files = 1..Len(program.files)
           /\ file \in DOMAIN program.files /\ file \in Nat
           /\ Len(NodesIn(program, file)) \in Nat
           /\ DOMAIN NodesIn(program, file) = 1..Len(NodesIn(program, file))
           /\ at \in Nat \ {0}
           /\ at <= Len(NodesIn(program, file)) => at \in 1..Len(NodesIn(program, file))
           /\ "end" \notin Opens /\ "func" \in Opens
<1>1. GoodProgram(program)
  BY ProgramsAssumption DEF PlaceInv, GoodProgram
<1>2. file \in DOMAIN program.files /\ at \in 1..Len(NodesIn(program, file)) + 1
  BY DEF PlaceInv
<1>3. Len(program.files) \in Nat \ {0} /\ DOMAIN program.files = 1..Len(program.files)
  BY <1>1, ProgramFiles
<1>4. IsList(NodesIn(program, file))
  BY <1>1, <1>2, ProgramFiles
<1>5. /\ Len(NodesIn(program, file)) \in Nat
      /\ DOMAIN NodesIn(program, file) = 1..Len(NodesIn(program, file))
  BY <1>4, PlacesProperties
<1>6. file \in Nat
  BY <1>2, <1>3
<1>7. at \in Nat \ {0} /\ (at <= Len(NodesIn(program, file)) => at \in 1..Len(NodesIn(program, file)))
  BY <1>2, <1>5
<1> QED BY <1>1, <1>2, <1>3, <1>5, <1>6, <1>7 DEF Opens

LEMMA PlaceKept == ASSUME PlaceInv, Steps PROVE PlaceInv'
<1>1. CASE MoveOn
  <2>1. at \in 1..Len(NodesIn(program, file))
    BY <1>1, HereProperties DEF MoveOn
  <2>2. at' \in 1..Len(NodesIn(program, file)) + 1
    BY <1>1, <2>1, HereProperties DEF MoveOn
  <2> QED BY <1>1, <2>2 DEF MoveOn, PlaceInv
<1>2. CASE FileStep
  <2>1. program' = program /\ at' = 1 /\ phase # "done"
    BY <1>2 DEF FileStep
  <2>2. file' \in DOMAIN program.files
    BY <1>2, HereProperties DEF FileStep
  <2>3. /\ phase' \in {"discover", "walk", "done"}
        /\ phase' = "discover" => program.lang = "go"
    BY <1>2 DEF FileStep, PlaceInv
  <2>4. Len(NodesIn(program, file')) \in Nat
    <3>1. IsList(NodesIn(program, file'))
      BY <2>2, HereProperties, ProgramFiles
    <3> QED BY <3>1, PlacesProperties
  <2>5. at' \in 1..Len(NodesIn(program, file')) + 1
    BY <2>1, <2>4
  <2> QED BY <2>1, <2>2, <2>3, <2>5 DEF PlaceInv
<1> QED BY <1>1, <1>2 DEF Steps, PassStep, RegisterStep, EnterStep, LeaveStep

LEMMA FramesKept == ASSUME PlaceInv, FramesInv, Steps PROVE FramesInv'
<1> DEFINE p == program
           nodes == NodesIn(p, file)
<1>1. GoodProgram(p) /\ file \in DOMAIN p.files
  BY HereProperties
<1>2. CASE PassStep
  <2>1. /\ program' = program /\ phase' = phase /\ file' = file /\ at' = at + 1
        /\ frames' = frames /\ scope' = scope /\ curFunc' = curFunc
    BY <1>2 DEF PassStep, MoveOn, KeepsScope
  <2>2. CASE phase = "walk"
    <3>1. at \in 1..Len(nodes) /\ nodes[at].is \notin Opens /\ nodes[at].is # "end"
      BY <1>2, <2>2, HereProperties DEF PassStep, MoveOn, Here
    <3>2. SameAround(p, file, at + 1, at)
      BY <1>1, <3>1, AfterQuiet
    <3>3. /\ Mirrors(p, file, at, frames) /\ scope = ScopeIn(p, file, at)
          /\ curFunc = CurIn(p, file, at) /\ Len(scope) <= Len(frames)
      BY <2>2 DEF FramesInv
    <3>4. /\ Mirrors(p, file, at + 1, frames) /\ scope = ScopeIn(p, file, at + 1)
          /\ curFunc = CurIn(p, file, at + 1)
      BY <3>2, <3>3 DEF SameAround, Mirrors
    <3> QED BY <2>1, <2>2, <3>3, <3>4 DEF FramesInv
  <2>3. CASE phase # "walk"
    BY <2>1, <2>3 DEF FramesInv
  <2> QED BY <2>2, <2>3
<1>3. CASE RegisterStep
  <2>1. /\ phase' = "discover" /\ phase = "discover"
        /\ frames' = frames /\ scope' = scope /\ curFunc' = curFunc
    BY <1>3 DEF RegisterStep, MoveOn, KeepsScope
  <2> QED BY <2>1 DEF FramesInv
<1>4. CASE EnterStep
  <2>1. /\ program' = program /\ phase' = "walk" /\ phase = "walk" /\ file' = file /\ at' = at + 1
        /\ frames' = Append(frames, Frame)
        /\ scope' = IF nodes[at].is \in ScopeKinds(p.lang) THEN Append(scope, nodes[at].name)
                    ELSE scope
        /\ curFunc' = IF nodes[at].is = "func" THEN NameIn(p, file, at) ELSE curFunc
        /\ nodes[at].is \in Opens
    BY <1>4 DEF EnterStep, MoveOn, Here
  <2>2. at \in 1..Len(nodes)
    BY <1>4, HereProperties DEF EnterStep, MoveOn
  <2>3. OneMoreAround(p, file, at + 1, at)
    BY <1>1, <2>1, <2>2, AfterOpen
  <2>4. /\ Mirrors(p, file, at, frames) /\ scope = ScopeIn(p, file, at)
        /\ curFunc = CurIn(p, file, at) /\ Len(scope) <= Len(frames)
    BY <2>1 DEF FramesInv
  <2>5. IsList(frames) /\ Len(frames) \in Nat
    BY <2>4, LenProperties DEF Mirrors, IsList
  <2>6. Saves(p, file, at, Len(frames) + 1, Frame)
    <3>1. /\ Frame.is = nodes[at].is /\ Frame.scope = scope /\ Frame.curFunc = curFunc
      BY DEF Frame, Here
    <3>2. Len(scope) <= (Len(frames) + 1) - 1
      BY <2>4, <2>5
    <3> HIDE DEF Frame
    <3> QED BY <2>4, <3>1, <3>2 DEF Saves
  <2>7. Mirrors(p, file, at + 1, Append(frames, Frame))
    BY <1>1, <2>2, <2>3, <2>4, <2>6, MirrorsGrows
  <2>8. scope' = ScopeIn(p, file, at + 1) /\ curFunc' = CurIn(p, file, at + 1)
    BY <2>1, <2>3, <2>4 DEF OneMoreAround
  <2>9. Len(scope') <= Len(frames')
    <3>1. Len(frames') = Len(frames) + 1
      BY <2>1, <2>5, ListGrows
    <3>2. scope \in Seq(STRING) /\ Len(scope) \in Nat
      <4>1. IsList(nodes) /\ NamesThem(nodes, ScopeKinds(p.lang)) /\ at \in 1..Len(nodes) + 1
        BY <1>1, <2>2, NodeProperties, ScopeNames
      <4> QED BY <2>4, <4>1, NamesTyped, LenProperties DEF ScopeIn
    <3>3. nodes[at].is \in ScopeKinds(p.lang) => nodes[at].name \in STRING
      <4>1. at \in DOMAIN nodes
        BY <1>1, <2>2, NodeProperties
      <4> QED BY <1>1, <4>1, ScopeNames DEF NamesThem
    <3>4. Len(scope') <= Len(scope) + 1
      BY <2>1, <3>2, <3>3, AppendProperties
    <3>5. Len(scope') \in Nat
      BY <2>1, <3>2, <3>3, AppendProperties
    <3> QED BY <2>4, <2>5, <3>1, <3>2, <3>4, <3>5
  <2> QED BY <2>1, <2>7, <2>8, <2>9 DEF FramesInv
<1>5. CASE LeaveStep
  <2>1. /\ program' = program /\ phase' = "walk" /\ phase = "walk" /\ file' = file /\ at' = at + 1
        /\ frames' = Front(frames) /\ nodes[at].is = "end"
    BY <1>5 DEF LeaveStep, MoveOn, Here
  <2>2. /\ scope' = Last(frames).scope
           \/ (Last(frames).is \notin ScopeKinds(p.lang) /\ scope' = scope)
        /\ curFunc' = Last(frames).curFunc \/ (Last(frames).is # "func" /\ curFunc' = curFunc)
    BY <1>5, Zenon DEF LeaveStep
  <2>3. at \in 1..Len(nodes)
    BY <1>5, HereProperties DEF LeaveStep, MoveOn
  <2>4. /\ Mirrors(p, file, at, frames) /\ scope = ScopeIn(p, file, at)
        /\ curFunc = CurIn(p, file, at)
    BY <2>1 DEF FramesInv
  <2>5. PICK m \in 1..Len(nodes) : OneMoreAround(p, file, at, m) /\ SameAround(p, file, at + 1, m)
    BY <1>1, <2>1, <2>3, AfterEnd
  <2>6. /\ Len(frames) \in Nat \ {0}
        /\ Saves(p, file, m, Len(frames), Last(frames))
        /\ frames # <<>> /\ Mirrors(p, file, at + 1, Front(frames))
    BY <1>1, <2>4, <2>5, MirrorsShrinks
  <2>7. /\ Last(frames).is = nodes[m].is /\ Last(frames).scope = ScopeIn(p, file, m)
        /\ Last(frames).curFunc = CurIn(p, file, m)
        /\ Len(Last(frames).scope) <= Len(frames) - 1
    BY <2>6 DEF Saves
  <2>8. scope' = ScopeIn(p, file, m)
    BY <2>2, <2>4, <2>5, <2>7 DEF OneMoreAround
  <2>9. curFunc' = CurIn(p, file, m)
    BY <2>2, <2>4, <2>5, <2>7 DEF OneMoreAround
  <2>10. scope' = ScopeIn(p, file, at + 1) /\ curFunc' = CurIn(p, file, at + 1)
    BY <2>5, <2>8, <2>9 DEF SameAround
  <2>11. Len(scope') <= Len(frames')
    <3>1. Len(frames') = Len(frames) - 1
      BY <2>1, <2>4, <2>6, ListShrinks DEF Mirrors
    <3> QED BY <2>7, <2>8, <3>1
  <2> QED BY <2>1, <2>6, <2>10, <2>11 DEF FramesInv
<1>6. CASE FileStep
  <2>1. /\ program' = program /\ at' = 1 /\ frames' = <<>> /\ scope' = <<>> /\ curFunc' = <<>>
    BY <1>6 DEF FileStep
  <2>2. file' \in DOMAIN program.files
    BY <1>6, HereProperties DEF FileStep
  <2>3. Mirrors(p, file', 1, <<>>) /\ ScopeIn(p, file', 1) = <<>> /\ CurIn(p, file', 1) = <<>>
    BY <1>1, <2>2, NothingAround
  <2>4. Len(scope') <= Len(frames')
    BY <2>1, EmptySeq
  <2> QED BY <2>1, <2>3, <2>4 DEF FramesInv
<1> QED BY <1>2, <1>3, <1>4, <1>5, <1>6 DEF Steps

LEMMA TypesKept ==
    ASSUME PlaceInv, FramesInv, TypesInv, Steps PROVE TypesInv'
<1>1. /\ NoneTyped(frames) /\ (curFunc = <<>> => localTypes = Empty)
      /\ (program.lang = "python" => localTypes = Empty)
  BY DEF TypesInv
<1>2. CASE PassStep \/ RegisterStep
  <2>1. /\ program' = program /\ frames' = frames /\ curFunc' = curFunc
        /\ curFunc = <<>> \/ program.lang = "python" => localTypes' = localTypes
    BY <1>2 DEF PassStep, RegisterStep, MoveOn, KeepsScope
  <2> QED BY <1>1, <2>1 DEF TypesInv, NoneTyped, Empty
<1>3. CASE EnterStep
  <2>1. /\ program' = program /\ frames' = Append(frames, Frame)
        /\ curFunc' = IF Here.is = "func" THEN NameIn(program, file, at) ELSE curFunc
        /\ Here.is # "func" \/ program.lang = "python" => localTypes' = localTypes
        /\ phase = "walk" /\ at <= Len(NodesIn(program, file))
    BY <1>3 DEF EnterStep, MoveOn
  <2>2. IsList(frames)
    BY <2>1 DEF FramesInv, Mirrors
  <2>3. /\ DOMAIN frames' = 1..Len(frames) + 1 /\ DOMAIN frames = 1..Len(frames)
        /\ \A k \in 1..Len(frames) : frames'[k] = frames[k]
        /\ frames'[Len(frames) + 1] = Frame /\ Len(frames) \in Nat
    BY <2>1, <2>2, ListGrows
  <2>4. Frame.curFunc = curFunc /\ Frame.localTypes = localTypes
    BY DEF Frame
  <2> HIDE DEF Frame
  <2>5. ASSUME NEW k \in DOMAIN frames', frames'[k].curFunc = <<>>
        PROVE  frames'[k].localTypes = Empty
    <3>1. CASE k = Len(frames) + 1
      BY <1>1, <2>3, <2>4, <2>5, <3>1
    <3>2. CASE k # Len(frames) + 1
      <4>1. k \in DOMAIN frames /\ frames'[k] = frames[k]
        BY <2>3, <3>2
      <4> QED BY <1>1, <2>5, <4>1 DEF NoneTyped
    <3> QED BY <3>1, <3>2
  <2>6. ASSUME Here.is = "func" PROVE NameIn(program, file, at) # <<>>
    <3>1. IsFunc(program, file, at)
      BY <2>1, <2>6, HereProperties DEF IsFunc, Here
    <3> QED BY <3>1, HereProperties, NameNotEmpty
  <2>7. NoneTyped(frames)'
    BY <2>5 DEF NoneTyped, Empty
  <2>8. curFunc' = <<>> => localTypes' = Empty
    BY <1>1, <2>1, <2>6
  <2>9. program.lang = "python" => localTypes' = Empty
    BY <1>1, <2>1
  <2> QED BY <2>1, <2>7, <2>8, <2>9 DEF TypesInv, Empty
<1>4. CASE LeaveStep
  <2>1. /\ program' = program /\ frames' = Front(frames) /\ phase = "walk"
        /\ at <= Len(NodesIn(program, file)) /\ NodesIn(program, file)[at].is = "end"
    BY <1>4 DEF LeaveStep, MoveOn, Here
  <2>2. /\ \/ curFunc' = Last(frames).curFunc /\ localTypes' = Last(frames).localTypes
           \/ (curFunc' = curFunc \/ program.lang = "python") /\ localTypes' = localTypes
        /\ program.lang = "python" => localTypes' = localTypes
    BY <1>4, Zenon DEF LeaveStep
  <2>3. IsList(frames) /\ frames # <<>>
    <3>1. at \in 1..Len(NodesIn(program, file)) /\ GoodProgram(program) /\ file \in DOMAIN program.files
      BY <2>1, HereProperties
    <3>2. Mirrors(program, file, at, frames)
      BY <2>1 DEF FramesInv
    <3>3. PICK m \in 1..Len(NodesIn(program, file)) :
                OneMoreAround(program, file, at, m) /\ SameAround(program, file, at + 1, m)
      BY <2>1, <3>1, AfterEnd
    <3>4. frames # <<>>
      BY <3>1, <3>2, <3>3, MirrorsShrinks
    <3> QED BY <3>2, <3>4 DEF Mirrors
  <2>4. /\ DOMAIN frames = 1..Len(frames) /\ DOMAIN frames' = 1..Len(frames) - 1
        /\ \A k \in 1..Len(frames) - 1 : frames'[k] = frames[k]
        /\ Last(frames) = frames[Len(frames)] /\ Len(frames) \in Nat \ {0}
    BY <2>1, <2>3, ListShrinks
  <2>5. NoneTyped(frames)'
    <3>1. \A k \in DOMAIN frames' : k \in DOMAIN frames /\ frames'[k] = frames[k]
      BY <2>4
    <3> QED BY <1>1, <3>1 DEF NoneTyped, Empty
  <2>6. Last(frames).curFunc = <<>> => Last(frames).localTypes = Empty
    BY <1>1, <2>4 DEF NoneTyped
  <2>7. curFunc' = <<>> => localTypes' = Empty
    BY <1>1, <2>2, <2>6
  <2> QED BY <1>1, <2>1, <2>2, <2>5, <2>7 DEF TypesInv, Empty
<1>5. CASE FileStep
  <2>1. program' = program /\ frames' = <<>> /\ localTypes' = Empty
    BY <1>5 DEF FileStep
  <2>2. NoneTyped(frames)'
    BY <2>1 DEF NoneTyped, Empty
  <2> QED BY <2>1, <2>2 DEF TypesInv, Empty
<1> QED BY <1>2, <1>3, <1>4, <1>5 DEF Steps

LEMMA PackageKept ==
    ASSUME PlaceInv, PackageInv, Steps PROVE PackageInv'
<1> DEFINE p == program
           nodes == NodesIn(p, file)
           P == PackagesIn(nodes)
<1> SUFFICES ASSUME p'.lang = "java", phase' = "walk"
             PROVE  pkg' = PackageBefore(p', file', at')
  BY DEF PackageInv
<1>1. p' = p
  BY DEF Steps, PassStep, RegisterStep, EnterStep, LeaveStep, FileStep, MoveOn
<1>2. \A j \in P : j \in 1..Len(nodes) /\ nodes[j].is = "package"
  BY HereProperties DEF PackagesIn
<1>3. CASE PassStep \/ EnterStep \/ LeaveStep
  <2>1. /\ phase = "walk" /\ file' = file /\ at' = at + 1 /\ at <= Len(nodes)
        /\ pkg' = IF nodes[at].is = "package" THEN nodes[at].path ELSE pkg
    <3>1. CASE PassStep
      BY <1>1, <3>1 DEF PassStep, MoveOn, Here
    <3>2. CASE EnterStep
      BY <3>2 DEF EnterStep, MoveOn, Here, Opens
    <3>3. CASE LeaveStep
      BY <3>3 DEF LeaveStep, MoveOn, Here
    <3> QED BY <1>3, <3>1, <3>2, <3>3
  <2>2. at \in 1..Len(nodes) /\ at \in DOMAIN nodes /\ Len(nodes) \in Nat
    BY <2>1, HereProperties
  <2>3. pkg = IF \E j \in P : j < at THEN PackageIn(p, file) ELSE <<>>
    BY <1>1, <2>1 DEF PackageInv, PackageBefore
  <2>4. PackageBefore(p', file', at') = IF \E j \in P : j < at + 1 THEN PackageIn(p, file) ELSE <<>>
    BY <1>1, <2>1 DEF PackageBefore
  <2>5. CASE nodes[at].is = "package"
    <3>1. IsText("java", nodes)
      BY <1>1, HereProperties, ProgramFiles
    <3>2. \A j \in P : \A k \in 1..j - 1 : nodes[k].is = "comment"
      BY <1>2, <3>1, HereProperties DEF IsText
    <3>3. at \in P
      BY <2>2, <2>5 DEF PackagesIn
    <3>4. \A j \in P : j = at
      <4> TAKE j \in P
      <4>1. j \in 1..Len(nodes) /\ nodes[j].is = "package"
        BY <1>2
      <4>2. j \notin 1..at - 1 /\ at \notin 1..j - 1
        BY <2>5, <3>2, <3>3, <4>1
      <4> QED BY <2>2, <4>1, <4>2
    <3>5. P = {at}
      BY <3>3, <3>4
    <3>6. Max(P) = at
      <4>1. P \in SUBSET (0..at) /\ P # {} /\ at \in Nat
        BY <2>2, <3>5
      <4>2. Max(P) \in P
        BY <4>1, MaxIsAmong
      <4> QED BY <3>5, <4>2
    <3>7. PackageIn(p, file) = nodes[at].path
      BY <3>5, <3>6 DEF PackageIn
    <3>8. \E j \in P : j < at + 1
      BY <2>2, <3>3
    <3> QED BY <2>1, <2>4, <2>5, <3>7, <3>8
  <2>6. CASE nodes[at].is # "package"
    <3>1. \A j \in P : j < at + 1 <=> j < at
      BY <1>2, <2>2, <2>6
    <3> HIDE DEF P
    <3> QED BY <2>1, <2>3, <2>4, <2>6, <3>1
  <2> QED BY <2>5, <2>6
<1>4. CASE RegisterStep
  BY <1>4 DEF RegisterStep, MoveOn
<1>5. CASE FileStep
  <2>1. pkg' = <<>> /\ at' = 1
    BY <1>5 DEF FileStep
  <2>2. file' \in DOMAIN p.files
    BY <1>5, HereProperties DEF FileStep
  <2>3. \A j \in PackagesIn(NodesIn(p, file')) : ~(j < 1)
    <3>1. IsList(NodesIn(p, file'))
      BY <2>2, HereProperties, ProgramFiles
    <3>2. DOMAIN NodesIn(p, file') = 1..Len(NodesIn(p, file')) /\ Len(NodesIn(p, file')) \in Nat
      BY <3>1, PlacesProperties
    <3> QED BY <3>2 DEF PackagesIn
  <2> QED BY <1>1, <2>1, <2>3 DEF PackageBefore
<1> QED BY <1>3, <1>4, <1>5 DEF Steps

(* Registering adds one name. *)
LEMMA Registering ==
    ASSUME Registers, NEW name, name = NameIn(program, file, at)
    PROVE  /\ DOMAIN funcs' = DOMAIN funcs \cup {name}
           /\ funcs'[name].file = file /\ funcs'[name].at = at
           /\ \A x \in DOMAIN funcs : x # name => funcs'[x] = funcs[x]
<1>1. PICK info : funcs' = Bind(funcs, name, [file |-> file, at |-> at, info |-> info])
  BY DEF Registers
<1> DEFINE entry == [file |-> file, at |-> at, info |-> info]
<1>2. entry.file = file /\ entry.at = at
  OBVIOUS
<1>3. funcs' = Bind(funcs, name, entry)
  BY <1>1
<1> HIDE DEF entry
<1>4. funcs' = [x \in DOMAIN funcs \cup {name} |-> IF x = name THEN entry ELSE funcs[x]]
  BY <1>3 DEF Bind
<1> QED BY <1>2, <1>4

LEMMA FuncsGrow ==
    ASSUME Steps PROVE funcs' = funcs \/ (Here.is = "func" /\ MoveOn /\ Registers)
BY DEF Steps, PassStep, RegisterStep, EnterStep, LeaveStep, FileStep

LEMMA NamesKept ==
    ASSUME Steps PROVE DOMAIN funcs \subseteq DOMAIN funcs'
<1>1. CASE funcs' = funcs
  BY <1>1
<1>2. CASE Registers
  BY <1>2, Registering
<1> QED BY <1>1, <1>2, FuncsGrow

LEMMA EntriesKept ==
    ASSUME PlaceInv, EntriesInv, Steps PROVE EntriesInv'
<1>1. program' = program
  BY DEF Steps, PassStep, RegisterStep, EnterStep, LeaveStep, FileStep, MoveOn
<1>2. CASE funcs' = funcs
  BY <1>1, <1>2 DEF EntriesInv
<1>3. CASE Here.is = "func" /\ MoveOn /\ Registers
  <2> DEFINE name == NameIn(program, file, at)
  <2>1. IsFunc(program, file, at)
    BY <1>3, HereProperties DEF IsFunc, Here, MoveOn
  <2>2. /\ DOMAIN funcs' = DOMAIN funcs \cup {name}
        /\ funcs'[name].file = file /\ funcs'[name].at = at
        /\ \A x \in DOMAIN funcs : x # name => funcs'[x] = funcs[x]
    BY <1>3, Registering
  <2>3. ASSUME NEW fqn \in DOMAIN funcs'
        PROVE  /\ IsFunc(program, funcs'[fqn].file, funcs'[fqn].at)
               /\ fqn = NameIn(program, funcs'[fqn].file, funcs'[fqn].at)
    <3>1. CASE fqn = name
      BY <2>1, <2>2, <3>1
    <3>2. CASE fqn # name
      <4>1. fqn \in DOMAIN funcs /\ funcs'[fqn] = funcs[fqn]
        BY <2>2, <3>2
      <4> QED BY <4>1 DEF EntriesInv
    <3> QED BY <3>1, <3>2
  <2> QED BY <1>1, <2>3 DEF EntriesInv
<1> QED BY <1>2, <1>3, FuncsGrow

(* A function the walk has come by, now or before. *)
LEMMA RegisteredKept ==
    ASSUME PlaceInv, RegisteredInv, Steps PROVE RegisteredInv'
<1>1. program' = program
  BY DEF Steps, PassStep, RegisterStep, EnterStep, LeaveStep, FileStep, MoveOn
<1> SUFFICES ASSUME NEW f \in DOMAIN program.files, NEW i \in DOMAIN NodesIn(program, f),
                    IsFunc(program, f, i), Passed(f, i)'
             PROVE  NameIn(program, f, i) \in DOMAIN funcs'
  BY <1>1 DEF RegisteredInv
<1>2. f \in 1..Len(program.files) /\ i \in Nat \ {0}
  <2>1. IsList(NodesIn(program, f))
    BY HereProperties, ProgramFiles
  <2>2. DOMAIN NodesIn(program, f) = 1..Len(NodesIn(program, f))
    BY <2>1, PlacesProperties
  <2> QED BY <2>2, HereProperties
<1>3. CASE Passed(f, i)
  BY <1>3, NamesKept DEF RegisteredInv
<1>4. CASE MoveOn /\ ~Passed(f, i)
  <2>1. /\ phase' = phase /\ file' = file /\ at' = at + 1
    BY <1>4 DEF MoveOn
  <2>2. f = file /\ i = at
    BY <1>1, <1>2, <1>4, <2>1, HereProperties DEF Passed
  <2>3. Here.is = "func"
    BY <2>2 DEF IsFunc, Here
  <2>4. ~(program.lang = "go" /\ phase = "walk") /\ phase # "done"
    BY <1>4 DEF Passed
  <2>5. CASE Registers
    BY <2>2, <2>5, Registering
  <2>6. CASE NameIn(program, file, at) \in DOMAIN funcs
    BY <2>2, <2>6, NamesKept
  <2>7. Registers \/ NameIn(program, file, at) \in DOMAIN funcs
    <3>1. ~PassStep /\ ~LeaveStep
      BY <2>3, HereProperties DEF PassStep, LeaveStep
    <3>2. ~FileStep
      BY <1>4, HereProperties DEF FileStep, MoveOn
    <3>3. RegisterStep \/ EnterStep
      BY <3>1, <3>2 DEF Steps
    <3> QED BY <2>3, <3>3 DEF RegisterStep, EnterStep
  <2> QED BY <2>5, <2>6, <2>7
<1>5. CASE FileStep
  <2>1. /\ phase # "done" /\ at > Len(NodesIn(program, file)) /\ at' = 1
        /\ IF file < Len(program.files) THEN file' = file + 1 /\ phase' = phase
           ELSE file' = 1 /\ phase' = IF phase = "discover" THEN "walk" ELSE "done"
    BY <1>5 DEF FileStep
  <2>2. f <= file => Passed(f, i)
    <3>1. f = file => i \in 1..Len(NodesIn(program, file))
      BY HereProperties
    <3>2. f = file => i < at
      BY <2>1, <3>1, HereProperties
    <3>3. f < file \/ f = file => Passed(f, i)
      BY <3>2 DEF Passed
    <3> QED BY <1>2, <3>3, HereProperties
  <2>3. CASE file < Len(program.files)
    <3>1. file' = file + 1 /\ phase' = phase
      BY <2>1, <2>3
    <3>2. Passed(f, i)
      BY <1>1, <1>2, <2>1, <2>2, <3>1, HereProperties DEF Passed
    <3> QED BY <1>3, <3>2
  <2>4. CASE ~(file < Len(program.files))
    <3>1. f <= file
      BY <1>2, <2>4, HereProperties
    <3> QED BY <1>3, <2>2, <3>1
  <2> QED BY <2>3, <2>4
<1> QED BY <1>3, <1>4, <1>5 DEF Steps, PassStep, RegisterStep, EnterStep, LeaveStep

(* The function a node is in has been registered when the node is reached. *)
LEMMA CurRegistered ==
    ASSUME PlaceInv, FramesInv, RegisteredInv PROVE curFunc \in DOMAIN funcs \cup {<<>>}
<1>1. CASE phase # "walk"
  BY <1>1 DEF FramesInv
<1>2. CASE phase = "walk"
  <2> DEFINE nodes == NodesIn(program, file)
             m == FuncIn(nodes, at)
  <2>1. curFunc = CurIn(program, file, at)
    BY <1>2 DEF FramesInv
  <2>2. IsList(nodes) /\ at \in 1..Len(nodes) + 1 /\ DOMAIN nodes = 1..Len(nodes)
          /\ at \in Nat /\ Len(nodes) \in Nat /\ file \in DOMAIN program.files
    <3>1. IsList(nodes)
      BY HereProperties, ProgramFiles
    <3> QED BY <3>1, HereProperties DEF PlaceInv
  <2>3. CASE m = 0
    BY <2>1, <2>3 DEF CurIn
  <2>4. CASE m # 0
    <3>1. m \in 1..at - 1 /\ nodes[m].is = "func"
      BY <2>2, <2>4, FuncInPlace
    <3>2. curFunc = NameIn(program, file, m)
      BY <2>1, <2>4 DEF CurIn
    <3> HIDE DEF m
    <3>3. m \in DOMAIN nodes /\ m < at
      BY <2>2, <3>1
    <3>4. IsFunc(program, file, m) /\ Passed(file, m)
      BY <2>2, <3>1, <3>3 DEF IsFunc, Passed
    <3> QED BY <2>2, <3>2, <3>3, <3>4 DEF RegisteredInv
  <2> QED BY <2>3, <2>4
<1> QED BY <1>1, <1>2

LEMMA SitesAdded ==
    ASSUME NEW s, IsList(s), NEW t, NEW f, NEW i, NEW caller, Adds(s, t, f, i, caller)
    PROVE  /\ IsList(t)
           /\ \A site \in Range(t) :
                  site \in Range(s) \/ (site.file = f /\ site.at = i /\ site.caller = caller)
<1>1. CASE t = s
  BY <1>1
<1>2. CASE \E site : t = Append(s, site) /\ site.file = f /\ site.at = i /\ site.caller = caller
  <2>1. PICK site : t = Append(s, site) /\ site.file = f /\ site.at = i /\ site.caller = caller
    BY <1>2
  <2>2. IsList(t) /\ Range(t) = Range(s) \cup {site}
    BY <2>1, ListGrows
  <2> QED BY <2>1, <2>2
<1> QED BY <1>1, <1>2 DEF Adds

LEMMA SitesKept ==
    ASSUME PlaceInv, FramesInv, RegisteredInv, SitesInv, Steps PROVE SitesInv'
<1>1. program' = program
  BY DEF Steps, PassStep, RegisterStep, EnterStep, LeaveStep, FileStep, MoveOn
<1>2. DOMAIN funcs \subseteq DOMAIN funcs'
  BY NamesKept
<1>3. CASE calls' = calls /\ fields' = fields
  BY <1>1, <1>2, <1>3 DEF SitesInv
<1>4. CASE PassStep /\ phase = "walk"
  <2>1. Adds(calls, calls', file, at, curFunc) /\ Adds(fields, fields', file, at, curFunc)
    BY <1>4 DEF PassStep
  <2>2. IsList(calls) /\ IsList(fields)
    BY DEF SitesInv
  <2>3. /\ IsList(calls') /\ IsList(fields')
        /\ \A site \in Range(calls') \cup Range(fields') :
               \/ site \in Range(calls) \cup Range(fields)
               \/ site.file = file /\ site.at = at /\ site.caller = curFunc
    <3>1. /\ IsList(calls')
          /\ \A site \in Range(calls') :
                 site \in Range(calls) \/ (site.file = file /\ site.at = at /\ site.caller = curFunc)
      BY <2>1, <2>2, SitesAdded
    <3>2. /\ IsList(fields')
          /\ \A site \in Range(fields') :
                 site \in Range(fields) \/ (site.file = file /\ site.at = at /\ site.caller = curFunc)
      BY <2>1, <2>2, SitesAdded
    <3> QED BY <3>1, <3>2
  <2>4. /\ file \in DOMAIN program.files /\ at \in DOMAIN NodesIn(program, file)
        /\ curFunc = CurIn(program, file, at)
    BY <1>4, HereProperties DEF PassStep, MoveOn, FramesInv
  <2>5. curFunc \in DOMAIN funcs \cup {<<>>}
    BY CurRegistered
  <2>6. ASSUME NEW site \in Range(calls') \cup Range(fields')
        PROVE  InPlace(program, site) /\ site.caller \in DOMAIN funcs' \cup {<<>>}
    <3>1. CASE site \in Range(calls) \cup Range(fields)
      BY <1>2, <3>1 DEF SitesInv
    <3>2. CASE site.file = file /\ site.at = at /\ site.caller = curFunc
      BY <1>2, <2>4, <2>5, <3>2 DEF InPlace
    <3> QED BY <2>3, <3>1, <3>2
  <2> QED BY <1>1, <2>3, <2>6 DEF SitesInv
<1>5. (calls' = calls /\ fields' = fields) \/ (PassStep /\ phase = "walk")
  BY DEF Steps, PassStep, RegisterStep, EnterStep, LeaveStep, FileStep
<1> QED BY <1>3, <1>4, <1>5

-----------------------------------------------------------------------------
LEMMA InitInv == Init => IInv
<1> SUFFICES ASSUME Init PROVE IInv
  OBVIOUS
<1>1. /\ program \in Programs /\ program.lang \in Languages
      /\ phase = (IF program.lang = "go" THEN "discover" ELSE "walk") /\ file = 1 /\ at = 1
      /\ frames = <<>> /\ scope = <<>> /\ curFunc = <<>> /\ pkg = <<>>
      /\ localTypes = Empty /\ funcs = Empty /\ calls = <<>> /\ fields = <<>>
  <2>1. CASE Py!Init
    BY <2>1 DEF Py!Init, Py!WalkInit, Py!Empty, Empty, Languages
  <2>2. CASE Java!Init
    BY <2>2 DEF Java!Init, Java!WalkInit, Java!Empty, Empty, Languages
  <2>3. CASE TS!Init
    BY <2>3 DEF TS!Init, TS!WalkInit, TS!Empty, Empty, Languages
  <2>4. CASE Go!Init
    BY <2>4 DEF Go!Init, Go!WalkInit, Go!Empty, Empty, Languages
  <2> QED BY <2>1, <2>2, <2>3, <2>4 DEF Init
<1>2. GoodProgram(program)
  BY <1>1, ProgramsAssumption DEF GoodProgram
<1>3. DOMAIN program.files = 1..Len(program.files) /\ Len(program.files) \in Nat \ {0}
  BY <1>2, ProgramFiles
<1>4. file \in DOMAIN program.files /\ 1 \in DOMAIN program.files
  BY <1>1, <1>3
<1>5. /\ Len(NodesIn(program, 1)) \in Nat
      /\ DOMAIN NodesIn(program, 1) = 1..Len(NodesIn(program, 1))
  BY <1>2, <1>4, ProgramFiles, PlacesProperties
<1>6. PlaceInv
  <2>1. at \in 1..Len(NodesIn(program, file)) + 1
    BY <1>1, <1>5
  <2> QED BY <1>1, <1>4, <2>1 DEF PlaceInv
<1>7. FramesInv
  <2>1. /\ Mirrors(program, 1, 1, <<>>) /\ ScopeIn(program, 1, 1) = <<>>
        /\ CurIn(program, 1, 1) = <<>>
    BY <1>2, <1>4, NothingAround
  <2>2. Len(scope) <= Len(frames)
    BY <1>1, EmptySeq
  <2> QED BY <1>1, <2>1, <2>2 DEF FramesInv
<1>8. TypesInv
  BY <1>1 DEF TypesInv, NoneTyped
<1>9. PackageInv
  <2>1. \A j \in PackagesIn(NodesIn(program, 1)) : ~(j < 1)
    BY <1>5 DEF PackagesIn
  <2> QED BY <1>1, <2>1 DEF PackageInv, PackageBefore
<1>10. RegisteredInv
  <2> SUFFICES ASSUME NEW f \in DOMAIN program.files, NEW i \in DOMAIN NodesIn(program, f),
                      Passed(f, i)
               PROVE  FALSE
    BY DEF RegisteredInv
  <2>1. f \in 1..Len(program.files)
    BY <1>3
  <2>2. f = 1 => i \in 1..Len(NodesIn(program, 1))
    BY <1>5
  <2> QED BY <1>1, <1>3, <1>5, <2>1, <2>2 DEF Passed
<1>11. EntriesInv
  BY <1>1 DEF EntriesInv, Empty
<1>12. SitesInv
  <2>1. IsList(<<>>) /\ Range(<<>>) = {}
    BY EmptySeq DEF IsList, Range
  <2> QED BY <1>1, <2>1 DEF SitesInv
<1> QED BY <1>6, <1>7, <1>8, <1>9, <1>10, <1>11, <1>12 DEF IInv

LEMMA NextInv == IInv /\ [Next]_vars => IInv'
<1> SUFFICES ASSUME IInv, [Next]_vars PROVE IInv'
  OBVIOUS
<1>1. /\ PlaceInv /\ FramesInv /\ TypesInv /\ PackageInv
      /\ RegisteredInv /\ EntriesInv /\ SitesInv
  BY DEF IInv
<1>2. CASE Next
  <2>1. Steps
    <3>1. CASE program.lang = "python" /\ Py!Next
      BY <1>1, <3>1, PythonSteps
    <3>2. CASE program.lang = "java" /\ Java!Next
      BY <1>1, <3>2, JavaSteps
    <3>3. CASE program.lang = "typescript" /\ TS!Next
      BY <1>1, <3>3, TypeScriptSteps
    <3>4. CASE program.lang = "go" /\ Go!Next
      BY <1>1, <3>4, GoSteps
    <3> QED BY <1>2, <3>1, <3>2, <3>3, <3>4 DEF Next
  <2>2. PlaceInv' /\ FramesInv' /\ TypesInv' /\ PackageInv'
    BY <1>1, <2>1, PlaceKept, FramesKept, TypesKept, PackageKept
  <2>3. RegisteredInv' /\ EntriesInv' /\ SitesInv'
    BY <1>1, <2>1, RegisteredKept, EntriesKept, SitesKept
  <2> QED BY <2>2, <2>3 DEF IInv
<1>3. CASE UNCHANGED vars
  <2>1. /\ program' = program /\ phase' = phase /\ file' = file /\ at' = at
        /\ frames' = frames /\ scope' = scope /\ curFunc' = curFunc /\ localTypes' = localTypes
        /\ pkg' = pkg /\ funcs' = funcs /\ calls' = calls /\ fields' = fields
    BY <1>3 DEF vars, extractor, graph
  <2>2. PlaceInv' /\ FramesInv'
    BY <1>1, <2>1 DEF PlaceInv, FramesInv
  <2>3. TypesInv' /\ PackageInv'
    BY <1>1, <2>1 DEF TypesInv, NoneTyped, PackageInv, Empty
  <2>4. RegisteredInv'
    BY <1>1, <2>1 DEF RegisteredInv, Passed
  <2>5. EntriesInv' /\ SitesInv'
    BY <1>1, <2>1 DEF EntriesInv, SitesInv
  <2> QED BY <2>2, <2>3, <2>4, <2>5 DEF IInv
<1> QED BY <1>2, <1>3

(* A function is under way just when one of the frames is a function's. *)
LEMMA CurFramed ==
    ASSUME PlaceInv, FramesInv
    PROVE  (curFunc # <<>>) = \E k \in DOMAIN frames : frames[k].is = "func"
<1> DEFINE nodes == NodesIn(program, file)
           a == AroundIn(nodes, at, Opens)
           m == FuncIn(nodes, at)
<1>1. CASE phase # "walk"
  <2>1. frames = <<>> /\ curFunc = <<>>
    BY <1>1 DEF FramesInv
  <2>2. DOMAIN frames = {}
    BY <2>1
  <2> QED BY <2>1, <2>2
<1>2. CASE phase = "walk"
  <2>1. /\ curFunc = CurIn(program, file, at) /\ IsList(frames) /\ Len(frames) = Len(a)
        /\ \A k \in 1..Len(a) : frames[k].is = nodes[a[k]].is
    BY <1>2 DEF FramesInv, Mirrors, Saves
  <2>2. /\ GoodProgram(program) /\ file \in DOMAIN program.files /\ IsList(nodes)
        /\ at \in 1..Len(nodes) + 1
    BY HereProperties, ProgramFiles DEF PlaceInv
  <2>3. Range(a) = InsideOf(nodes, at, Opens) /\ a \in Seq(Nat)
    BY <2>2, AroundProperties
  <2>4. DOMAIN frames = 1..Len(a) /\ Range(a) = {a[k] : k \in 1..Len(a)}
    <3>1. DOMAIN frames = 1..Len(frames)
      BY <2>1, LenProperties DEF IsList
    <3> HIDE DEF a
    <3> QED BY <2>1, <2>3, <3>1, RangeEquality
  <2>5. (\E k \in DOMAIN frames : frames[k].is = "func") <=> InsideOf(nodes, at, {"func"}) # {}
    <3>1. "func" \in Opens
      BY DEF Opens
    <3>2. \A j : j \in InsideOf(nodes, at, {"func"})
                    <=> j \in InsideOf(nodes, at, Opens) /\ nodes[j].is = "func"
      BY <3>1 DEF InsideOf
    <3> HIDE DEF a
    <3>3. \A j : j \in InsideOf(nodes, at, Opens) <=> \E k \in 1..Len(a) : j = a[k]
      BY <2>3, <2>4
    <3>4. ASSUME NEW k \in DOMAIN frames, frames[k].is = "func"
          PROVE  InsideOf(nodes, at, {"func"}) # {}
      <4>1. k \in 1..Len(a) /\ nodes[a[k]].is = "func"
        BY <2>1, <2>4, <3>4
      <4>2. a[k] \in InsideOf(nodes, at, {"func"})
        BY <3>2, <3>3, <4>1
      <4> QED BY <4>2
    <3>5. ASSUME InsideOf(nodes, at, {"func"}) # {}
          PROVE  \E k \in DOMAIN frames : frames[k].is = "func"
      <4>1. PICK j : j \in InsideOf(nodes, at, {"func"})
        BY <3>5
      <4>2. PICK k \in 1..Len(a) : j = a[k]
        BY <3>2, <3>3, <4>1
      <4>3. nodes[a[k]].is = "func"
        BY <3>2, <4>1, <4>2
      <4> QED BY <2>1, <2>4, <4>2, <4>3
    <3> QED BY <3>4, <3>5
  <2>6. /\ m = 0 <=> InsideOf(nodes, at, {"func"}) = {}
        /\ m # 0 => m \in 1..at - 1 /\ nodes[m].is = "func"
    BY <2>2, FuncInPlace
  <2>7. curFunc # <<>> <=> m # 0
    <3>1. CASE m = 0
      BY <2>1, <3>1 DEF CurIn
    <3>2. CASE m # 0
      <4>1. m \in DOMAIN nodes
        <5>1. DOMAIN nodes = 1..Len(nodes) /\ Len(nodes) \in Nat /\ at \in Nat
          BY HereProperties
        <5>2. m \in 1..at - 1
          BY <2>6, <3>2
        <5> HIDE DEF m, nodes
        <5> QED BY <2>2, <5>1, <5>2
      <4>2. IsFunc(program, file, m)
        BY <2>2, <2>6, <3>2, <4>1 DEF IsFunc
      <4>3. NameIn(program, file, m) # <<>>
        BY <2>2, <4>2, NameNotEmpty
      <4> QED BY <2>1, <3>2, <4>3 DEF CurIn
    <3> QED BY <3>1, <3>2
  <2> QED BY <2>5, <2>6, <2>7
<1> QED BY <1>1, <1>2

LEMMA TypesCorrect ==
    ASSUME IInv PROVE TypeOK
<1>1. /\ PlaceInv /\ FramesInv /\ TypesInv /\ RegisteredInv /\ SitesInv
  BY DEF IInv
<1>2. phase \in {"discover", "walk", "done"} /\ file \in DOMAIN program.files
  BY <1>1 DEF PlaceInv
<1>3. at \in 1..Len(Nodes(file)) + 1
  BY <1>1 DEF PlaceInv, NodesIn, Nodes
<1>4. Len(scope) <= Len(frames)
  BY <1>1 DEF FramesInv
<1>5. (curFunc # <<>>) = \E k \in DOMAIN frames : frames[k].is = "func"
  BY <1>1, CurFramed
<1>6. curFunc = <<>> => localTypes = Empty
  BY <1>1 DEF TypesInv
<1>7. curFunc # <<>> => curFunc \in DOMAIN funcs
  BY <1>1, CurRegistered
<1>8. /\ \A i \in DOMAIN calls : calls[i].caller \in DOMAIN funcs \cup {<<>>}
      /\ \A i \in DOMAIN fields : fields[i].caller \in DOMAIN funcs \cup {<<>>}
  BY <1>1 DEF SitesInv, Range
<1> QED BY <1>2, <1>3, <1>4, <1>5, <1>6, <1>7, <1>8, Zenon DEF TypeOK

LEMMA FuncAroundIn ==
    ASSUME NEW f, NEW i, program.lang \in Languages, IsList(NodesIn(program, f)),
           i \in 1..Len(NodesIn(program, f)) + 1, NEW m, m = FuncIn(NodesIn(program, f), i)
    PROVE  /\ m = 0 => FuncAround(f, i) = {}
           /\ m # 0 => FuncAround(f, i) = {m} /\ Max(FuncAround(f, i)) = m
<1> DEFINE nodes == NodesIn(program, f)
           F == InsideOf(nodes, i, {"func"})
<1>1. FuncAround(f, i) = IF F = {} THEN {} ELSE {Max(F)}
  BY DEF FuncAround, Nodes, NodesIn, InsideOf
<1>2. m = IF F = {} THEN 0 ELSE Max(F)
  BY DEF FuncIn
<1>3. (m = 0 <=> F = {}) /\ (m # 0 => m \in Nat)
  BY FuncInPlace
<1> HIDE DEF F
<1>4. m # 0 => FuncAround(f, i) = {m}
  BY <1>1, <1>2, <1>3
<1>5. m # 0 => Max({m}) = m
  <2> SUFFICES ASSUME m # 0 PROVE Max({m}) = m
    OBVIOUS
  <2>1. m \in Nat /\ {m} \in SUBSET (0..m) /\ {m} # {}
    BY <1>3
  <2>2. Max({m}) \in {m}
    BY <2>1, MaxIsAmong
  <2> QED BY <2>2
<1> QED BY <1>1, <1>3, <1>4, <1>5

LEMMA PlacesCorrect ==
    ASSUME IInv PROVE GraphInPlace
<1>1. PlaceInv /\ EntriesInv /\ SitesInv
  BY DEF IInv
<1>2. GoodProgram(program) /\ program.lang \in Languages
  BY <1>1, HereProperties DEF GoodProgram
<1>3. ASSUME NEW fqn \in DOMAIN funcs
      PROVE  fqn = NameOf(funcs[fqn].file, funcs[fqn].at)
  <2>1. fqn = NameIn(program, funcs[fqn].file, funcs[fqn].at)
    BY <1>1 DEF EntriesInv
  <2>2. NamedAs(funcs[fqn].file, funcs[fqn].at)
    BY <1>2, NameOfIn
  <2> QED BY <2>1, <2>2 DEF NamedAs
<1>4. ASSUME NEW site \in Range(calls) \cup Range(fields)
      PROVE  site.caller = IF FuncAround(site.file, site.at) = {} THEN <<>>
                           ELSE NameOf(site.file, Max(FuncAround(site.file, site.at)))
  <2> DEFINE nodes == NodesIn(program, site.file)
             m == FuncIn(nodes, site.at)
  <2>1. /\ site.file \in DOMAIN program.files /\ site.at \in DOMAIN nodes
        /\ site.caller = CurIn(program, site.file, site.at)
    BY <1>1 DEF SitesInv, InPlace
  <2>2. IsList(nodes)
    BY <1>2, <2>1, ProgramFiles
  <2>3. site.at \in 1..Len(nodes) + 1
    <3>1. DOMAIN nodes = 1..Len(nodes) /\ Len(nodes) \in Nat
      BY <2>2, PlacesProperties
    <3> QED BY <2>1, <3>1
  <2>4. /\ m = 0 => FuncAround(site.file, site.at) = {}
        /\ m # 0 => /\ FuncAround(site.file, site.at) = {m}
                    /\ Max(FuncAround(site.file, site.at)) = m
    BY <1>2, <2>2, <2>3, FuncAroundIn
  <2>5. site.caller = IF m = 0 THEN <<>> ELSE NameIn(program, site.file, m)
    BY <2>1 DEF CurIn
  <2> HIDE DEF m
  <2>6. NameOf(site.file, m) = NameIn(program, site.file, m)
    BY <1>2, NameOfIn DEF NamedAs
  <2>7. CASE m = 0
    BY <2>4, <2>5, <2>7
  <2>8. CASE m # 0
    <3>1. FuncAround(site.file, site.at) # {}
      BY <2>4, <2>8
    <3>2. Max(FuncAround(site.file, site.at)) = m
      BY <2>4, <2>8
    <3> QED BY <2>5, <2>6, <2>8, <3>1, <3>2
  <2> QED BY <2>7, <2>8
<1> QED BY <1>3, <1>4 DEF GraphInPlace

(* The inductive invariant holds of every program the parsers hand over. *)
LEMMA GraphInvariant == Spec => []IInv
BY InitInv, NextInv, PTL DEF Spec

(* Every function an extractor registers has the name its place in the text  *)
(* gives it, and every call and attribute read it records has for caller the *)
(* function it is written in, or none at the top: whatever the language, the *)
(* files and the nesting (handleFunction in Python, handleMethod in Java,    *)
(* recordAndRecurse in TypeScript and Go, and the functions they defer).     *)
THEOREM GraphIsInPlace == Spec => []GraphInv
<1>1. IInv => GraphInv
  BY TypesCorrect, PlacesCorrect DEF GraphInv
<1> QED BY <1>1, GraphInvariant, PTL

LEMMA GoReads ==
    ASSUME IInv, program.lang = "go", phase = "walk", Go!Next PROVE UNCHANGED funcs
<1>1. PlaceInv /\ RegisteredInv
  BY DEF IInv
<1>2. ASSUME Go!recordAndRecurse PROVE funcs' = funcs
  <2>1. at <= Len(NodesIn(program, file)) /\ Here.is = "func"
    BY <1>2 DEF Go!recordAndRecurse, Go!Walking, Go!At, Go!Node, Go!Nodes, Here, NodesIn
  <2>2. /\ file \in DOMAIN program.files /\ at \in DOMAIN NodesIn(program, file)
    BY <1>1, <2>1, HereProperties
  <2>3. IsFunc(program, file, at) /\ Passed(file, at)
    BY <2>1, <2>2 DEF IsFunc, Passed, Here
  <2>4. NameIn(program, file, at) \in DOMAIN funcs
    BY <1>1, <2>2, <2>3 DEF RegisteredInv
  <2>5. Go!composeGoFuncFQN(Go!Node) = NameIn(program, file, at)
    BY SameGo DEF Go!composeGoFuncFQN, Go!Node, Go!Nodes, Go!modFQN, Go!goModuleFQN, NodesIn,
                  NameIn, ModuleIn, GoPackageIn, OwnNameIn
  <2> QED BY <1>2, <2>4, <2>5 DEF Go!recordAndRecurse
<1>3. ~Go!registerFunction
  BY DEF Go!registerFunction
<1>4. ASSUME \/ Go!handleImportSpec \/ Go!PassOver \/ Go!Leave \/ Go!recordShortVarDeclaration
             \/ Go!handleCall \/ Go!handleFieldAccess \/ Go!NextFile \/ Go!PassComment
      PROVE  funcs' = funcs
  BY <1>4 DEF Go!handleImportSpec, Go!PassOver, Go!Leave, Go!recordShortVarDeclaration,
              Go!handleCall, Go!handleFieldAccess, Go!NextFile, Go!PassComment, Go!graph
<1> QED BY <1>2, <1>3, <1>4 DEF Go!Next

(* Go's second pass finds every function it comes to registered by the first *)
(* and overwrites no entry, so a variable's type, inferred from the result   *)
(* of a function of any file, does not depend on the order of the files      *)
(* (discoverFile, recordAndRecurse).                                         *)
THEOREM SecondPass == Spec => SecondPassOnlyReads
<1>1. IInv /\ [Next]_vars =>
          [program.lang = "go" /\ phase = "walk" => UNCHANGED funcs]_vars
  <2> SUFFICES ASSUME IInv, Next, program.lang = "go", phase = "walk"
               PROVE  UNCHANGED funcs
    BY DEF vars
  <2>1. Go!Next
    BY DEF Next
  <2> QED BY <2>1, GoReads
<1> QED BY <1>1, GraphInvariant, PTL DEF Spec, SecondPassOnlyReads

-----------------------------------------------------------------------------
(* Directives.                                                              *)

(* s is the part of text of some length that comes after its first off      *)
(* elements.                                                                *)
PartOf(s, text, off, len) ==
    /\ s \in Seq(STRING) /\ Len(s) = len
    /\ \A k \in 1..len : s[k] = text[k + off]

LEMMA PartTail ==
    ASSUME NEW s, NEW text, NEW off \in Nat, NEW len \in Nat \ {0}, PartOf(s, text, off, len)
    PROVE  Head(s) = text[off + 1] /\ PartOf(Tail(s), text, off + 1, len - 1)
<1>1. s \in Seq(STRING) /\ Len(s) = len /\ s # <<>>
  BY EmptySeq DEF PartOf
<1>2. /\ Tail(s) \in Seq(STRING) /\ Len(Tail(s)) = len - 1
      /\ \A k \in 1..Len(Tail(s)) : Tail(s)[k] = s[k + 1]
  BY <1>1, HeadTailProperties
<1>3. Head(s) = s[1]
  BY <1>1
<1>4. \A k \in 1..len : s[k] = text[k + off]
  BY DEF PartOf
<1>5. s[1] = text[off + 1]
  BY <1>4
<1> DEFINE t == Tail(s)
<1> HIDE DEF t
<1>6. ASSUME NEW k \in 1..len - 1 PROVE t[k] = text[k + (off + 1)]
  <2>1. t[k] = s[k + 1]
    BY <1>2 DEF t
  <2>2. k + 1 \in 1..len /\ (k + 1) + off = k + (off + 1)
    OBVIOUS
  <2> QED BY <1>4, <2>1, <2>2
<1>7. PartOf(t, text, off + 1, len - 1)
  BY <1>2, <1>6 DEF PartOf, t
<1> QED BY <1>3, <1>5, <1>7 DEF t

LEMMA PartFront ==
    ASSUME NEW s, NEW text, NEW off \in Nat, NEW len \in Nat \ {0}, PartOf(s, text, off, len)
    PROVE  Last(s) = text[len + off] /\ PartOf(Front(s), text, off, len - 1)
<1>1. s \in Seq(STRING) /\ Len(s) = len /\ \A k \in 1..len : s[k] = text[k + off]
  BY DEF PartOf
<1>2. Last(s) = text[len + off]
  BY <1>1 DEF Last
<1> DEFINE m == len - 1
           t == SubSeq(s, 1, m)
<1>3. m \in Nat /\ 1 <= m + 1 /\ m <= Len(s) /\ m - 1 + 1 = m
  BY <1>1
<1>4. /\ t \in Seq(STRING) /\ Len(t) = m
      /\ \A k \in 1..m : t[k] = s[k]
  <2> HIDE DEF m
  <2>1. /\ SubSeq(s, 1, m) \in Seq(STRING) /\ Len(SubSeq(s, 1, m)) = m - 1 + 1
        /\ \A k \in 1..m - 1 + 1 : SubSeq(s, 1, m)[k] = s[1 + k - 1]
    BY <1>1, <1>3, SubSeqFacts
  <2> QED BY <1>3, <2>1
<1>5. t = Front(s)
  BY <1>1 DEF Front
<1> HIDE DEF t
<1>6. PartOf(t, text, off, len - 1)
  BY <1>1, <1>4 DEF PartOf
<1> QED BY <1>2, <1>5, <1>6

(* A name is a part of a list of its own just when it stands between        *)
(* commas or ends.                                                          *)
AloneAt(words, k) == /\ k = 1 \/ words[k - 1] = Comma
                     /\ k = Len(words) \/ words[k + 1] = Comma

(* What lies between a and b is what a comma or an end cuts off.            *)
Cuts(words, a, b) ==
    /\ a <= b
    /\ \A k \in a..b : words[k] # Comma
    /\ a = 1 \/ words[a - 1] = Comma
    /\ b = Len(words) \/ words[b + 1] = Comma

LEMMA PartsOfList ==
    ASSUME NEW words, NEW part
    PROVE  part \in SplitCleanCSV(words) <=>
               \E a, b \in DOMAIN words : Cuts(words, a, b) /\ part = SubSeq(words, a, b)
<1> DEFINE D == DOMAIN words
           ends == {r \in D \X D : Cuts(words, r[1], r[2])}
<1>1. SplitCleanCSV(words) = {SubSeq(words, r[1], r[2]) : r \in ends}
  BY Zenon DEF SplitCleanCSV, Cuts
<1>2. ASSUME NEW r \in ends
      PROVE  r[1] \in D /\ r[2] \in D /\ Cuts(words, r[1], r[2])
  <2> HIDE DEF D
  <2> QED OBVIOUS
<1>3. ASSUME NEW a \in D, NEW b \in D, Cuts(words, a, b)
      PROVE  \E r \in ends : r[1] = a /\ r[2] = b
  <2> HIDE DEF D
  <2> DEFINE r == <<a, b>>
  <2>1. r \in D \X D /\ r[1] = a /\ r[2] = b
    OBVIOUS
  <2> HIDE DEF r
  <2> QED BY <1>3, <2>1
<1> HIDE DEF ends, D
<1>4. part \in SplitCleanCSV(words) <=> \E r \in ends : part = SubSeq(words, r[1], r[2])
  BY <1>1, Zenon
<1>5. part \in SplitCleanCSV(words) <=>
          \E a, b \in D : Cuts(words, a, b) /\ part = SubSeq(words, a, b)
  <2>1. ASSUME NEW r \in ends, part = SubSeq(words, r[1], r[2])
        PROVE  \E a, b \in D : Cuts(words, a, b) /\ part = SubSeq(words, a, b)
    BY <1>2, <2>1, Zenon
  <2>2. ASSUME NEW a \in D, NEW b \in D, Cuts(words, a, b), part = SubSeq(words, a, b)
        PROVE  \E r \in ends : part = SubSeq(words, r[1], r[2])
    <3>1. PICK r \in ends : r[1] = a /\ r[2] = b
      BY <1>3, <2>2, Zenon
    <3> QED BY <2>2, <3>1, Zenon
  <2> QED BY <1>4, <2>1, <2>2, Zenon
<1> QED BY <1>5 DEF D

LEMMA CutsOne ==
    ASSUME NEW S, NEW words \in Seq(S), NEW k \in 1..Len(words)
    PROVE  SubSeq(words, k, k) = <<words[k]>>
<1> DEFINE t == SubSeq(words, k, k)
<1>1. k \in Nat \ {0} /\ k <= k + 1 /\ k <= Len(words) /\ k - k + 1 = 1 /\ k + 1 - 1 = k
  BY LenProperties
<1>2. t \in Seq(S) /\ Len(t) = 1 /\ t[1] = words[k]
  <2>1. /\ t \in Seq(S) /\ Len(t) = k - k + 1
        /\ \A i \in 1..k - k + 1 : t[i] = words[k + i - 1]
    BY <1>1, SubSeqFacts
  <2> HIDE DEF t
  <2> QED BY <1>1, <2>1
<1> HIDE DEF t
<1>3. t = <<words[k]>>
  BY <1>2
<1> QED BY <1>3 DEF t

LEMMA CutToOne ==
    ASSUME NEW S, NEW words \in Seq(S), NEW a \in 1..Len(words), NEW b \in 1..Len(words), a <= b,
           NEW x, <<x>> = SubSeq(words, a, b)
    PROVE  a = b /\ words[a] = x
<1> DEFINE t == SubSeq(words, a, b)
<1>1. Len(words) \in Nat
  BY LenProperties
<1>2. a \in Nat \ {0} /\ b \in Nat /\ a <= b + 1 /\ b <= Len(words) /\ 1 \in 1..b - a + 1
  BY <1>1
<1>3. Len(t) = b - a + 1 /\ t[1] = words[a + 1 - 1]
  BY <1>2, SubSeqFacts
<1>4. t = <<x>>
  OBVIOUS
<1> HIDE DEF t
<1>5. Len(t) = 1 /\ t[1] = x
  BY <1>4
<1> QED BY <1>2, <1>3, <1>5

LEMMA AloneInList ==
    ASSUME NEW words \in Seq(STRING), NEW name, name # Comma
    PROVE  <<name>> \in SplitCleanCSV(words) <=>
               \E k \in 1..Len(words) : words[k] = name /\ AloneAt(words, k)
<1>1. DOMAIN words = 1..Len(words)
  BY LenProperties
<1>2. ASSUME NEW k \in 1..Len(words), words[k] = name, AloneAt(words, k)
      PROVE  Cuts(words, k, k) /\ <<name>> = SubSeq(words, k, k)
  <2>1. <<name>> = SubSeq(words, k, k)
    BY <1>2, CutsOne
  <2>2. k \in Int /\ k <= k /\ \A l \in k..k : l = k
    OBVIOUS
  <2>3. Cuts(words, k, k)
    BY <1>2, <2>2 DEF AloneAt, Cuts
  <2> QED BY <2>1, <2>3
<1>3. ASSUME NEW a \in 1..Len(words), NEW b \in 1..Len(words), Cuts(words, a, b),
             <<name>> = SubSeq(words, a, b)
      PROVE  words[a] = name /\ AloneAt(words, a)
  <2>1. a <= b
    BY <1>3 DEF Cuts
  <2>2. a = b /\ words[a] = name
    BY <1>3, <2>1, CutToOne
  <2>3. AloneAt(words, a)
    BY <1>3, <2>2, Zenon DEF Cuts, AloneAt
  <2> QED BY <2>2, <2>3
<1>4. <<name>> \in SplitCleanCSV(words) <=>
          \E a, b \in DOMAIN words : Cuts(words, a, b) /\ <<name>> = SubSeq(words, a, b)
  BY PartsOfList
<1> QED BY <1>1, <1>2, <1>3, <1>4, Zenon

(* Where the words of a directive end: before the closing marker, if any.   *)
LastWord(text) == IF Last(text) = "*/" THEN Len(text) - 1 ELSE Len(text)

LEMMA StrippedPart ==
    ASSUME NEW text \in Seq(STRING), text # <<>>, text[1] \in {"//", "/*", "#"}
    PROVE  /\ LastWord(text) \in Nat \ {0}
           /\ PartOf(Stripped(text), text, 1, LastWord(text) - 1)
<1> DEFINE n == Len(text)
           body == Tail(text)
<1>1. n \in Nat \ {0} /\ PartOf(text, text, 0, n)
  <2>1. n \in Nat \ {0}
    BY EmptySeq
  <2>2. \A k \in 1..n : text[k] = text[k + 0]
    BY <2>1
  <2> QED BY <2>1, <2>2 DEF PartOf
<1>2. Head(text) = text[1] /\ PartOf(body, text, 1, n - 1)
  <2>1. Head(text) = text[0 + 1] /\ PartOf(body, text, 0 + 1, n - 1)
    <3> HIDE DEF n
    <3> QED BY <1>1, PartTail
  <2> QED BY <2>1
<1>3. Last(text) = text[n]
  BY DEF Last
<1>4. Stripped(text) = IF body # <<>> /\ Last(body) = "*/" THEN Front(body) ELSE body
  BY <1>2, Zenon DEF Stripped
<1> HIDE DEF body, n
<1>5. body \in Seq(STRING) /\ Len(body) = n - 1
  BY <1>2 DEF PartOf
<1>6. CASE n = 1
  <2>1. body = <<>>
    BY <1>5, <1>6, EmptySeq
  <2>2. text[n] # "*/"
    BY <1>6
  <2>3. LastWord(text) = n
    BY <1>3, <2>2 DEF LastWord, n
  <2> QED BY <1>1, <1>2, <1>4, <2>1, <2>3
<1>7. CASE n # 1
  <2>1. n - 1 \in Nat \ {0} /\ (n - 1) + 1 = n /\ (n - 1) - 1 = n - 2
    BY <1>1, <1>7
  <2>2. body # <<>>
    BY <1>5, <2>1, EmptySeq
  <2>3. Last(body) = text[(n - 1) + 1] /\ PartOf(Front(body), text, 1, (n - 1) - 1)
    BY <1>2, <2>1, PartFront
  <2>4. CASE text[n] = "*/"
    <3>1. LastWord(text) = n - 1
      BY <1>3, <2>4 DEF LastWord, n
    <3>2. Stripped(text) = Front(body)
      BY <1>4, <2>1, <2>2, <2>3, <2>4
    <3> QED BY <2>1, <2>3, <3>1, <3>2
  <2>5. CASE text[n] # "*/"
    <3>1. LastWord(text) = n
      BY <1>3, <2>5 DEF LastWord, n
    <3>2. Stripped(text) = body
      BY <1>4, <2>1, <2>3, <2>5
    <3> QED BY <1>1, <1>2, <3>1, <3>2
  <2> QED BY <2>4, <2>5
<1> QED BY <1>6, <1>7

(* Any other text, as long as it does not begin with the directive's word.  *)
LEMMA StrippedOther ==
    ASSUME NEW text \in Seq(STRING), text # <<>>, text[1] \notin {"//", "/*", "#"},
           text[1] # "policyguard:"
    PROVE  ParseSuppression(text) = {}
<1> DEFINE n == Len(text)
           body == Stripped(text)
<1>1. n \in Nat \ {0} /\ PartOf(text, text, 0, n) /\ Head(text) = text[1]
  <2>1. n \in Nat \ {0}
    BY EmptySeq
  <2>2. \A k \in 1..n : text[k] = text[k + 0]
    BY <2>1
  <2> QED BY <2>1, <2>2 DEF PartOf
<1>2. body = text \/ body = Front(text)
  BY <1>1, Zenon DEF Stripped
<1>3. PartOf(Front(text), text, 0, n - 1)
  <2> HIDE DEF n
  <2> QED BY <1>1, PartFront
<1> HIDE DEF body, n
<1>4. body = <<>> \/ Head(body) = text[1]
  <2>1. CASE body = text
    BY <1>1, <2>1
  <2>2. CASE body = Front(text)
    <3> SUFFICES ASSUME body # <<>> PROVE Head(body) = text[1]
      OBVIOUS
    <3>1. body \in Seq(STRING) /\ Len(body) = n - 1 /\ \A k \in 1..n - 1 : body[k] = text[k + 0]
      BY <1>3, <2>2 DEF PartOf
    <3>2. Len(body) \in Nat \ {0}
      BY <3>1, EmptySeq
    <3>3. 1 \in 1..n - 1 /\ 1 + 0 = 1
      BY <1>1, <3>1, <3>2
    <3>4. Head(body) = body[1]
      BY <3>1
    <3> QED BY <3>1, <3>3, <3>4
  <2> QED BY <1>2, <2>1, <2>2
<1> QED BY <1>4, Zenon DEF ParseSuppression, body

(* The words of a directive's list: those from the fourth on.               *)
AloneFrom(text, k) == /\ k = 4 \/ text[k - 1] = Comma
                      /\ k = LastWord(text) \/ text[k + 1] = Comma

LEMMA ListNames ==
    ASSUME NEW text \in Seq(STRING), NEW words, NEW len \in Nat \ {0}, PartOf(words, text, 3, len),
           LastWord(text) = len + 3, NEW name, name # Comma
    PROVE  <<name>> \in SplitCleanCSV(words) <=>
               \E k \in 4..LastWord(text) : text[k] = name /\ AloneFrom(text, k)
<1>1. words \in Seq(STRING) /\ Len(words) = len /\ \A k \in 1..len : words[k] = text[k + 3]
  BY DEF PartOf
<1>2. <<name>> \in SplitCleanCSV(words) <=>
          \E k \in 1..len : words[k] = name /\ AloneAt(words, k)
  BY <1>1, AloneInList
<1>3. ASSUME NEW k \in 1..len, NEW l, l = k + 3
      PROVE  words[k] = text[l] /\ (AloneAt(words, k) <=> AloneFrom(text, l))
  <2>1. words[k] = text[l]
    BY <1>1, <1>3
  <2>2. (k = 1 <=> l = 4) /\ (k = Len(words) <=> l = LastWord(text))
    BY <1>1, <1>3
  <2>3. k # 1 => words[k - 1] = text[l - 1]
    <3> SUFFICES ASSUME k # 1 PROVE words[k - 1] = text[l - 1]
      OBVIOUS
    <3>1. k - 1 \in 1..len /\ (k - 1) + 3 = l - 1
      BY <1>3
    <3> QED BY <1>1, <3>1
  <2>4. k # Len(words) => words[k + 1] = text[l + 1]
    <3> SUFFICES ASSUME k # Len(words) PROVE words[k + 1] = text[l + 1]
      OBVIOUS
    <3>1. k + 1 \in 1..len /\ (k + 1) + 3 = l + 1
      BY <1>1, <1>3
    <3> QED BY <1>1, <3>1
  <2>5. AloneAt(words, k) <=> AloneFrom(text, l)
    BY <2>2, <2>3, <2>4, Zenon DEF AloneAt, AloneFrom
  <2> QED BY <2>1, <2>5
<1>4. ASSUME NEW k \in 1..len, words[k] = name, AloneAt(words, k)
      PROVE  \E l \in 4..LastWord(text) : text[l] = name /\ AloneFrom(text, l)
  <2> DEFINE l == k + 3
  <2>1. l \in 4..LastWord(text)
    OBVIOUS
  <2>2. words[k] = text[l] /\ (AloneAt(words, k) <=> AloneFrom(text, l))
    BY <1>3
  <2> QED BY <1>4, <2>1, <2>2
<1>5. ASSUME NEW l \in 4..LastWord(text), text[l] = name, AloneFrom(text, l)
      PROVE  \E k \in 1..len : words[k] = name /\ AloneAt(words, k)
  <2> DEFINE k == l - 3
  <2>1. k \in 1..len /\ l = k + 3
    OBVIOUS
  <2> HIDE DEF k
  <2>2. words[k] = text[l] /\ (AloneAt(words, k) <=> AloneFrom(text, l))
    BY <1>3, <2>1
  <2> QED BY <1>5, <2>1, <2>2
<1> QED BY <1>2, <1>4, <1>5

(* What a comment's text is parsed into holds the id, or the one that       *)
(* stands for all, just when the text is a directive of that id.            *)
LEMMA DirectiveParsed ==
    ASSUME NEW text \in Seq(STRING), text # <<>>, text[1] # "policyguard:",
           NEW id, id # Comma
    PROVE  ParseSuppression(text) \cap {<<CatchAll>>, <<id>>} # {} <=> Directive(text, id)
<1> DEFINE n == LastWord(text)
           body == Stripped(text)
           directive == Tail(body)
           words == Tail(directive)
           Named(k) == text[k] \in {id, CatchAll} /\ AloneFrom(text, k)
<1>1. Directive(text, id) <=>
          /\ n > 2 /\ text[1] \in {"#", "//", "/*"} /\ text[2] = "policyguard:"
          /\ \/ text[3] = "ignore-all" /\ n = 3
             \/ text[3] = "ignore" /\ \E k \in 4..n : Named(k)
  BY Zenon DEF Directive, AloneFrom, LastWord
<1>2. CASE text[1] \notin {"//", "/*", "#"}
  <2>1. ParseSuppression(text) = {}
    BY <1>2, StrippedOther
  <2> QED BY <1>1, <1>2, <2>1, Zenon
<1>3. CASE text[1] \in {"//", "/*", "#"}
  <2>1. n \in Nat \ {0} /\ PartOf(body, text, 1, n - 1)
    BY <1>3, StrippedPart
  <2>2. ParseSuppression(text) =
            IF body = <<>> \/ Head(body) # "policyguard:" THEN {}
            ELSE IF directive = <<"ignore-all">> THEN {<<CatchAll>>}
            ELSE IF Len(directive) > 1 /\ directive[1] = "ignore" THEN SplitCleanCSV(words)
            ELSE {}
    BY Zenon DEF ParseSuppression
  <2> HIDE DEF n, body, Named
  <2>3. CASE n = 1
    <3>1. body = <<>>
      BY <2>1, <2>3, EmptySeq DEF PartOf
    <3>2. ~(n > 2)
      BY <2>3
    <3> QED BY <1>1, <2>2, <3>1, <3>2, Zenon
  <2>4. CASE n # 1 /\ text[2] # "policyguard:"
    <3>1. n - 1 \in Nat \ {0}
      BY <2>1, <2>4
    <3>2. Head(body) = text[1 + 1]
      BY <2>1, <3>1, PartTail
    <3>3. ParseSuppression(text) = {}
      BY <2>2, <2>4, <3>2
    <3> QED BY <1>1, <2>4, <3>3, Zenon
  <2>5. CASE n # 1 /\ text[2] = "policyguard:"
    <3>1. n - 1 \in Nat \ {0} /\ (n - 1) - 1 = n - 2 /\ 1 + 1 = 2
      BY <2>1, <2>5
    <3>2. Head(body) = text[2] /\ PartOf(directive, text, 2, n - 2) /\ body # <<>>
      <4>1. Head(body) = text[1 + 1] /\ PartOf(directive, text, 1 + 1, (n - 1) - 1)
        <5> HIDE DEF directive
        <5> QED BY <2>1, <3>1, PartTail DEF directive
      <4>2. body # <<>>
        BY <2>1, <3>1, EmptySeq DEF PartOf
      <4> HIDE DEF directive
      <4> QED BY <3>1, <4>1, <4>2
    <3> HIDE DEF directive
    <3>3. directive \in Seq(STRING) /\ Len(directive) = n - 2
          /\ \A k \in 1..n - 2 : directive[k] = text[k + 2]
      BY <3>2 DEF PartOf
    <3>4. directive = <<"ignore-all">> <=> n = 3 /\ text[3] = "ignore-all"
      <4>1. ASSUME directive = <<"ignore-all">> PROVE n = 3 /\ text[3] = "ignore-all"
        <5>1. Len(directive) = 1 /\ directive[1] = "ignore-all"
          BY <4>1
        <5>2. n = 3
          <6>1. n \in Nat /\ n - 2 = 1
            BY <2>1, <3>3, <5>1
          <6> QED BY <6>1
        <5> QED BY <3>3, <5>1, <5>2
      <4>2. ASSUME n = 3, text[3] = "ignore-all" PROVE directive = <<"ignore-all">>
        <5>1. directive \in Seq(STRING) /\ Len(directive) = 1 /\ directive[1] = "ignore-all"
          BY <3>3, <4>2
        <5> QED BY <5>1
      <4> QED BY <4>1, <4>2
    <3>5. CASE n = 3 /\ text[3] = "ignore-all"
      <4>1. ParseSuppression(text) = {<<CatchAll>>}
        BY <2>2, <2>5, <3>2, <3>4, <3>5
      <4>2. n > 2
        BY <3>5
      <4> QED BY <1>1, <1>3, <2>5, <3>5, <4>1, <4>2
    <3>6. CASE n > 3 /\ text[3] = "ignore"
      <4>1. n - 2 \in Nat \ {0} /\ (n - 2) - 1 = n - 3 /\ 2 + 1 = 3 /\ n - 2 > 1
            /\ n - 3 \in Nat \ {0} /\ n = (n - 3) + 3
        BY <2>1, <3>6
      <4>2. directive[1] = "ignore" /\ Len(directive) > 1
        <5>1. 1 \in 1..n - 2 /\ 1 + 2 = 3
          BY <4>1
        <5> QED BY <3>3, <3>6, <4>1, <5>1
      <4>3. PartOf(words, text, 3, n - 3)
        <5>1. PartOf(words, text, 2 + 1, (n - 2) - 1)
          <6> HIDE DEF words
          <6> QED BY <3>2, <4>1, PartTail DEF words
        <5> HIDE DEF words
        <5> QED BY <4>1, <5>1
      <4>4. ParseSuppression(text) = SplitCleanCSV(words)
        <5> HIDE DEF words
        <5> QED BY <2>2, <2>5, <3>2, <3>4, <3>6, <4>2
      <4> HIDE DEF words
      <4>5. ASSUME NEW name, name # Comma
            PROVE  <<name>> \in SplitCleanCSV(words) <=>
                       \E k \in 4..n : text[k] = name /\ AloneFrom(text, k)
        <5>1. LastWord(text) = (n - 3) + 3
          BY <4>1 DEF n
        <5>2. <<name>> \in SplitCleanCSV(words) <=>
                  \E k \in 4..LastWord(text) : text[k] = name /\ AloneFrom(text, k)
          BY <4>1, <4>3, <4>5, <5>1, ListNames
        <5> QED BY <5>2 DEF n
      <4>6. CatchAll # Comma
        BY Zenon DEF CatchAll, Comma
      <4>7. /\ <<id>> \in SplitCleanCSV(words) <=>
                   \E k \in 4..n : text[k] = id /\ AloneFrom(text, k)
            /\ <<CatchAll>> \in SplitCleanCSV(words) <=>
                   \E k \in 4..n : text[k] = CatchAll /\ AloneFrom(text, k)
        BY <4>5, <4>6
      <4>8. ParseSuppression(text) \cap {<<CatchAll>>, <<id>>} # {} <=> \E k \in 4..n : Named(k)
        <5> DEFINE S == SplitCleanCSV(words)
        <5>1. S \cap {<<CatchAll>>, <<id>>} # {} <=> <<id>> \in S \/ <<CatchAll>> \in S
          BY Zenon
        <5>2. ASSUME NEW k \in 4..n
              PROVE  Named(k) <=> \/ text[k] = id /\ AloneFrom(text, k)
                                  \/ text[k] = CatchAll /\ AloneFrom(text, k)
          BY Zenon DEF Named
        <5>3. (\E k \in 4..n : Named(k)) <=> <<id>> \in S \/ <<CatchAll>> \in S
          BY <4>7, <5>2, Zenon
        <5> QED BY <4>4, <5>1, <5>3, Zenon
      <4>9. n > 2 /\ text[3] # "ignore-all"
        BY <2>1, <3>6
      <4> QED BY <1>1, <1>3, <2>5, <3>6, <4>8, <4>9
    <3>7. CASE ~(n = 3 /\ text[3] = "ignore-all") /\ ~(n > 3 /\ text[3] = "ignore")
      <4>1. ~(Len(directive) > 1 /\ directive[1] = "ignore")
        <5> SUFFICES ASSUME Len(directive) > 1, directive[1] = "ignore" PROVE FALSE
          OBVIOUS
        <5>1. n > 3 /\ 1 \in 1..n - 2 /\ 1 + 2 = 3
          BY <2>1, <3>3
        <5>2. text[3] = "ignore"
          BY <3>3, <5>1
        <5> QED BY <3>7, <5>1, <5>2
      <4>2. ParseSuppression(text) = {}
        BY <2>2, <3>4, <3>7, <4>1
      <4>3. ~(text[3] = "ignore" /\ \E k \in 4..n : Named(k))
        <5> SUFFICES ASSUME text[3] = "ignore", NEW k \in 4..n PROVE FALSE
          BY Zenon
        <5>1. n > 3
          BY <2>1
        <5> QED BY <3>7, <5>1
      <4> QED BY <1>1, <3>7, <4>2, <4>3, Zenon
    <3> QED BY <3>5, <3>6, <3>7
  <2> QED BY <2>3, <2>4, <2>5
<1> QED BY <1>2, <1>3

-----------------------------------------------------------------------------
(* The lines nodes are on, and the directives among them.                   *)
CommentsIn(nodes) == {i \in DOMAIN nodes : nodes[i].is = "comment"}
RowsIn(nodes, i) == IF i \in CommentsIn(nodes) THEN nodes[i].rows ELSE 1
TrailingIn(nodes, i) == i \in CommentsIn(nodes) /\ nodes[i].trailing

LineIn(nodes, i) ==
    LET line[j \in 0..Len(nodes)] ==
            IF j <= 1 THEN 1
            ELSE line[j - 1] + RowsIn(nodes, j - 1) - (IF TrailingIn(nodes, j) THEN 1 ELSE 0)
    IN  line[i]

DirectivesIn(f, nodes) ==
    {[file |-> f, line |-> LineIn(nodes, i), ids |-> ParseSuppression(nodes[i].text)] :
        i \in {i \in CommentsIn(nodes) : ParseSuppression(nodes[i].text) # {}}}

(* The extractors and the properties speak of these. *)
LEMMA SameLines ==
    /\ \A f : Comments(f) = CommentsIn(NodesIn(program, f))
    /\ \A f, i : Rows(f, i) = RowsIn(NodesIn(program, f), i)
    /\ \A f, i : Trailing(f, i) = TrailingIn(NodesIn(program, f), i)
    /\ \A f, i : LineOf(f, i) = LineIn(NodesIn(program, f), i)
<1>1. \A f : Comments(f) = CommentsIn(NodesIn(program, f))
  BY Zenon DEF Comments, Nodes, CommentsIn, NodesIn
<1>2. \A f, i : Rows(f, i) = RowsIn(NodesIn(program, f), i)
  BY Zenon DEF Rows, RowsIn, Comments, Nodes, CommentsIn, NodesIn
<1>3. \A f, i : Trailing(f, i) = TrailingIn(NodesIn(program, f), i)
  BY Zenon DEF Trailing, TrailingIn, Comments, Nodes, CommentsIn, NodesIn
<1>4. \A f, i : LineOf(f, i) = LineIn(NodesIn(program, f), i)
  BY Zenon DEF LineOf, LineIn, Rows, RowsIn, Trailing, TrailingIn, Comments, Nodes, CommentsIn, NodesIn
<1> QED BY <1>1, <1>2, <1>3, <1>4

LEMMA SameDirectives ==
    \A f : /\ Py!scanComments(f) = DirectivesIn(f, NodesIn(program, f))
           /\ Java!scanComments(f) = DirectivesIn(f, NodesIn(program, f))
           /\ TS!scanComments(f) = DirectivesIn(f, NodesIn(program, f))
           /\ Go!scanComments(f) = DirectivesIn(f, NodesIn(program, f))
<1>1. \A f : Py!scanComments(f) = DirectivesIn(f, NodesIn(program, f))
  <2>1. \A text : Py!ParseSuppression(text) = ParseSuppression(text)
    BY Zenon DEF Py!ParseSuppression, ParseSuppression, Py!Stripped, Stripped, Py!Last, Last,
                 Py!Front, Front, Py!SplitCleanCSV, SplitCleanCSV, Py!CatchAll, CatchAll,
                 Py!Comma, Comma
  <2>2. \A f, i : Py!LineOf(f, i) = LineIn(NodesIn(program, f), i)
    BY Zenon DEF Py!LineOf, LineIn, Py!Rows, RowsIn, Py!Trailing, TrailingIn, Py!Comments,
                 Py!Nodes, CommentsIn, NodesIn
  <2>3. \A f : Py!Comments(f) = CommentsIn(NodesIn(program, f))
    BY Zenon DEF Py!Comments, Py!Nodes, CommentsIn, NodesIn
  <2> QED BY <2>1, <2>2, <2>3, Zenon DEF Py!scanComments, DirectivesIn, Py!Nodes, NodesIn
<1>2. \A f : Java!scanComments(f) = DirectivesIn(f, NodesIn(program, f))
  <2>1. \A text : Java!ParseSuppression(text) = ParseSuppression(text)
    BY Zenon DEF Java!ParseSuppression, ParseSuppression, Java!Stripped, Stripped, Java!Last, Last,
                 Java!Front, Front, Java!SplitCleanCSV, SplitCleanCSV, Java!CatchAll, CatchAll,
                 Java!Comma, Comma
  <2>2. \A f, i : Java!LineOf(f, i) = LineIn(NodesIn(program, f), i)
    BY Zenon DEF Java!LineOf, LineIn, Java!Rows, RowsIn, Java!Trailing, TrailingIn, Java!Comments,
                 Java!Nodes, CommentsIn, NodesIn
  <2>3. \A f : Java!Comments(f) = CommentsIn(NodesIn(program, f))
    BY Zenon DEF Java!Comments, Java!Nodes, CommentsIn, NodesIn
  <2> QED BY <2>1, <2>2, <2>3, Zenon DEF Java!scanComments, DirectivesIn, Java!Nodes, NodesIn
<1>3. \A f : TS!scanComments(f) = DirectivesIn(f, NodesIn(program, f))
  <2>1. \A text : TS!ParseSuppression(text) = ParseSuppression(text)
    BY Zenon DEF TS!ParseSuppression, ParseSuppression, TS!Stripped, Stripped, TS!Last, Last,
                 TS!Front, Front, TS!SplitCleanCSV, SplitCleanCSV, TS!CatchAll, CatchAll,
                 TS!Comma, Comma
  <2>2. \A f, i : TS!LineOf(f, i) = LineIn(NodesIn(program, f), i)
    BY Zenon DEF TS!LineOf, LineIn, TS!Rows, RowsIn, TS!Trailing, TrailingIn, TS!Comments,
                 TS!Nodes, CommentsIn, NodesIn
  <2>3. \A f : TS!Comments(f) = CommentsIn(NodesIn(program, f))
    BY Zenon DEF TS!Comments, TS!Nodes, CommentsIn, NodesIn
  <2> QED BY <2>1, <2>2, <2>3, Zenon DEF TS!scanComments, DirectivesIn, TS!Nodes, NodesIn
<1>4. \A f : Go!scanComments(f) = DirectivesIn(f, NodesIn(program, f))
  <2>1. \A text : Go!ParseSuppression(text) = ParseSuppression(text)
    BY Zenon DEF Go!ParseSuppression, ParseSuppression, Go!Stripped, Stripped, Go!Last, Last,
                 Go!Front, Front, Go!SplitCleanCSV, SplitCleanCSV, Go!CatchAll, CatchAll,
                 Go!Comma, Comma
  <2>2. \A f, i : Go!LineOf(f, i) = LineIn(NodesIn(program, f), i)
    BY Zenon DEF Go!LineOf, LineIn, Go!Rows, RowsIn, Go!Trailing, TrailingIn, Go!Comments,
                 Go!Nodes, CommentsIn, NodesIn
  <2>3. \A f : Go!Comments(f) = CommentsIn(NodesIn(program, f))
    BY Zenon DEF Go!Comments, Go!Nodes, CommentsIn, NodesIn
  <2> QED BY <2>1, <2>2, <2>3, Zenon DEF Go!scanComments, DirectivesIn, Go!Nodes, NodesIn
<1> QED BY <1>1, <1>2, <1>3, <1>4

(* A node begins on the line of the one before it or below.                 *)
Lines(h, nodes) ==
    /\ h \in [0..Len(nodes) -> Int]
    /\ \A j \in 1..Len(nodes) :
           h[j] = IF j <= 1 THEN 1
                  ELSE h[j - 1] + RowsIn(nodes, j - 1) - (IF TrailingIn(nodes, j) THEN 1 ELSE 0)

CommentsTyped(nodes) ==
    /\ IsList(nodes)
    /\ \A i \in CommentsIn(nodes) : nodes[i].rows \in Nat \ {0}

LEMMA LineInDef ==
    ASSUME NEW nodes, CommentsTyped(nodes)
    PROVE  \E h : Lines(h, nodes) /\ \A i : LineIn(nodes, i) = h[i]
<1> DEFINE N == Len(nodes)
           Next1(n, t) == IF n <= 1 THEN 1
                          ELSE t + RowsIn(nodes, n - 1) - (IF TrailingIn(nodes, n) THEN 1 ELSE 0)
           step == [n \in 1..N |-> [t \in Int |-> Next1(n, t)]]
<1>1. N \in Nat
  BY PlacesProperties DEF CommentsTyped
<1>2. \A n \in 1..N, t \in Int : Next1(n, t) \in Int
  <2> TAKE n \in 1..N, t \in Int
  <2>1. RowsIn(nodes, n - 1) \in Int
    BY DEF CommentsTyped, RowsIn
  <2> QED BY <2>1
<1>3. step \in [1..N -> [Int -> Int]]
  <2> HIDE DEF N, Next1
  <2> QED BY <1>2
<1>4. PICK f : Unrolls(f, N, Int, 1, step)
  <2>1. step \in StepsUpTo(N, Int)
    BY <1>3 DEF StepsUpTo
  <2> HIDE DEF N, step
  <2> QED BY <1>1, <2>1, Unrolling
<1>5. \A n \in 1..N : f[n] = Next1(n, f[n - 1])
  <2> TAKE n \in 1..N
  <2>1. n - 1 \in 0..N
    BY <1>1
  <2>2. f \in [0..N -> Int] /\ f[n] = step[n][f[n - 1]]
    BY <1>4 DEF Unrolls
  <2> HIDE DEF N, Next1
  <2> QED BY <2>1, <2>2
<1> DEFINE Unrolled(g) == g = [n \in 0..N |-> Next1(n, g[n - 1])]
           h == CHOOSE g : Unrolled(g)
<1>6. Unrolled(f)
  <2>1. \A n \in 0..N : f[n] = Next1(n, f[n - 1])
    <3> TAKE n \in 0..N
    <3>1. CASE n = 0
      <4>1. f[0] = 1
        BY <1>4 DEF Unrolls
      <4>2. \A t : Next1(0, t) = 1
        OBVIOUS
      <4> HIDE DEF Next1, N, step
      <4> QED BY <3>1, <4>1, <4>2
    <3>2. CASE n # 0
      <4>1. n \in 1..N
        BY <1>1, <3>2
      <4> HIDE DEF Next1, N, step
      <4> QED BY <4>1, <1>5
    <3> QED BY <3>1, <3>2
  <2>2. f = [n \in 0..N |-> f[n]]
    BY <1>4 DEF Unrolls
  <2> HIDE DEF N, Next1
  <2> QED BY <2>1, <2>2, Zenon
<1>7. Unrolled(h)
  <2> HIDE DEF Unrolled
  <2> QED BY <1>6, Zenon
<1>8. \A i : LineIn(nodes, i) = h[i]
  BY Zenon DEF LineIn
<1>9. h = f
  <2> DEFINE P == {n \in 0..N : h[n] = f[n]}
  <2>1. \A n \in 0..N : n \in P
    <3>1. 0 \in P
      <4>1. \A t : Next1(0, t) = 1
        OBVIOUS
      <4> HIDE DEF Next1, h, step
      <4> QED BY <1>1, <1>6, <1>7, <4>1
    <3>2. ASSUME NEW n \in 1..N, n - 1 \in P PROVE n \in P
      <4>1. n \in 0..N /\ h[n - 1] = f[n - 1]
        BY <3>2, <1>1
      <4> HIDE DEF N, Next1, h
      <4> QED BY <4>1, <1>6, <1>7
    <3> HIDE DEF P
    <3> QED BY <1>1, <3>1, <3>2, UpToInduction
  <2>2. \A n \in 0..N : h[n] = f[n]
    BY <2>1
  <2>3. h = [n \in 0..N |-> h[n]] /\ f = [n \in 0..N |-> f[n]]
    <3> HIDE DEF h, N, Next1
    <3> QED BY <1>6, <1>7
  <2> HIDE DEF h, N, step
  <2> QED BY <2>2, <2>3, Zenon
<1>10. Lines(f, nodes)
  <2>1. f \in [0..N -> Int]
    BY <1>4 DEF Unrolls
  <2> QED BY <1>5, <2>1 DEF Lines
<1> HIDE DEF h, step
<1> QED BY <1>8, <1>9, <1>10

(* Nodes share their lines when they are comments behind nodes of one row. *)
SharesRowIn(nodes, k) == TrailingIn(nodes, k) /\ RowsIn(nodes, k - 1) = 1
OnOneLine(nodes, a, b) == \A k \in a + 1..b : SharesRowIn(nodes, k)

LEMMA LineSteps ==
    ASSUME NEW nodes, CommentsTyped(nodes), NEW h, Lines(h, nodes), NEW n \in 2..Len(nodes),
           NEW m, m = n - 1
    PROVE  /\ m \in 1..Len(nodes) /\ h[m] \in Int /\ h[n] \in Int /\ h[m] <= h[n]
           /\ h[n] = h[m] <=> SharesRowIn(nodes, n)
           /\ ~TrailingIn(nodes, n) => h[n] = h[m] + RowsIn(nodes, m)
           /\ RowsIn(nodes, m) \in Nat \ {0}
<1>1. Len(nodes) \in Nat
  BY PlacesProperties DEF CommentsTyped
<1>2. m \in 1..Len(nodes) /\ m \in 0..Len(nodes) /\ n \in 0..Len(nodes) /\ n \in 1..Len(nodes)
        /\ ~(n <= 1)
  BY <1>1
<1>3. h[m] \in Int /\ h[n] \in Int
  BY <1>2 DEF Lines
<1>4. RowsIn(nodes, m) \in Nat \ {0}
  BY DEF CommentsTyped, RowsIn
<1>5. h[n] = h[m] + RowsIn(nodes, m) - (IF TrailingIn(nodes, n) THEN 1 ELSE 0)
  BY <1>2 DEF Lines
<1>6. SharesRowIn(nodes, n) <=> TrailingIn(nodes, n) /\ RowsIn(nodes, m) = 1
  BY DEF SharesRowIn
<1>7. CASE TrailingIn(nodes, n)
  BY <1>2, <1>3, <1>4, <1>5, <1>6, <1>7
<1>8. CASE ~TrailingIn(nodes, n)
  BY <1>2, <1>3, <1>4, <1>5, <1>6, <1>8
<1> QED BY <1>7, <1>8

LEMMA LinesBetween ==
    ASSUME NEW nodes, CommentsTyped(nodes), NEW h, Lines(h, nodes), NEW b \in 1..Len(nodes),
           NEW a \in 1..b
    PROVE  /\ h[a] \in Int /\ h[b] \in Int /\ h[a] <= h[b]
           /\ h[a] = h[b] <=> OnOneLine(nodes, a, b)
<1> DEFINE N == Len(nodes)
           Ordered(c, n) == /\ h[c] <= h[n]
                            /\ h[c] = h[n] <=> OnOneLine(nodes, c, n)
           P == {n \in 0..N : \A c \in 1..n : Ordered(c, n)}
<1>1. N \in Nat
  BY PlacesProperties DEF CommentsTyped
<1>2. \A n \in 1..N : h[n] \in Int
  BY <1>1 DEF Lines
<1>3. 0 \in P
  BY <1>1
<1>4. ASSUME NEW n \in 1..N, n - 1 \in P PROVE n \in P
  <2> DEFINE m == n - 1
  <2> SUFFICES ASSUME NEW c \in 1..n PROVE Ordered(c, n)
    BY <1>1
  <2>1. CASE c = n
    <3>1. \A k \in n + 1..n : FALSE
      OBVIOUS
    <3>2. OnOneLine(nodes, c, n)
      BY <2>1, <3>1 DEF OnOneLine
    <3> QED BY <1>2, <2>1, <3>2
  <2>2. CASE c # n
    <3>1. n \in 2..Len(nodes) /\ c \in 1..m /\ m = n - 1 /\ c \in 1..N
      BY <1>1, <2>2
    <3>2. Ordered(c, m)
      BY <1>4, <3>1
    <3> HIDE DEF m
    <3>3. /\ h[m] \in Int /\ h[n] \in Int /\ h[m] <= h[n]
          /\ h[n] = h[m] <=> SharesRowIn(nodes, n)
      BY <3>1, LineSteps
    <3>4. OnOneLine(nodes, c, n) <=> OnOneLine(nodes, c, m) /\ SharesRowIn(nodes, n)
      <4>1. \A k : k \in c + 1..n <=> k \in c + 1..m \/ k = n
        BY <3>1
      <4> HIDE DEF N, P, Ordered
      <4> QED BY <4>1, Zenon DEF OnOneLine
    <3>5. h[c] \in Int
      BY <1>2, <3>1
    <3> QED BY <3>2, <3>3, <3>4, <3>5
  <2> QED BY <2>1, <2>2
<1>5. b \in P
  <2>1. b \in 0..N
    BY <1>1
  <2> HIDE DEF P, N
  <2>2. \A n \in 0..N : n \in P
    BY <1>1, <1>3, <1>4, UpToInduction
  <2> QED BY <2>1, <2>2
<1>6. Ordered(a, b)
  BY <1>5
<1>7. a \in 1..N /\ b \in 1..N
  BY <1>1
<1> QED BY <1>2, <1>6, <1>7

(* Which nodes a comment's directive is for: those on its line and on the   *)
(* next.                                                                    *)
Reached(nodes, c, i) ==
    IF c > i THEN OnOneLine(nodes, i, c)
    ELSE RowsIn(nodes, i - 1) = 1 /\ OnOneLine(nodes, c, i - 1)

LEMMA LinesReached ==
    ASSUME NEW nodes, CommentsTyped(nodes), NEW i \in DOMAIN nodes \ CommentsIn(nodes),
           NEW c \in CommentsIn(nodes)
    PROVE  LineIn(nodes, i) \in {LineIn(nodes, c), LineIn(nodes, c) + 1} <=> Reached(nodes, c, i)
<1>1. PICK h : Lines(h, nodes) /\ \A j : LineIn(nodes, j) = h[j]
  BY LineInDef
<1>2. /\ Len(nodes) \in Nat /\ i \in 1..Len(nodes) /\ c \in 1..Len(nodes) /\ c # i
      /\ ~TrailingIn(nodes, i)
  BY PlacesProperties DEF CommentsTyped, CommentsIn, TrailingIn
<1>3. h[i] \in {h[c], h[c] + 1} <=> Reached(nodes, c, i)
  <2>1. CASE c > i
    <3>1. i \in 1..c
      BY <1>2, <2>1
    <3>2. /\ h[i] \in Int /\ h[c] \in Int /\ h[i] <= h[c]
          /\ h[i] = h[c] <=> OnOneLine(nodes, i, c)
      BY <1>1, <1>2, <3>1, LinesBetween
    <3> QED BY <2>1, <3>2 DEF Reached
  <2>2. CASE ~(c > i)
    <3> DEFINE m == i - 1
    <3>1. i \in 2..Len(nodes) /\ m = i - 1 /\ c \in 1..m /\ m \in 1..Len(nodes)
      BY <1>2, <2>2
    <3> HIDE DEF m
    <3>2. /\ h[m] \in Int /\ h[i] \in Int /\ h[i] = h[m] + RowsIn(nodes, m)
          /\ RowsIn(nodes, m) \in Nat \ {0}
      BY <1>1, <1>2, <3>1, LineSteps
    <3>3. /\ h[c] \in Int /\ h[c] <= h[m]
          /\ h[c] = h[m] <=> OnOneLine(nodes, c, m)
      BY <1>1, <3>1, LinesBetween
    <3>4. h[i] \in {h[c], h[c] + 1} <=> RowsIn(nodes, m) = 1 /\ h[c] = h[m]
      BY <3>2, <3>3
    <3>5. Reached(nodes, c, i) <=> RowsIn(nodes, m) = 1 /\ OnOneLine(nodes, c, m)
      BY <2>2, <3>1 DEF Reached
    <3> QED BY <3>3, <3>4, <3>5
  <2> QED BY <2>1, <2>2
<1> QED BY <1>1, <1>3

-----------------------------------------------------------------------------
(* What is scanned after a file's last node, and nothing before.            *)
ScanStep ==
    /\ phase # "done" /\ program' = program
    /\ IF file < Len(program.files) THEN file' = file + 1 /\ phase' = phase
       ELSE file' = 1 /\ phase' = IF phase = "discover" THEN "walk" ELSE "done"
    /\ suppressions' = suppressions \cup IF phase = "walk"
                                         THEN DirectivesIn(file, NodesIn(program, file)) ELSE {}

KeepsDirectives ==
    program' = program /\ phase' = phase /\ file' = file /\ suppressions' = suppressions

LEMMA PythonScans ==
    ASSUME Py!Next PROVE ScanStep \/ KeepsDirectives
<1> USE DEF Py!Advance, Py!graph, KeepsDirectives
<1>1. ASSUME Py!handleImport PROVE KeepsDirectives
  BY <1>1, Zenon DEF Py!handleImport
<1>2. ASSUME Py!handleImportFrom PROVE KeepsDirectives
  BY <1>2, Zenon DEF Py!handleImportFrom
<1>3. ASSUME Py!handleClass PROVE KeepsDirectives
  BY <1>3, Zenon DEF Py!handleClass
<1>4. ASSUME Py!handleFunction PROVE KeepsDirectives
  BY <1>4, Zenon DEF Py!handleFunction
<1>5. ASSUME Py!handleCall PROVE KeepsDirectives
  BY <1>5, Zenon DEF Py!handleCall
<1>6. ASSUME Py!handleFieldAccess PROVE KeepsDirectives
  BY <1>6, Zenon DEF Py!handleFieldAccess
<1>7. ASSUME Py!Leave PROVE KeepsDirectives
  BY <1>7, Zenon DEF Py!Leave
<1>8. ASSUME Py!PassComment PROVE KeepsDirectives
  BY <1>8, Zenon DEF Py!PassComment
<1>9. ASSUME Py!NextFile PROVE ScanStep
  <2>1. Py!scanComments(file) = DirectivesIn(file, NodesIn(program, file))
    BY SameDirectives
  <2> QED BY <1>9, <2>1 DEF Py!NextFile, ScanStep
<1> QED BY <1>1, <1>2, <1>3, <1>4, <1>5, <1>6, <1>7, <1>8, <1>9, Zenon DEF Py!Next

LEMMA JavaScans ==
    ASSUME Java!Next PROVE ScanStep \/ KeepsDirectives
<1> USE DEF Java!Advance, Java!graph, KeepsDirectives
<1>1. ASSUME Java!handlePackage PROVE KeepsDirectives
  BY <1>1, Zenon DEF Java!handlePackage
<1>2. ASSUME Java!handleImport PROVE KeepsDirectives
  BY <1>2, Zenon DEF Java!handleImport
<1>3. ASSUME Java!handleClass PROVE KeepsDirectives
  BY <1>3, Zenon DEF Java!handleClass
<1>4. ASSUME Java!handleMethod PROVE KeepsDirectives
  BY <1>4, Zenon DEF Java!handleMethod
<1>5. ASSUME Java!PassInto PROVE KeepsDirectives
  BY <1>5, Zenon DEF Java!PassInto
<1>6. ASSUME Java!recordLocalDeclaration PROVE KeepsDirectives
  BY <1>6, Zenon DEF Java!recordLocalDeclaration
<1>7. ASSUME Java!handleInvocation PROVE KeepsDirectives
  BY <1>7, Zenon DEF Java!handleInvocation
<1>8. ASSUME Java!handleFieldAccess PROVE KeepsDirectives
  BY <1>8, Zenon DEF Java!handleFieldAccess
<1>9. ASSUME Java!Leave PROVE KeepsDirectives
  BY <1>9, Zenon DEF Java!Leave
<1>10. ASSUME Java!PassComment PROVE KeepsDirectives
  BY <1>10, Zenon DEF Java!PassComment
<1>11. ASSUME Java!NextFile PROVE ScanStep
  <2>1. Java!scanComments(file) = DirectivesIn(file, NodesIn(program, file))
    BY SameDirectives
  <2> QED BY <1>11, <2>1 DEF Java!NextFile, ScanStep
<1> QED BY <1>1, <1>2, <1>3, <1>4, <1>5, <1>6, <1>7, <1>8, <1>9, <1>10, <1>11, Zenon DEF Java!Next

LEMMA TypeScriptScans ==
    ASSUME TS!Next PROVE ScanStep \/ KeepsDirectives
<1> USE DEF TS!Advance, TS!graph, KeepsDirectives
<1>1. ASSUME TS!handleImport PROVE KeepsDirectives
  BY <1>1, Zenon DEF TS!handleImport
<1>2. ASSUME TS!handleClass PROVE KeepsDirectives
  BY <1>2, Zenon DEF TS!handleClass
<1>3. ASSUME TS!recordAndRecurse PROVE KeepsDirectives
  BY <1>3, Zenon DEF TS!recordAndRecurse
<1>4. ASSUME TS!PassInto PROVE KeepsDirectives
  BY <1>4, Zenon DEF TS!PassInto
<1>5. ASSUME TS!handleCall PROVE KeepsDirectives
  BY <1>5, Zenon DEF TS!handleCall
<1>6. ASSUME TS!handleFieldAccess PROVE KeepsDirectives
  BY <1>6, Zenon DEF TS!handleFieldAccess
<1>7. ASSUME TS!Leave PROVE KeepsDirectives
  BY <1>7, Zenon DEF TS!Leave
<1>8. ASSUME TS!PassComment PROVE KeepsDirectives
  BY <1>8, Zenon DEF TS!PassComment
<1>9. ASSUME TS!NextFile PROVE ScanStep
  <2>1. TS!scanComments(file) = DirectivesIn(file, NodesIn(program, file))
    BY SameDirectives
  <2> QED BY <1>9, <2>1 DEF TS!NextFile, ScanStep
<1> QED BY <1>1, <1>2, <1>3, <1>4, <1>5, <1>6, <1>7, <1>8, <1>9, Zenon DEF TS!Next

LEMMA GoScans ==
    ASSUME Go!Next PROVE ScanStep \/ KeepsDirectives
<1> USE DEF Go!Advance, Go!graph, KeepsDirectives
<1>1. ASSUME Go!handleImportSpec PROVE KeepsDirectives
  BY <1>1, Zenon DEF Go!handleImportSpec
<1>2. ASSUME Go!registerFunction PROVE KeepsDirectives
  BY <1>2, Zenon DEF Go!registerFunction
<1>3. ASSUME Go!PassOver PROVE KeepsDirectives
  BY <1>3, Zenon DEF Go!PassOver
<1>4. ASSUME Go!recordAndRecurse PROVE KeepsDirectives
  BY <1>4, Zenon DEF Go!recordAndRecurse
<1>5. ASSUME Go!Leave PROVE KeepsDirectives
  BY <1>5, Zenon DEF Go!Leave
<1>6. ASSUME Go!recordShortVarDeclaration PROVE KeepsDirectives
  BY <1>6, Zenon DEF Go!recordShortVarDeclaration
<1>7. ASSUME Go!handleCall PROVE KeepsDirectives
  BY <1>7, Zenon DEF Go!handleCall
<1>8. ASSUME Go!handleFieldAccess PROVE KeepsDirectives
  BY <1>8, Zenon DEF Go!handleFieldAccess
<1>9. ASSUME Go!PassComment PROVE KeepsDirectives
  BY <1>9, Zenon DEF Go!PassComment
<1>10. ASSUME Go!NextFile PROVE ScanStep
  <2>1. Go!scanComments(file) = DirectivesIn(file, NodesIn(program, file))
    BY SameDirectives
  <2> QED BY <1>10, <2>1 DEF Go!NextFile, ScanStep
<1> QED BY <1>1, <1>2, <1>3, <1>4, <1>5, <1>6, <1>7, <1>8, <1>9, <1>10, Zenon DEF Go!Next

(* The directives are those of the files walked so far.                     *)
Scanned == IF phase = "done" THEN DOMAIN program.files
           ELSE IF phase = "walk" THEN 1..file - 1 ELSE {}

DirectivesInv ==
    \A s : s \in suppressions <=>
               \E f \in Scanned : s \in DirectivesIn(f, NodesIn(program, f))

LEMMA InitDirectives == ASSUME Init PROVE DirectivesInv
<1>1. file = 1 /\ suppressions = {} /\ phase \in {"discover", "walk"}
  <2>1. CASE Py!Init
    BY <2>1 DEF Py!Init, Py!WalkInit
  <2>2. CASE Java!Init
    BY <2>2 DEF Java!Init, Java!WalkInit
  <2>3. CASE TS!Init
    BY <2>3 DEF TS!Init, TS!WalkInit
  <2>4. CASE Go!Init
    BY <2>4 DEF Go!Init, Go!WalkInit
  <2> QED BY <2>1, <2>2, <2>3, <2>4 DEF Init
<1>2. Scanned = {}
  BY <1>1 DEF Scanned
<1> QED BY <1>1, <1>2 DEF DirectivesInv

LEMMA DirectivesKept ==
    ASSUME PlaceInv, DirectivesInv, ScanStep \/ KeepsDirectives PROVE DirectivesInv'
<1> DEFINE Of(f) == DirectivesIn(f, NodesIn(program, f))
<1>1. CASE KeepsDirectives
  <2>1. program' = program /\ suppressions' = suppressions /\ Scanned' = Scanned
    BY <1>1 DEF KeepsDirectives, Scanned
  <2> QED BY <2>1 DEF DirectivesInv
<1>2. CASE ScanStep
  <2>1. program' = program
    BY <1>2 DEF ScanStep
  <2>2. /\ DOMAIN program.files = 1..Len(program.files) /\ Len(program.files) \in Nat \ {0}
        /\ file \in 1..Len(program.files) /\ phase \in {"discover", "walk", "done"}
    BY HereProperties DEF PlaceInv
  <2>3. \A f : f \in Scanned' <=> f \in Scanned \/ (phase = "walk" /\ f = file)
    <3>1. CASE phase = "walk" /\ file < Len(program.files)
      <4>1. Scanned = 1..file - 1 /\ Scanned' = 1..file
        BY <1>2, <2>2, <3>1 DEF ScanStep, Scanned
      <4> QED BY <2>2, <3>1, <4>1
    <3>2. CASE phase = "walk" /\ ~(file < Len(program.files))
      <4>1. Scanned = 1..file - 1 /\ Scanned' = 1..Len(program.files) /\ file = Len(program.files)
        BY <1>2, <2>2, <3>2 DEF ScanStep, Scanned
      <4> QED BY <2>2, <3>2, <4>1
    <3>3. CASE phase # "walk"
      <4>1. phase = "discover"
        BY <1>2, <2>2, <3>3 DEF ScanStep
      <4>2. Scanned = {} /\ Scanned' = {}
        <5>1. phase' = "discover" \/ (phase' = "walk" /\ file' = 1)
          BY <1>2, <4>1 DEF ScanStep
        <5> QED BY <4>1, <5>1 DEF Scanned
      <4> QED BY <3>3, <4>2
    <3> QED BY <3>1, <3>2, <3>3
  <2>4. \A s : s \in suppressions' <=> s \in suppressions \/ (phase = "walk" /\ s \in Of(file))
    BY <1>2 DEF ScanStep
  <2>5. \A s : s \in suppressions <=> \E f \in Scanned : s \in Of(f)
    BY DEF DirectivesInv
  <2>6. \A s : s \in suppressions' <=> \E f \in Scanned' : s \in Of(f)
    <3> HIDE DEF Of
    <3> QED BY <2>3, <2>4, <2>5, Zenon
  <2> QED BY <2>1, <2>6 DEF DirectivesInv
<1> QED BY <1>1, <1>2

LEMMA DirectivesInvariant == Spec => []DirectivesInv
<1>1. IInv /\ DirectivesInv /\ [Next]_vars => DirectivesInv'
  <2> SUFFICES ASSUME IInv, DirectivesInv, [Next]_vars PROVE DirectivesInv'
    OBVIOUS
  <2>1. ScanStep \/ KeepsDirectives
    <3>1. CASE Next
      BY <3>1, PythonScans, JavaScans, TypeScriptScans, GoScans DEF Next
    <3>2. CASE UNCHANGED vars
      BY <3>2 DEF vars, graph, KeepsDirectives
    <3> QED BY <3>1, <3>2
  <2> QED BY <2>1, DirectivesKept DEF IInv
<1> QED BY <1>1, InitDirectives, GraphInvariant, PTL DEF Spec

LEMMA CommentProperties ==
    ASSUME PlaceInv, NEW f \in DOMAIN program.files, NEW nodes, nodes = NodesIn(program, f)
    PROVE  /\ CommentsTyped(nodes)
           /\ \A c \in CommentsIn(nodes) : /\ nodes[c].text \in Seq(STRING) /\ nodes[c].text # <<>>
                                           /\ nodes[c].text[1] # "policyguard:"
<1>1. IsList(nodes) /\ IsText(program.lang, nodes)
  BY HereProperties, ProgramFiles
<1>2. ASSUME NEW c \in CommentsIn(nodes)
      PROVE  /\ nodes[c].rows \in Nat \ {0}
             /\ nodes[c].text \in Seq(STRING) /\ nodes[c].text # <<>>
             /\ nodes[c].text[1] # "policyguard:"
  <2>1. c \in DOMAIN nodes /\ nodes[c].is = "comment"
    BY DEF CommentsIn
  <2> QED BY <1>1, <2>1, Zenon DEF IsText
<1> QED BY <1>1, <1>2 DEF CommentsTyped

(* What is matched at a node is a directive of a comment that reaches it.   *)
LEMMA MatchesReached ==
    ASSUME PlaceInv, DirectivesInv, phase = "done", NEW f \in DOMAIN program.files,
           NEW nodes, nodes = NodesIn(program, f),
           NEW i \in DOMAIN nodes \ CommentsIn(nodes), NEW id, id # Comma
    PROVE  MatchSuppression(f, LineIn(nodes, i), id) <=>
               \E c \in CommentsIn(nodes) : Directive(nodes[c].text, id) /\ Reached(nodes, c, i)
<1> DEFINE Both == {<<CatchAll>>, <<id>>}
           Ids(c) == ParseSuppression(nodes[c].text)
           On(line) == LineIn(nodes, i) \in {line, line + 1}
<1>1. \A c \in CommentsIn(nodes) : Ids(c) \cap Both # {} <=> Directive(nodes[c].text, id)
  BY CommentProperties, DirectiveParsed
<1>2. \A c \in CommentsIn(nodes) : On(LineIn(nodes, c)) <=> Reached(nodes, c, i)
  BY CommentProperties, LinesReached
<1>3. ASSUME NEW s \in suppressions, s.file = f, On(s.line), s.ids \cap Both # {}
      PROVE  \E c \in CommentsIn(nodes) : Ids(c) \cap Both # {} /\ On(LineIn(nodes, c))
  <2>1. PICK g \in DOMAIN program.files : s \in DirectivesIn(g, NodesIn(program, g))
    BY DEF DirectivesInv, Scanned
  <2>2. PICK c \in CommentsIn(NodesIn(program, g)) :
            s = [file |-> g, line |-> LineIn(NodesIn(program, g), c),
                 ids |-> ParseSuppression(NodesIn(program, g)[c].text)]
    BY <2>1 DEF DirectivesIn
  <2>3. g = f /\ s.line = LineIn(NodesIn(program, g), c)
          /\ s.ids = ParseSuppression(NodesIn(program, g)[c].text)
    BY <1>3, <2>2
  <2> HIDE DEF Both, On
  <2>4. c \in CommentsIn(nodes) /\ Ids(c) \cap Both # {} /\ On(LineIn(nodes, c))
    BY <1>3, <2>3
  <2> QED BY <2>4
<1>4. ASSUME NEW c \in CommentsIn(nodes), Ids(c) \cap Both # {}, On(LineIn(nodes, c))
      PROVE  \E s \in suppressions : s.file = f /\ On(s.line) /\ s.ids \cap Both # {}
  <2> DEFINE s == [file |-> f, line |-> LineIn(nodes, c), ids |-> Ids(c)]
  <2>1. Ids(c) # {}
    BY <1>4
  <2>2. s \in DirectivesIn(f, nodes)
    BY <2>1, Zenon DEF DirectivesIn
  <2>3. s.file = f /\ s.line = LineIn(nodes, c) /\ s.ids = Ids(c)
    OBVIOUS
  <2> HIDE DEF s, Ids, On, Both
  <2>4. f \in Scanned
    BY DEF Scanned
  <2>5. s \in suppressions
    BY <2>2, <2>4 DEF DirectivesInv
  <2> QED BY <1>4, <2>3, <2>5
<1>5. MatchSuppression(f, LineIn(nodes, i), id) <=>
          \E s \in suppressions : s.file = f /\ On(s.line) /\ s.ids \cap Both # {}
  BY Zenon DEF MatchSuppression
<1> HIDE DEF Ids, On, Both
<1> QED BY <1>1, <1>2, <1>3, <1>4, <1>5, Zenon

LEMMA DirectivesCorrect ==
    ASSUME PlaceInv, DirectivesInv PROVE DirectivesCover
<1> SUFFICES ASSUME phase = "done", NEW f \in DOMAIN program.files,
                    NEW i \in DOMAIN Nodes(f) \ Comments(f), NEW id \in {"p", "q"}
             PROVE  MatchSuppression(f, LineOf(f, i), id) <=>
                        \E c \in Comments(f) :
                            /\ Directive(Nodes(f)[c].text, id)
                            /\ IF c > i THEN \A k \in i + 1..c : SharesRow(f, k)
                               ELSE Rows(f, i - 1) = 1 /\ \A k \in c + 1..i - 1 : SharesRow(f, k)
  BY Zenon DEF DirectivesCover
<1> DEFINE nodes == NodesIn(program, f)
<1>1. /\ Nodes(f) = nodes /\ Comments(f) = CommentsIn(nodes)
      /\ LineOf(f, i) = LineIn(nodes, i) /\ i \in DOMAIN nodes \ CommentsIn(nodes)
  BY SameLines DEF Nodes, NodesIn
<1>2. \A k : SharesRow(f, k) <=> SharesRowIn(nodes, k)
  BY SameLines, Zenon DEF SharesRow, SharesRowIn
<1>3. Rows(f, i - 1) = RowsIn(nodes, i - 1)
  BY SameLines, Zenon
<1>4. id # Comma
  BY Zenon DEF Comma
<1> HIDE DEF nodes
<1>5. MatchSuppression(f, LineIn(nodes, i), id) <=>
          \E c \in CommentsIn(nodes) : Directive(nodes[c].text, id) /\ Reached(nodes, c, i)
  BY <1>1, <1>4, MatchesReached DEF nodes
<1>6. \A c : Reached(nodes, c, i) <=>
                 IF c > i THEN \A k \in i + 1..c : SharesRow(f, k)
                 ELSE Rows(f, i - 1) = 1 /\ \A k \in c + 1..i - 1 : SharesRow(f, k)
  BY <1>2, <1>3, Zenon DEF Reached, OnOneLine
<1> QED BY <1>1, <1>5, <1>6, Zenon

(* At the end of a run a policy is silenced at a node of a file exactly when *)
(* a comment whose directive names it, or every policy, begins on the node's *)
(* line or on the one above: for every program, in every language, whatever  *)
(* comments and nodes lie between (scanComments, ParseSuppression and        *)
(* MatchSuppression in suppressions.go).                                     *)
THEOREM DirectivesReachTheirLines == Spec => []DirectivesCover
<1>1. IInv /\ DirectivesInv => DirectivesCover
  BY DirectivesCorrect DEF IInv
<1> QED BY <1>1, GraphInvariant, DirectivesInvariant, PTL
=============================================================================
