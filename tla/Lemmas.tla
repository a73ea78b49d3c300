------------------------------- MODULE Lemmas -------------------------------
(* Facts about reachable sets, numbers and sequences that proofs share. *)
EXTENDS Naturals, Lists, SequencesExt, Reachability, SequenceTheorems,
        WellFoundedInduction, TLAPS

(* A reachable set holds its start and is closed; it lies in every closed  *)
(* set that holds the start.                                               *)
LEMMA ReachProperties ==
    ASSUME NEW S, NEW succ \in [S -> SUBSET S], NEW a \in S
    PROVE  /\ Reach(succ, a) \subseteq S
           /\ a \in Reach(succ, a)
           /\ IsClosed(succ, Reach(succ, a))
           /\ \A T \in SUBSET S :
                  a \in T /\ IsClosed(succ, T) => Reach(succ, a) \subseteq T
BY Zenon DEF Reach, IsClosed

(* A set of numbers has a least one. *)
LEMMA LeastNatural ==
    ASSUME NEW S \in SUBSET Nat, S # {}
    PROVE  \E m \in S : \A k \in S : m <= k
<1> DEFINE less == {ss \in Nat \X Nat : ss[1] < ss[2]}
<1>1. IsWellFoundedOn(less, Nat)
  BY NatLessThanWellFounded, Zenon DEF OpToRel
<1>2. \A k, m \in Nat : k < m => <<k, m>> \in less
  <2> TAKE k, m \in Nat
  <2> DEFINE pair == <<k, m>>
  <2>1. pair \in Nat \X Nat /\ pair[1] = k /\ pair[2] = m
    OBVIOUS
  <2> HIDE DEF pair
  <2>2. k < m => pair \in less
    BY <2>1
  <2> QED BY <2>2, Zenon DEF pair
<1>3. \E m \in S : \A k \in S : ~(<<k, m>> \in less)
  <2> HIDE DEF less
  <2> QED BY <1>1, WFMin, Zenon
<1> HIDE DEF less
<1>4. PICK m \in S : \A k \in S : ~(<<k, m>> \in less)
  BY <1>3
<1>5. \A k \in S : ~(k < m)
  BY <1>2, <1>4, Zenon
<1> QED BY <1>5

(* An index of a sequence is a number, and leads to an element. *)
LEMMA SeqElement ==
    ASSUME NEW S, NEW s \in Seq(S), NEW i \in DOMAIN s
    PROVE  i \in Nat /\ i \in 1..Len(s) /\ s[i] \in S
<1>1. DOMAIN s = 1..Len(s) /\ Len(s) \in Nat
  BY LenProperties
<1>2. i \in 1..Len(s)
  BY <1>1
<1> QED BY <1>1, <1>2, ElementOfSeq

(* A function on 1..N is a sequence. *)
LEMMA FunctionIsSeq ==
    ASSUME NEW S, NEW N \in Nat, NEW s \in [1..N -> S]
    PROVE  s \in Seq(S) /\ Len(s) = N /\ DOMAIN s = 1..N
<1>1. s \in Seq(S)
  OBVIOUS
<1> QED BY <1>1, LenProperties

(* Popping a stack: the top leaves, the rest keeps its elements. *)
LEMMA PopProperties ==
    ASSUME NEW S, NEW s \in Seq(S), s # <<>>
    PROVE  /\ s[Len(s)] \in S
           /\ SubSeq(s, 1, Len(s) - 1) \in Seq(S)
           /\ Range(s) = Range(SubSeq(s, 1, Len(s) - 1)) \cup {s[Len(s)]}
<1> DEFINE m == Len(s) - 1
           front == SubSeq(s, 1, m)
<1>1. m \in Nat /\ m + 1 = Len(s)
  BY EmptySeq, LenProperties
<1>2. \A j \in 1..m + 1 : s[j] \in S
  BY <1>1, ElementOfSeq
<1>3. /\ front \in Seq(S)
      /\ Len(front) = m
      /\ \A j \in 1..m : front[j] = s[j]
  <2> HIDE DEF m
  <2>1. /\ front \in Seq(S)
        /\ Len(front) = IF 1 <= m THEN m - 1 + 1 ELSE 0
        /\ \A j \in 1..m - 1 + 1 : front[j] = s[1 + j - 1]
    BY <1>1, <1>2, SubSeqProperties
  <2> QED BY <2>1, <1>1
<1>4. Range(front) = {s[j] : j \in 1..m}
  <2> HIDE DEF m, front
  <2> QED BY <1>1, <1>3, RangeEquality
<1>5. Range(s) = {s[j] : j \in 1..m + 1}
  BY <1>1, RangeEquality
<1>6. Range(s) = Range(front) \cup {s[m + 1]}
  <2> HIDE DEF m, front
  <2> QED BY <1>1, <1>4, <1>5
<1> QED BY <1>1, <1>2, <1>3, <1>6

(* Pushing on a stack adds one element. *)
LEMMA PushProperties ==
    ASSUME NEW S, NEW s \in Seq(S), NEW c \in S
    PROVE  /\ Append(s, c) \in Seq(S)
           /\ Range(Append(s, c)) = Range(s) \cup {c}
<1>1. /\ Append(s, c) \in Seq(S)
      /\ Len(Append(s, c)) = Len(s) + 1
      /\ \A j \in 1..Len(s) : Append(s, c)[j] = s[j]
      /\ Append(s, c)[Len(s) + 1] = c
  BY AppendProperties
<1>2. /\ Range(Append(s, c)) = {Append(s, c)[j] : j \in 1..Len(s) + 1}
      /\ Range(s) = {s[j] : j \in 1..Len(s)}
  BY <1>1, RangeEquality
<1>3. Len(s) \in Nat
  BY LenProperties
<1> QED BY <1>1, <1>2, <1>3

(* Taking the head off a sequence: the tail keeps the other elements. *)
LEMMA TailProperties ==
    ASSUME NEW S, NEW s \in Seq(S), s # <<>>
    PROVE  /\ Head(s) \in S
           /\ Tail(s) \in Seq(S)
           /\ Range(s) = {Head(s)} \cup Range(Tail(s))
<1>1. /\ Head(s) \in S /\ Tail(s) \in Seq(S)
      /\ Len(Tail(s)) = Len(s) - 1
      /\ \A i \in 1..Len(Tail(s)) : Tail(s)[i] = s[i + 1]
  BY HeadTailProperties
<1>2. /\ Len(s) \in Nat /\ Len(s) # 0 /\ Head(s) = s[1]
  BY EmptySeq, LenProperties
<1>3. /\ Range(Tail(s)) = {Tail(s)[i] : i \in 1..Len(s) - 1}
      /\ Range(s) = {s[i] : i \in 1..Len(s)}
  BY <1>1, RangeEquality
<1>4. Range(Tail(s)) = {s[i + 1] : i \in 1..Len(s) - 1}
  BY <1>1, <1>3
<1>5. {s[i] : i \in 1..Len(s)} = {s[1]} \cup {s[i + 1] : i \in 1..Len(s) - 1}
  <2>1. ASSUME NEW i \in 1..Len(s), i # 1
        PROVE  \E j \in 1..Len(s) - 1 : s[i] = s[j + 1]
    <3>1. i - 1 \in 1..Len(s) - 1 /\ i = (i - 1) + 1
      BY <1>2, <2>1
    <3> QED BY <3>1
  <2>2. \A j \in 1..Len(s) - 1 : j + 1 \in 1..Len(s)
    BY <1>2
  <2>3. 1 \in 1..Len(s)
    BY <1>2
  <2> QED BY <2>1, <2>2, <2>3
<1> QED BY <1>1, <1>2, <1>3, <1>4, <1>5

(* The greatest of some numbers up to n is among them, and none is greater. *)
LEMMA MaxIsAmong ==
    ASSUME NEW n \in Nat, NEW S \in SUBSET (0..n), S # {}
    PROVE  Max(S) \in S /\ \A y \in S : y <= Max(S)
<1> DEFINE T == {n - k : k \in S}
<1>1. T \in SUBSET Nat /\ T # {}
  <2>1. \A k \in S : n - k \in Nat
    OBVIOUS
  <2>2. T \in SUBSET Nat
    BY <2>1
  <2>3. PICK x \in S : TRUE
    OBVIOUS
  <2>4. n - x \in T
    BY <2>3
  <2> QED BY <2>2, <2>4
<1>2. PICK m \in T : \A k \in T : m <= k
  <2> HIDE DEF T
  <2> QED BY <1>1, LeastNatural
<1>3. PICK x \in S : m = n - x
  BY <1>2
<1>4. \A y \in S : n - y \in T
  OBVIOUS
<1>5. \A y \in S : y \in Nat
  OBVIOUS
<1> HIDE DEF T
<1>6. \A y \in S : x >= y
  BY <1>2, <1>3, <1>4, <1>5
<1>7. Max(S) \in S /\ \A y \in S : Max(S) >= y
  BY <1>6 DEF Max
<1> QED BY <1>5, <1>7

(* Induction over the places of a sequence, with a set for the hypothesis. *)
LEMMA UpToInduction ==
    ASSUME NEW N \in Nat, NEW P, 0 \in P, \A n \in 1..N : n - 1 \in P => n \in P
    PROVE  \A n \in 0..N : n \in P
<1> DEFINE Q == (0..N) \ P
<1> SUFFICES ASSUME Q # {} PROVE FALSE
  OBVIOUS
<1>1. PICK m \in Q : \A k \in Q : m <= k
  <2>1. Q \in SUBSET Nat
    OBVIOUS
  <2> HIDE DEF Q
  <2> QED BY <2>1, LeastNatural
<1>2. m \in 1..N /\ m - 1 \in 0..N /\ m - 1 \notin Q
  BY <1>1
<1>3. m - 1 \in P
  BY <1>2
<1> QED BY <1>1, <1>2, <1>3

(* What n steps make of b, for each n up to N. *)
StepsUpTo(N, V) == [1..N -> [V -> V]]
Unrolls(f, N, V, b, step) ==
    /\ f \in [0..N -> V]
    /\ f[0] = b
    /\ \A n \in 1..N : f[n] = step[n][f[n - 1]]

LEMMA Unrolling ==
    ASSUME NEW N \in Nat, NEW V, NEW b \in V, NEW step \in StepsUpTo(N, V)
    PROVE  \E f : Unrolls(f, N, V, b, step)
<1> USE DEF StepsUpTo, Unrolls
<1> DEFINE Upto(m) == \E f \in [0..m -> V] :
                          f[0] = b /\ \A n \in 1..m : f[n] = step[n][f[n - 1]]
           P == {m \in 0..N : Upto(m)}
<1>1. 0 \in P
  <2> DEFINE f == [n \in 0..0 |-> b]
  <2>1. f \in [0..0 -> V] /\ f[0] = b /\ \A n \in 1..0 : f[n] = step[n][f[n - 1]]
    OBVIOUS
  <2>2. Upto(0)
    <3> HIDE DEF f
    <3> QED BY <2>1
  <2> HIDE DEF Upto
  <2> QED BY <2>2
<1>2. ASSUME NEW m \in 1..N, m - 1 \in P PROVE m \in P
  <2>1. PICK f \in [0..m - 1 -> V] :
              f[0] = b /\ \A n \in 1..m - 1 : f[n] = step[n][f[n - 1]]
    BY <1>2
  <2> DEFINE g == [n \in 0..m |-> IF n = m THEN step[m][f[m - 1]] ELSE f[n]]
  <2>2. step[m] \in [V -> V] /\ m - 1 \in 0..m - 1
    OBVIOUS
  <2>3. f[m - 1] \in V
    BY <2>2
  <2>4. step[m][f[m - 1]] \in V
    BY <2>2, <2>3
  <2>5. g \in [0..m -> V]
    BY <2>4
  <2>6. g[0] = b
    BY <2>1
  <2>7. ASSUME NEW n \in 1..m PROVE g[n] = step[n][g[n - 1]]
    <3>1. n - 1 \in 0..m /\ n - 1 # m /\ n \in 0..m
      OBVIOUS
    <3>2. g[n - 1] = f[n - 1]
      BY <3>1
    <3>3. CASE n = m
      BY <3>1, <3>2, <3>3
    <3>4. CASE n # m
      <4>1. n \in 1..m - 1 /\ g[n] = f[n]
        BY <3>4, <3>1
      <4> QED BY <4>1, <3>2, <2>1
    <3> QED BY <3>3, <3>4
  <2>8. Upto(m)
    <3> HIDE DEF g
    <3> QED BY <2>5, <2>6, <2>7
  <2> HIDE DEF Upto
  <2> QED BY <2>8
<1>3. \A n \in 0..N : n \in P
  <2> HIDE DEF P
  <2> QED BY <1>1, <1>2, UpToInduction
<1>4. N \in P
  <2> HIDE DEF P
  <2> QED BY <1>3
<1> QED BY <1>4

(* f holds what SelectAt takes of s up to each place. *)
Selects(f, S, s, places) ==
    /\ f \in [0..Len(s) -> Seq(S)]
    /\ f[0] = <<>>
    /\ \A n \in 1..Len(s) :
           f[n] = IF n \in places THEN Append(f[n - 1], s[n]) ELSE f[n - 1]

LEMMA SelectAtDef ==
    ASSUME NEW S, NEW s \in Seq(S), NEW places
    PROVE  \E f : Selects(f, S, s, places) /\ SelectAt(s, places) = f[Len(s)]
<1> DEFINE N == Len(s)
           step == [n \in 1..N |-> [t \in Seq(S) |-> IF n \in places THEN Append(t, s[n])
                                                     ELSE t]]
<1>1. N \in Nat /\ \A n \in 1..N : s[n] \in S
  BY LenProperties, ElementOfSeq
<1>2. \A n \in 1..N, t \in Seq(S) : Append(t, s[n]) \in Seq(S)
  BY <1>1, AppendProperties
<1>3. step \in [1..N -> [Seq(S) -> Seq(S)]]
  <2> HIDE DEF N
  <2> QED BY <1>2
<1>4. <<>> \in Seq(S)
  BY EmptySeq
<1>5. PICK f : Unrolls(f, N, Seq(S), <<>>, step)
  <2>1. step \in StepsUpTo(N, Seq(S))
    BY <1>3 DEF StepsUpTo
  <2> HIDE DEF N, step
  <2> QED BY <1>1, <1>4, <2>1, Unrolling
<1>6. \A n \in 1..N : f[n] = IF n \in places THEN Append(f[n - 1], s[n]) ELSE f[n - 1]
  <2> TAKE n \in 1..N
  <2>1. n - 1 \in 0..N
    BY <1>1
  <2>2. f \in [0..N -> Seq(S)] /\ f[n] = step[n][f[n - 1]]
    BY <1>5 DEF Unrolls
  <2> HIDE DEF N
  <2> QED BY <2>1, <2>2
<1> DEFINE Unrolled(g) == g = [n \in 0..N |-> IF n = 0 THEN <<>>
                                     ELSE IF n \in places THEN Append(g[n - 1], s[n])
                                     ELSE g[n - 1]]
           h == CHOOSE g : Unrolled(g)
<1>7. Unrolled(f)
  <2>1. \A n \in 0..N : f[n] = IF n = 0 THEN <<>>
                               ELSE IF n \in places THEN Append(f[n - 1], s[n])
                               ELSE f[n - 1]
    <3> TAKE n \in 0..N
    <3> HIDE DEF N, step
    <3>1. n = 0 \/ n \in 1..N
      BY <1>1
    <3> QED BY <3>1, <1>5, <1>6 DEF Unrolls
  <2>2. f = [n \in 0..N |-> f[n]]
    BY <1>5 DEF Unrolls
  <2> HIDE DEF N
  <2> QED BY <2>1, <2>2, Zenon
<1>8. Unrolled(h)
  <2> HIDE DEF Unrolled
  <2> QED BY <1>7, Zenon
<1>9. SelectAt(s, places) = h[N]
  BY DEF SelectAt
<1>10. h = f
  <2> DEFINE P == {n \in 0..N : h[n] = f[n]}
  <2>1. \A n \in 0..N : n \in P
    <3> HIDE DEF h, step
    <3>1. 0 \in P
      BY <1>1, <1>5, <1>8 DEF Unrolls
    <3>2. ASSUME NEW n \in 1..N, n - 1 \in P PROVE n \in P
      <4>1. n \in 0..N /\ n # 0 /\ h[n - 1] = f[n - 1]
        BY <3>2, <1>1
      <4> HIDE DEF N
      <4> QED BY <4>1, <1>6, <1>8
    <3> HIDE DEF P
    <3> QED BY <1>1, <3>1, <3>2, UpToInduction
  <2>2. \A n \in 0..N : h[n] = f[n]
    BY <2>1
  <2>3. h = [n \in 0..N |-> h[n]]
    BY <1>8
  <2> HIDE DEF h, N, step
  <2> QED BY <1>5, <2>2, <2>3 DEF Unrolls
<1> HIDE DEF h, step
<1> QED BY <1>5, <1>6, <1>9, <1>10 DEF Unrolls, Selects

(* The h-th place, counted in order, for each h up to m. *)
Enumerates(h, A, m) ==
    /\ h \in [1..m -> A]
    /\ \A j, k \in 1..m : j < k => h[j] < h[k]
    /\ \A a \in A : \E k \in 1..m : h[k] = a

(* r is taken from the given places of s, from each once and in order. *)
TakenFrom(r, s, places) ==
    \E h : /\ Enumerates(h, places \cap 1..Len(s), Len(r))
           /\ \A k \in 1..Len(r) : r[k] = s[h[k]]

(* That is what selecting does. *)
LEMMA SelectAtPlaces ==
    ASSUME NEW S, NEW s \in Seq(S), NEW places
    PROVE  /\ SelectAt(s, places) \in Seq(S)
           /\ TakenFrom(SelectAt(s, places), s, places)
<1> DEFINE N == Len(s)
           Taken(r, n) == \E h : /\ Enumerates(h, places \cap 1..n, Len(r))
                                 /\ \A k \in 1..Len(r) : r[k] = s[h[k]]
<1>1. N \in Nat /\ \A n \in 1..N : s[n] \in S
  BY LenProperties, ElementOfSeq
<1>2. PICK f : Selects(f, S, s, places) /\ SelectAt(s, places) = f[N]
  BY SelectAtDef
<1>3. /\ f[0] = <<>>
      /\ \A n \in 0..N : f[n] \in Seq(S)
      /\ \A n \in 1..N : f[n] = IF n \in places THEN Append(f[n - 1], s[n]) ELSE f[n - 1]
  BY <1>2 DEF Selects
<1> DEFINE P == {n \in 0..N : Taken(f[n], n)}
<1>4. 0 \in P
  <2>1. Len(f[0]) = 0
    BY <1>3, EmptySeq
  <2>2. Enumerates(<<>>, places \cap 1..0, 0)
    BY DEF Enumerates
  <2>3. Taken(f[0], 0)
    BY <2>1, <2>2
  <2> HIDE DEF Taken
  <2> QED BY <1>1, <2>3
<1>5. ASSUME NEW n \in 1..N, n - 1 \in P PROVE n \in P
  <2>1. n \in 0..N /\ n - 1 \in 0..N /\ n \in Nat
    BY <1>1
  <2>2. PICK h : /\ Enumerates(h, places \cap 1..n - 1, Len(f[n - 1]))
                 /\ \A k \in 1..Len(f[n - 1]) : f[n - 1][k] = s[h[k]]
    BY <1>5
  <2>3. CASE n \notin places
    <3>1. f[n] = f[n - 1] /\ places \cap 1..n = places \cap 1..n - 1
      BY <1>3, <2>1, <2>3
    <3>2. Taken(f[n], n)
      BY <2>2, <3>1
    <3> HIDE DEF Taken
    <3> QED BY <2>1, <3>2
  <2>4. CASE n \in places
    <3> DEFINE m == Len(f[n - 1])
               e == [k \in 1..m + 1 |-> IF k = m + 1 THEN n ELSE h[k]]
    <3>1. f[n] = Append(f[n - 1], s[n]) /\ f[n - 1] \in Seq(S) /\ s[n] \in S
      BY <1>1, <1>3, <2>1, <2>4
    <3>2. /\ m \in Nat /\ Len(f[n]) = m + 1
          /\ \A k \in 1..m : f[n][k] = f[n - 1][k]
          /\ f[n][m + 1] = s[n]
      BY <3>1, AppendProperties, LenProperties
    <3> HIDE DEF m
    <3>3. Enumerates(h, places \cap 1..n - 1, m) /\ \A k \in 1..m : f[n - 1][k] = s[h[k]]
      BY <2>2 DEF m
    <3>4. Enumerates(e, places \cap 1..n, m + 1)
      <4>1. e \in [1..m + 1 -> places \cap 1..n]
        BY <2>1, <2>4, <3>2, <3>3 DEF Enumerates
      <4>2. ASSUME NEW j \in 1..m + 1, NEW k \in 1..m + 1, j < k PROVE e[j] < e[k]
        <5>1. j \in 1..m /\ e[j] = h[j] /\ h[j] \in 1..n - 1
          BY <3>2, <3>3, <4>2 DEF Enumerates
        <5>2. CASE k = m + 1
          BY <2>1, <5>1, <5>2
        <5>3. CASE k # m + 1
          BY <3>2, <3>3, <4>2, <5>1, <5>3 DEF Enumerates
        <5> QED BY <5>2, <5>3
      <4>3. ASSUME NEW a \in places \cap 1..n PROVE \E k \in 1..m + 1 : e[k] = a
        <5>1. CASE a = n
          <6>1. m + 1 \in 1..m + 1 /\ e[m + 1] = n
            BY <3>2
          <6> QED BY <5>1, <6>1
        <5>2. CASE a # n
          <6>1. a \in places \cap 1..n - 1
            BY <2>1, <5>2
          <6>2. PICK k \in 1..m : h[k] = a
            BY <3>3, <6>1 DEF Enumerates
          <6>3. k \in 1..m + 1 /\ e[k] = a
            BY <3>2, <6>2
          <6> QED BY <6>3
        <5> QED BY <5>1, <5>2
      <4> HIDE DEF e
      <4> QED BY <4>1, <4>2, <4>3 DEF Enumerates
    <3>5. \A k \in 1..m + 1 : f[n][k] = s[e[k]]
      BY <3>2, <3>3
    <3>6. Taken(f[n], n)
      <4> HIDE DEF e
      <4> QED BY <3>2, <3>4, <3>5
    <3> HIDE DEF Taken
    <3> QED BY <2>1, <3>6
  <2> QED BY <2>3, <2>4
<1>6. N \in P
  <2> HIDE DEF P
  <2>1. \A n \in 0..N : n \in P
    BY <1>1, <1>4, <1>5, UpToInduction
  <2> HIDE DEF N
  <2> QED BY <1>1, <2>1
<1>7. Taken(SelectAt(s, places), N)
  <2> HIDE DEF Taken
  <2> QED BY <1>2, <1>6
<1>8. SelectAt(s, places) \in Seq(S)
  BY <1>1, <1>2, <1>3
<1> QED BY <1>7, <1>8 DEF TakenFrom

(* What is appended to a concatenation is appended to its right part. *)
AppendsRight(a, b, x) == Append(a \o b, x) = a \o Append(b, x)

LEMMA AppendToConcat ==
    ASSUME NEW S, NEW a \in Seq(S), NEW b \in Seq(S), NEW x \in S
    PROVE  AppendsRight(a, b, x)
<1> DEFINE c == <<x>>
<1>1. c \in Seq(S) /\ a \o b \in Seq(S)
  BY ConcatProperties
<1>2. Append(a \o b, x) = (a \o b) \o c /\ Append(b, x) = b \o c
  BY <1>1, AppendIsConcat
<1>3. (a \o b) \o c = a \o (b \o c)
  <2> HIDE DEF c
  <2> QED BY <1>1, ConcatAssociative
<1> QED BY <1>2, <1>3 DEF AppendsRight

(* Selecting from a concatenation: from its left part, then from its right *)
(* one, whose places are counted on.                                       *)
PlacesApart(s, t, places, onLeft, onRight) ==
    /\ onLeft \cap 1..Len(s) = places \cap 1..Len(s)
    /\ \A i \in 1..Len(t) : i \in onRight <=> Len(s) + i \in places

SelectsApart(s, t, places, onLeft, onRight) ==
    SelectAt(s \o t, places) = SelectAt(s, onLeft) \o SelectAt(t, onRight)

LEMMA SelectAtConcat ==
    ASSUME NEW S, NEW s \in Seq(S), NEW t \in Seq(S), NEW places, NEW onLeft, NEW onRight,
           PlacesApart(s, t, places, onLeft, onRight)
    PROVE  SelectsApart(s, t, places, onLeft, onRight)
<1> USE DEF PlacesApart
<1> DEFINE M == Len(s)
           N == Len(t)
           both == s \o t
<1>1. /\ M \in Nat /\ N \in Nat
      /\ both \in Seq(S) /\ Len(both) = M + N
      /\ \A i \in 1..M + N : both[i] = IF i <= M THEN s[i] ELSE t[i - M]
  BY LenProperties, ConcatProperties
<1>2. PICK F : Selects(F, S, both, places) /\ SelectAt(both, places) = F[M + N]
  BY <1>1, SelectAtDef
<1>3. PICK f : Selects(f, S, s, onLeft) /\ SelectAt(s, onLeft) = f[M]
  BY SelectAtDef
<1>4. PICK g : Selects(g, S, t, onRight) /\ SelectAt(t, onRight) = g[N]
  BY SelectAtDef
<1> HIDE DEF both
<1>5. \A n \in 0..M : F[n] = f[n]
  <2> DEFINE P == {n \in 0..M : F[n] = f[n]}
  <2>1. 0 \in P
    BY <1>1, <1>2, <1>3 DEF Selects
  <2>2. ASSUME NEW n \in 1..M, n - 1 \in P PROVE n \in P
    <3>1. n \in 1..M + N /\ n \in 0..M /\ both[n] = s[n] /\ F[n - 1] = f[n - 1]
      BY <1>1, <2>2
    <3>2. n \in onLeft <=> n \in places
      BY <2>2
    <3>3. F[n] = IF n \in places THEN Append(F[n - 1], both[n]) ELSE F[n - 1]
      BY <1>1, <1>2, <3>1 DEF Selects
    <3>4. f[n] = IF n \in onLeft THEN Append(f[n - 1], s[n]) ELSE f[n - 1]
      BY <1>3, <2>2 DEF Selects
    <3> QED BY <3>1, <3>2, <3>3, <3>4
  <2>3. \A n \in 0..M : n \in P
    <3> HIDE DEF P, M, N
    <3> QED BY <1>1, <2>1, <2>2, UpToInduction
  <2> QED BY <2>3
<1>6. \A n \in 0..N : F[M + n] = f[M] \o g[n]
  <2> DEFINE P == {n \in 0..N : F[M + n] = f[M] \o g[n]}
  <2>1. f[M] \in Seq(S) /\ \A n \in 0..N : g[n] \in Seq(S)
    <3>1. f \in [0..M -> Seq(S)] /\ g \in [0..N -> Seq(S)]
      BY <1>3, <1>4 DEF Selects
    <3> HIDE DEF M, N
    <3> QED BY <1>1, <3>1
  <2>2. 0 \in P
    <3>1. g[0] = <<>>
      BY <1>4 DEF Selects
    <3>2. f[M] \o <<>> = f[M]
      BY <2>1, ConcatEmptySeq
    <3> HIDE DEF M, N
    <3>3. F[M + 0] = f[M] /\ 0 \in 0..N
      BY <1>1, <1>5
    <3> QED BY <3>1, <3>2, <3>3
  <2>3. ASSUME NEW n \in 1..N, n - 1 \in P PROVE n \in P
    <3>1. /\ M + n \in 1..M + N /\ n \in 0..N /\ n - 1 \in 0..N
          /\ (M + n) - 1 = M + (n - 1) /\ (M + n) - M = n /\ ~(M + n <= M)
      BY <1>1
    <3>2. both[M + n] = t[n] /\ t[n] \in S
      BY <1>1, <3>1, ElementOfSeq
    <3>3. F[M + n] = IF M + n \in places THEN Append(F[(M + n) - 1], both[M + n])
                     ELSE F[(M + n) - 1]
      BY <1>1, <1>2, <3>1 DEF Selects
    <3>4. F[(M + n) - 1] = f[M] \o g[n - 1]
      BY <2>3, <3>1
    <3>5. n \in onRight <=> M + n \in places
      OBVIOUS
    <3>6. g[n] = IF n \in onRight THEN Append(g[n - 1], t[n]) ELSE g[n - 1]
      BY <1>4 DEF Selects
    <3>7. Append(f[M] \o g[n - 1], t[n]) = f[M] \o Append(g[n - 1], t[n])
      <4>1. f[M] \in Seq(S) /\ g[n - 1] \in Seq(S) /\ t[n] \in S
        BY <2>1, <3>1, <3>2
      <4>2. AppendsRight(f[M], g[n - 1], t[n])
        BY <4>1, AppendToConcat
      <4> QED BY <4>2 DEF AppendsRight
    <3> HIDE DEF M, N
    <3> QED BY <3>1, <3>2, <3>3, <3>4, <3>5, <3>6, <3>7
  <2>4. \A n \in 0..N : n \in P
    <3> HIDE DEF P, M, N
    <3> QED BY <1>1, <2>2, <2>3, UpToInduction
  <2> QED BY <2>4
<1>7. F[M + N] = f[M] \o g[N]
  <2> HIDE DEF M, N
  <2>1. N \in 0..N
    BY <1>1
  <2> QED BY <2>1, <1>6
<1> QED BY <1>2, <1>3, <1>4, <1>7 DEF both, SelectsApart

(* Selecting from nothing and from one element. *)
LEMMA SelectAtFew ==
    ASSUME NEW S, NEW x \in S, NEW places
    PROVE  /\ SelectAt(<<>>, places) = <<>>
           /\ SelectAt(<<x>>, places) = IF 1 \in places THEN <<x>> ELSE <<>>
<1>1. <<>> \in Seq(S) /\ <<x>> \in Seq(S)
  BY EmptySeq
<1>2. PICK f : Selects(f, S, <<>>, places) /\ SelectAt(<<>>, places) = f[Len(<<>>)]
  BY <1>1, SelectAtDef
<1>3. SelectAt(<<>>, places) = <<>>
  BY <1>2 DEF Selects
<1>4. PICK g : Selects(g, S, <<x>>, places) /\ SelectAt(<<x>>, places) = g[Len(<<x>>)]
  BY <1>1, SelectAtDef
<1>5. Len(<<x>>) = 1 /\ g[0] = <<>> /\ g[1] = IF 1 \in places THEN Append(<<>>, x) ELSE <<>>
  BY <1>4 DEF Selects
<1> QED BY <1>3, <1>4, <1>5

(* Of no places, nothing. *)
LEMMA SelectAtNone ==
    ASSUME NEW S, NEW s \in Seq(S) PROVE SelectAt(s, {}) = <<>>
<1> DEFINE N == Len(s)
<1>1. PICK f : Selects(f, S, s, {}) /\ SelectAt(s, {}) = f[N]
  BY SelectAtDef
<1>2. N \in Nat
  BY LenProperties
<1>3. f[0] = <<>> /\ \A n \in 1..N : f[n] = f[n - 1]
  BY <1>1 DEF Selects
<1> HIDE DEF N
<1> DEFINE Q == {n \in 0..N : f[n] = <<>>}
<1>4. 0 \in Q
  BY <1>2, <1>3
<1>5. ASSUME NEW n \in 1..N, n - 1 \in Q PROVE n \in Q
  BY <1>2, <1>3, <1>5
<1>6. \A n \in 0..N : n \in Q
  <2> HIDE DEF Q
  <2> QED BY <1>2, <1>4, <1>5, UpToInduction
<1> QED BY <1>1, <1>2, <1>6

(* A place behind all others comes last. *)
SelectsLast(s, places, m) == SelectAt(s, places \cup {m}) = Append(SelectAt(s, places), s[m])

LEMMA SelectAtLast ==
    ASSUME NEW S, NEW s \in Seq(S), NEW m \in 1..Len(s), NEW places \in SUBSET (1..m - 1)
    PROVE  SelectsLast(s, places, m)
<1> DEFINE N == Len(s)
<1>1. N \in Nat /\ m \in 1..N
  BY LenProperties
<1>2. PICK f : Selects(f, S, s, places \cup {m}) /\ SelectAt(s, places \cup {m}) = f[N]
  BY SelectAtDef
<1>3. PICK g : Selects(g, S, s, places) /\ SelectAt(s, places) = g[N]
  BY SelectAtDef
<1>4. /\ f[0] = <<>>
      /\ \A n \in 1..N : f[n] = IF n \in places \cup {m} THEN Append(f[n - 1], s[n])
                               ELSE f[n - 1]
  BY <1>2 DEF Selects
<1>5. /\ g[0] = <<>>
      /\ \A n \in 1..N : g[n] = IF n \in places THEN Append(g[n - 1], s[n]) ELSE g[n - 1]
  BY <1>3 DEF Selects
<1> HIDE DEF N
<1> DEFINE P == {n \in 0..N : f[n] = IF n < m THEN g[n] ELSE Append(g[n], s[m])}
<1>6. 0 \in P
  BY <1>1, <1>4, <1>5
<1>7. ASSUME NEW n \in 1..N, n - 1 \in P PROVE n \in P
  <2>1. n \in 0..N /\ n \in Nat /\ m \in Nat
    BY <1>1
  <2>2. CASE n < m
    <3>1. f[n - 1] = g[n - 1] /\ n # m
      BY <1>1, <1>7, <2>2
    <3>2. f[n] = g[n]
      BY <1>4, <1>5, <3>1
    <3> QED BY <2>1, <2>2, <3>2
  <2>3. CASE n = m
    <3>1. f[n - 1] = g[n - 1]
      BY <1>1, <1>7, <2>3
    <3>2. n \notin places /\ n \in places \cup {m}
      BY <2>1, <2>3
    <3>3. g[n] = g[n - 1] /\ f[n] = Append(f[n - 1], s[n])
      BY <1>4, <1>5, <3>2
    <3>4. f[n] = Append(g[n], s[m]) /\ ~(n < m)
      BY <2>1, <2>3, <3>1, <3>3
    <3> QED BY <2>1, <3>4
  <2>4. CASE n > m
    <3>1. f[n - 1] = Append(g[n - 1], s[m])
      <4>1. ~(n - 1 < m)
        BY <2>1, <2>4
      <4> QED BY <1>7, <4>1
    <3>2. n \notin places /\ n \notin places \cup {m}
      <4>1. n # m /\ n \notin 1..m - 1
        BY <2>1, <2>4
      <4> QED BY <4>1
    <3>3. g[n] = g[n - 1] /\ f[n] = f[n - 1]
      BY <1>4, <1>5, <3>2
    <3>4. f[n] = Append(g[n], s[m]) /\ ~(n < m)
      BY <2>1, <2>4, <3>1, <3>3
    <3> QED BY <2>1, <3>4
  <2> QED BY <2>1, <2>2, <2>3, <2>4
<1>8. \A n \in 0..N : n \in P
  <2> HIDE DEF P
  <2> QED BY <1>1, <1>6, <1>7, UpToInduction
<1>9. f[N] = Append(g[N], s[m])
  <2>1. N \in 0..N /\ ~(N < m)
    BY <1>1
  <2> QED BY <1>8, <2>1
<1> QED BY <1>2, <1>3, <1>9 DEF SelectsLast

(* f holds what FlattenSeq makes of ss up to each place. *)
Flattens(f, S, ss) ==
    /\ f \in [0..Len(ss) -> Seq(S)]
    /\ f[0] = <<>>
    /\ \A n \in 1..Len(ss) : f[n] = f[n - 1] \o ss[n]

LEMMA FlattenDef ==
    ASSUME NEW S, NEW ss \in Seq(Seq(S))
    PROVE  \E f : Flattens(f, S, ss) /\ FlattenSeq(ss) = f[Len(ss)]
<1> DEFINE N == Len(ss)
           step == [n \in 1..N |-> [t \in Seq(S) |-> t \o ss[n]]]
<1>1. N \in Nat /\ \A n \in 1..N : ss[n] \in Seq(S)
  BY LenProperties, ElementOfSeq
<1>2. \A n \in 1..N, t \in Seq(S) : t \o ss[n] \in Seq(S)
  BY <1>1, ConcatProperties
<1>3. step \in [1..N -> [Seq(S) -> Seq(S)]]
  <2> HIDE DEF N
  <2> QED BY <1>2
<1>4. <<>> \in Seq(S)
  BY EmptySeq
<1>5. PICK f : Unrolls(f, N, Seq(S), <<>>, step)
  <2>1. step \in StepsUpTo(N, Seq(S))
    BY <1>3 DEF StepsUpTo
  <2> HIDE DEF N, step
  <2> QED BY <1>1, <1>4, <2>1, Unrolling
<1>6. /\ f \in [0..N -> Seq(S)]
      /\ f[0] = <<>>
      /\ \A n \in 1..N : f[n] = f[n - 1] \o ss[n]
  <2>1. f \in [0..N -> Seq(S)] /\ f[0] = <<>>
    BY <1>5 DEF Unrolls
  <2>2. ASSUME NEW n \in 1..N PROVE f[n] = f[n - 1] \o ss[n]
    <3>1. n - 1 \in 0..N
      BY <1>1
    <3>2. f[n] = step[n][f[n - 1]]
      BY <1>5 DEF Unrolls
    <3> HIDE DEF N
    <3> QED BY <2>1, <3>1, <3>2
  <2> QED BY <2>1, <2>2
<1>7. Flattens(f, S, ss)
  BY <1>6 DEF Flattens
<1>8. CASE N = 0
  <2>1. ss = <<>> /\ FlattenSeq(ss) = ss
    BY <1>8, EmptySeq DEF FlattenSeq
  <2> QED BY <1>6, <1>7, <1>8, <2>1
<1>9. CASE N # 0
  <2> DEFINE Unrolled(g) == g = [n \in 1..N |-> IF n = 1 THEN ss[n] ELSE g[n - 1] \o ss[n]]
             c == [n \in 1..N |-> f[n]]
             h == CHOOSE g : Unrolled(g)
  <2>1. \A n \in 1..N : c[n] = IF n = 1 THEN ss[n] ELSE c[n - 1] \o ss[n]
    <3> TAKE n \in 1..N
    <3>1. f[n] = f[n - 1] \o ss[n]
      BY <1>6
    <3>2. CASE n = 1
      <4>1. f[n] = <<>> \o ss[n] /\ ss[n] \in Seq(S)
        BY <1>1, <1>6, <3>1, <3>2
      <4>2. f[n] = ss[n]
        BY <4>1, ConcatEmptySeq
      <4> QED BY <3>2, <4>2
    <3>3. CASE n # 1
      <4>1. n - 1 \in 1..N /\ c[n - 1] = f[n - 1]
        BY <1>1, <3>3
      <4> QED BY <3>1, <3>3, <4>1
    <3> QED BY <3>2, <3>3
  <2>2. Unrolled(c)
    <3>1. c = [n \in 1..N |-> c[n]]
      OBVIOUS
    <3> HIDE DEF c, N
    <3> QED BY <2>1, <3>1
  <2>3. Unrolled(h)
    <3> HIDE DEF Unrolled, c
    <3> QED BY <2>2, Zenon
  <2>4. FlattenSeq(ss) = h[N]
    BY <1>9 DEF FlattenSeq
  <2>5. \A n \in 0..N : n >= 1 => h[n] = c[n]
    <3> DEFINE P == {n \in 0..N : n >= 1 => h[n] = c[n]}
    <3>1. 0 \in P
      BY <1>1
    <3>2. ASSUME NEW n \in 1..N, n - 1 \in P PROVE n \in P
      <4> HIDE DEF c, h, N
      <4>1. h[n] = IF n = 1 THEN ss[n] ELSE h[n - 1] \o ss[n]
        BY <2>3
      <4>2. c[n] = IF n = 1 THEN ss[n] ELSE c[n - 1] \o ss[n]
        BY <2>1
      <4>3. n # 1 => h[n - 1] = c[n - 1]
        BY <1>1, <3>2
      <4>4. h[n] = c[n]
        BY <4>1, <4>2, <4>3
      <4> QED BY <1>1, <4>4
    <3>3. \A n \in 0..N : n \in P
      <4> HIDE DEF P, N
      <4> QED BY <1>1, <3>1, <3>2, UpToInduction
    <3> QED BY <3>3
  <2>6. h[N] = f[N]
    <3>1. N \in 0..N /\ N \in 1..N /\ N >= 1
      BY <1>1, <1>9
    <3>2. h[N] = c[N] /\ c[N] = f[N]
      <4> HIDE DEF N, h
      <4> QED BY <3>1, <2>5
    <3> QED BY <3>2
  <2> HIDE DEF h
  <2> QED BY <1>7, <2>4, <2>6
<1> QED BY <1>8, <1>9

(* Concatenation is associative, as one fact. *)
Associates(a, b, c) == (a \o b) \o c = a \o (b \o c)

LEMMA ConcatAssociates ==
    ASSUME NEW S, NEW a \in Seq(S), NEW b \in Seq(S), NEW c \in Seq(S)
    PROVE  Associates(a, b, c)
BY ConcatAssociative DEF Associates

(* Flattening is a sequence, nothing of nothing, and goes on at the end. *)
LEMMA FlattenProperties ==
    ASSUME NEW S, NEW ss \in Seq(Seq(S))
    PROVE  /\ FlattenSeq(ss) \in Seq(S)
           /\ ss = <<>> => FlattenSeq(ss) = <<>>
<1>1. PICK f : Flattens(f, S, ss) /\ FlattenSeq(ss) = f[Len(ss)]
  BY FlattenDef
<1>2. Len(ss) \in Nat /\ (ss = <<>> => Len(ss) = 0)
  BY LenProperties, EmptySeq
<1> QED BY <1>1, <1>2 DEF Flattens

LEMMA FlattenConcat ==
    ASSUME NEW S, NEW ss \in Seq(Seq(S)), NEW tt \in Seq(Seq(S))
    PROVE  FlattenSeq(ss \o tt) = FlattenSeq(ss) \o FlattenSeq(tt)
<1> DEFINE M == Len(ss)
           N == Len(tt)
           both == ss \o tt
<1>1. /\ M \in Nat /\ N \in Nat
      /\ both \in Seq(Seq(S)) /\ Len(both) = M + N
      /\ \A i \in 1..M + N : both[i] = IF i <= M THEN ss[i] ELSE tt[i - M]
  BY LenProperties, ConcatProperties
<1>2. PICK F : Flattens(F, S, both) /\ FlattenSeq(both) = F[M + N]
  BY <1>1, FlattenDef
<1>3. PICK f : Flattens(f, S, ss) /\ FlattenSeq(ss) = f[M]
  BY FlattenDef
<1>4. PICK g : Flattens(g, S, tt) /\ FlattenSeq(tt) = g[N]
  BY FlattenDef
<1> HIDE DEF both
<1>5. \A n \in 0..M : F[n] = f[n]
  <2> DEFINE P == {n \in 0..M : F[n] = f[n]}
  <2>1. 0 \in P
    BY <1>1, <1>2, <1>3 DEF Flattens
  <2>2. ASSUME NEW n \in 1..M, n - 1 \in P PROVE n \in P
    <3>1. n \in 1..M + N /\ n \in 0..M /\ both[n] = ss[n] /\ F[n - 1] = f[n - 1]
      BY <1>1, <2>2
    <3>2. F[n] = F[n - 1] \o both[n]
      BY <1>1, <1>2, <3>1 DEF Flattens
    <3>3. f[n] = f[n - 1] \o ss[n]
      BY <1>3, <2>2 DEF Flattens
    <3> QED BY <3>1, <3>2, <3>3
  <2>3. \A n \in 0..M : n \in P
    <3> HIDE DEF P, M, N
    <3> QED BY <1>1, <2>1, <2>2, UpToInduction
  <2> QED BY <2>3
<1>6. \A n \in 0..N : F[M + n] = f[M] \o g[n]
  <2> DEFINE P == {n \in 0..N : F[M + n] = f[M] \o g[n]}
  <2>1. f[M] \in Seq(S) /\ \A n \in 0..N : g[n] \in Seq(S)
    <3>1. f \in [0..M -> Seq(S)] /\ g \in [0..N -> Seq(S)]
      BY <1>3, <1>4 DEF Flattens
    <3> HIDE DEF M, N
    <3> QED BY <1>1, <3>1
  <2>2. 0 \in P
    <3>1. g[0] = <<>>
      BY <1>4 DEF Flattens
    <3>2. f[M] \o <<>> = f[M]
      BY <2>1, ConcatEmptySeq
    <3> HIDE DEF M, N
    <3>3. M + 0 = M /\ M \in 0..M /\ 0 \in 0..N
      BY <1>1
    <3>4. F[M] = f[M]
      BY <1>5, <3>3
    <3>5. F[M + 0] = f[M] \o g[0]
      BY <3>1, <3>2, <3>3, <3>4
    <3> QED BY <3>3, <3>5
  <2>3. ASSUME NEW n \in 1..N, n - 1 \in P PROVE n \in P
    <3>1. /\ M + n \in 1..M + N /\ n \in 0..N /\ n - 1 \in 0..N
          /\ (M + n) - 1 = M + (n - 1) /\ (M + n) - M = n /\ ~(M + n <= M)
      BY <1>1
    <3>2. both[M + n] = tt[n] /\ tt[n] \in Seq(S)
      BY <1>1, <3>1, ElementOfSeq
    <3>3. F[M + n] = F[(M + n) - 1] \o both[M + n]
      BY <1>1, <1>2, <3>1 DEF Flattens
    <3>4. F[(M + n) - 1] = f[M] \o g[n - 1]
      BY <2>3, <3>1
    <3>5. g[n] = g[n - 1] \o tt[n]
      BY <1>4 DEF Flattens
    <3>6. (f[M] \o g[n - 1]) \o tt[n] = f[M] \o (g[n - 1] \o tt[n])
      <4>1. f[M] \in Seq(S) /\ g[n - 1] \in Seq(S) /\ tt[n] \in Seq(S)
        BY <2>1, <3>1, <3>2
      <4>2. Associates(f[M], g[n - 1], tt[n])
        BY <4>1, ConcatAssociates
      <4> QED BY <4>2 DEF Associates
    <3> HIDE DEF M, N
    <3> QED BY <3>1, <3>2, <3>3, <3>4, <3>5, <3>6
  <2>4. \A n \in 0..N : n \in P
    <3> HIDE DEF P, M, N
    <3> QED BY <1>1, <2>2, <2>3, UpToInduction
  <2> QED BY <2>4
<1>7. F[M + N] = f[M] \o g[N]
  <2> HIDE DEF M, N
  <2>1. N \in 0..N
    BY <1>1
  <2> QED BY <2>1, <1>6
<1> QED BY <1>2, <1>3, <1>4, <1>7 DEF both

LEMMA FlattenOne == ASSUME NEW S, NEW x \in Seq(S) PROVE FlattenSeq(<<x>>) = x
<1> DEFINE xs == <<x>>
<1>1. xs \in Seq(Seq(S)) /\ Len(xs) = 1 /\ xs[1] = x
  OBVIOUS
<1> HIDE DEF xs
<1>2. PICK f : Flattens(f, S, xs) /\ FlattenSeq(xs) = f[Len(xs)]
  BY <1>1, FlattenDef
<1>3. f[0] = <<>> /\ f[1] = f[0] \o x
  BY <1>1, <1>2 DEF Flattens
<1>4. f[1] = x
  BY <1>3, ConcatEmptySeq
<1>5. FlattenSeq(xs) = x
  BY <1>1, <1>2, <1>4
<1> QED BY <1>5 DEF xs

(* Flattening the one-element sequences of a sequence gives it back. *)
LEMMA FlattenSingles ==
    ASSUME NEW S, NEW s \in Seq(S), NEW ss, DOMAIN ss = DOMAIN s, ss \in Seq(Seq(S)),
           \A i \in DOMAIN s : ss[i] = <<s[i]>>
    PROVE  FlattenSeq(ss) = s
<1> DEFINE N == Len(s)
<1>1. /\ N \in Nat /\ DOMAIN s = 1..N /\ Len(ss) \in Nat /\ DOMAIN ss = 1..Len(ss)
      /\ \A n \in 1..N : s[n] \in S
  BY LenProperties, ElementOfSeq
<1>2. Len(ss) = N
  <2> HIDE DEF N
  <2> QED BY <1>1
<1>3. PICK f : Flattens(f, S, ss) /\ FlattenSeq(ss) = f[N]
  BY <1>2, FlattenDef
<1>4. /\ f \in [0..N -> Seq(S)]
      /\ f[0] = <<>>
      /\ \A n \in 1..N : f[n] = f[n - 1] \o <<s[n]>>
  <2> HIDE DEF N
  <2> QED BY <1>1, <1>2, <1>3 DEF Flattens
<1> DEFINE P == {n \in 0..N : Len(f[n]) = n /\ \A k \in 1..n : f[n][k] = s[k]}
<1> HIDE DEF N
<1>5. 0 \in P
  BY <1>1, <1>4, EmptySeq
<1>6. ASSUME NEW n \in 1..N, n - 1 \in P PROVE n \in P
  <2>1. /\ f[n - 1] \in Seq(S) /\ s[n] \in S /\ f[n] = f[n - 1] \o <<s[n]>>
        /\ Len(f[n - 1]) = n - 1 /\ \A k \in 1..n - 1 : f[n - 1][k] = s[k]
    BY <1>1, <1>4, <1>6
  <2>2. f[n] = Append(f[n - 1], s[n])
    BY <2>1, AppendIsConcat
  <2>3. /\ Len(f[n]) = n
        /\ \A k \in 1..n - 1 : f[n][k] = s[k]
        /\ f[n][n] = s[n]
    BY <1>1, <2>1, <2>2, AppendProperties
  <2>4. \A k \in 1..n : f[n][k] = s[k]
    BY <1>1, <2>3
  <2> QED BY <1>1, <2>3, <2>4
<1>7. \A n \in 0..N : n \in P
  <2> HIDE DEF P
  <2> QED BY <1>1, <1>5, <1>6, UpToInduction
<1>8. N \in 0..N
  BY <1>1
<1>9. f[N] \in Seq(S) /\ Len(f[N]) = Len(s) /\ \A k \in 1..Len(f[N]) : f[N][k] = s[k]
  BY <1>4, <1>7, <1>8 DEF N
<1> QED BY <1>3, <1>9, SeqEqual

(* A prefix, place by place. *)
LEMMA PrefixPlaces ==
    ASSUME NEW S, NEW s \in Seq(S), NEW t \in Seq(S)
    PROVE  IsPrefix(s, t) <=> Len(s) <= Len(t) /\ \A i \in 1..Len(s) : s[i] = t[i]
<1> DEFINE N == Len(s)
<1>1. /\ N \in Nat /\ Len(t) \in Nat
      /\ \A i \in 1..N : s[i] \in S
      /\ \A i \in 1..Len(t) : t[i] \in S
  BY LenProperties, ElementOfSeq
<1>2. ASSUME N <= Len(t)
      PROVE  SubSeq(s, 1, N) = SubSeq(t, 1, N) <=> \A i \in 1..N : s[i] = t[i]
  <2>1. \A i \in 1..N : t[i] \in S
    BY <1>1, <1>2
  <2>2. /\ SubSeq(s, 1, N) \in Seq(S) /\ SubSeq(t, 1, N) \in Seq(S)
        /\ Len(SubSeq(s, 1, N)) = N /\ Len(SubSeq(t, 1, N)) = N
        /\ \A i \in 1..N : SubSeq(s, 1, N)[i] = s[i]
        /\ \A i \in 1..N : SubSeq(t, 1, N)[i] = t[i]
    <3> HIDE DEF N
    <3>1. /\ SubSeq(s, 1, N) \in Seq(S)
          /\ Len(SubSeq(s, 1, N)) = IF 1 <= N THEN N - 1 + 1 ELSE 0
          /\ \A i \in 1..N - 1 + 1 : SubSeq(s, 1, N)[i] = s[1 + i - 1]
      BY <1>1, SubSeqProperties
    <3>2. /\ SubSeq(t, 1, N) \in Seq(S)
          /\ Len(SubSeq(t, 1, N)) = IF 1 <= N THEN N - 1 + 1 ELSE 0
          /\ \A i \in 1..N - 1 + 1 : SubSeq(t, 1, N)[i] = t[1 + i - 1]
      BY <1>1, <2>1, SubSeqProperties
    <3>3. N - 1 + 1 = N /\ \A i \in 1..N : 1 + i - 1 = i
      BY <1>1
    <3> QED BY <1>1, <3>1, <3>2, <3>3
  <2> DEFINE a == SubSeq(s, 1, N)
             b == SubSeq(t, 1, N)
  <2>3. a = b <=> \A i \in 1..N : a[i] = b[i]
    <3>1. a \in Seq(S) /\ b \in Seq(S) /\ Len(a) = N /\ Len(b) = N
      BY <2>2
    <3> HIDE DEF a, b, N
    <3> QED BY <3>1, SeqEqual
  <2>4. \A i \in 1..N : a[i] = s[i] /\ b[i] = t[i]
    BY <2>2
  <2> HIDE DEF a, b, N
  <2>5. a = b <=> \A i \in 1..N : s[i] = t[i]
    BY <2>3, <2>4
  <2> QED BY <2>5 DEF a, b
<1> QED BY <1>2 DEF IsPrefix

LEMMA EmptyIsPrefix == ASSUME NEW S, NEW t \in Seq(S) PROVE IsPrefix(<<>>, t)
<1> DEFINE e == <<>>
<1>1. e \in Seq(S) /\ Len(e) = 0 /\ Len(t) \in Nat
  BY EmptySeq, LenProperties
<1> HIDE DEF e
<1>2. Len(e) <= Len(t) /\ \A i \in 1..Len(e) : e[i] = t[i]
  BY <1>1
<1>3. IsPrefix(e, t)
  BY <1>1, <1>2, PrefixPlaces
<1> QED BY <1>3 DEF e

(* A prefix grows by the next element until it is the whole. *)
LEMMA PrefixGrows ==
    ASSUME NEW S, NEW s \in Seq(S), NEW t \in Seq(S), IsPrefix(s, t)
    PROVE  /\ Len(s) < Len(t) => /\ Append(s, t[Len(s) + 1]) \in Seq(S)
                                 /\ IsPrefix(Append(s, t[Len(s) + 1]), t)
           /\ ~(Len(s) < Len(t)) => s = t
<1>1. Len(s) \in Nat /\ Len(t) \in Nat /\ \A i \in 1..Len(t) : t[i] \in S
  BY LenProperties, ElementOfSeq
<1>2. Len(s) <= Len(t) /\ \A i \in 1..Len(s) : s[i] = t[i]
  BY PrefixPlaces
<1>3. ASSUME Len(s) < Len(t)
      PROVE  Append(s, t[Len(s) + 1]) \in Seq(S) /\ IsPrefix(Append(s, t[Len(s) + 1]), t)
  <2> DEFINE x == t[Len(s) + 1]
             r == Append(s, x)
  <2>1. x \in S
    BY <1>1, <1>3
  <2>2. /\ r \in Seq(S) /\ Len(r) = Len(s) + 1
        /\ \A i \in 1..Len(s) : r[i] = s[i]
        /\ r[Len(s) + 1] = x
    <3> HIDE DEF x
    <3> QED BY <2>1, AppendProperties
  <2> HIDE DEF r
  <2>3. Len(r) <= Len(t) /\ \A i \in 1..Len(r) : r[i] = t[i]
    BY <1>1, <1>2, <1>3, <2>2
  <2>4. r \in Seq(S) /\ IsPrefix(r, t)
    BY <2>2, <2>3, PrefixPlaces
  <2> QED BY <2>4 DEF r
<1>4. ASSUME ~(Len(s) < Len(t)) PROVE s = t
  <2>1. Len(s) = Len(t)
    BY <1>1, <1>2, <1>4
  <2> QED BY <1>2, <2>1, SeqEqual
<1> QED BY <1>3, <1>4

(* The left part of a concatenation is a prefix of what the whole is one  *)
(* of, and a prefix stays one when the sequence goes on.                  *)
LEMMA PrefixOfConcat ==
    ASSUME NEW S, NEW a \in Seq(S), NEW b \in Seq(S), NEW t \in Seq(S), IsPrefix(a \o b, t)
    PROVE  IsPrefix(a, t)
<1> DEFINE c == a \o b
<1>1. /\ c \in Seq(S) /\ Len(c) = Len(a) + Len(b)
      /\ \A i \in 1..Len(a) + Len(b) : c[i] = IF i <= Len(a) THEN a[i] ELSE b[i - Len(a)]
      /\ Len(a) \in Nat /\ Len(b) \in Nat /\ Len(t) \in Nat
  BY ConcatProperties, LenProperties
<1> HIDE DEF c
<1>2. IsPrefix(c, t)
  BY DEF c
<1>3. Len(c) <= Len(t) /\ \A i \in 1..Len(c) : c[i] = t[i]
  BY <1>1, <1>2, PrefixPlaces
<1>4. Len(a) <= Len(t) /\ \A i \in 1..Len(a) : a[i] = t[i]
  BY <1>1, <1>3
<1> QED BY <1>4, PrefixPlaces

LEMMA PrefixOfItself ==
    ASSUME NEW S, NEW s \in Seq(S)
    PROVE  IsPrefix(s, s)
<1>1. Len(s) \in Nat
  BY LenProperties
<1>2. Len(s) <= Len(s) /\ \A i \in 1..Len(s) : s[i] = s[i]
  BY <1>1
<1> QED BY <1>2, PrefixPlaces

LEMMA PrefixOfLonger ==
    ASSUME NEW S, NEW s \in Seq(S), NEW t \in Seq(S), NEW x \in S, IsPrefix(s, t)
    PROVE  IsPrefix(s, Append(t, x))
<1> DEFINE u == Append(t, x)
<1>1. /\ u \in Seq(S) /\ Len(u) = Len(t) + 1 /\ \A i \in 1..Len(t) : u[i] = t[i]
      /\ Len(s) \in Nat /\ Len(t) \in Nat
  BY AppendProperties, LenProperties
<1> HIDE DEF u
<1>2. Len(s) <= Len(t) /\ \A i \in 1..Len(s) : s[i] = t[i]
  BY PrefixPlaces
<1>3. Len(s) <= Len(u) /\ \A i \in 1..Len(s) : s[i] = u[i]
  BY <1>1, <1>2
<1>4. IsPrefix(s, u)
  BY <1>1, <1>3, PrefixPlaces
<1> QED BY <1>4 DEF u

(* What a prefix holds, the whole holds. *)
LEMMA PrefixTyped ==
    ASSUME NEW S, NEW T, NEW s \in Seq(T), NEW t \in Seq(S), IsPrefix(s, t)
    PROVE  s \in Seq(S)
<1> DEFINE U == S \cup T
           N == Len(s)
<1>1. s \in Seq(U) /\ t \in Seq(U)
  BY SeqMonotonic
<1> HIDE DEF U
<1>2. Len(s) <= Len(t) /\ \A i \in 1..Len(s) : s[i] = t[i]
  BY <1>1, PrefixPlaces
<1>3. N \in Nat /\ Len(t) \in Nat /\ s \in [1..N -> T] /\ \A i \in 1..Len(t) : t[i] \in S
  BY LenProperties, ElementOfSeq
<1>4. \A i \in 1..N : s[i] \in S
  BY <1>2, <1>3
<1> HIDE DEF N
<1>5. s \in [1..N -> S]
  BY <1>3, <1>4
<1> QED BY <1>3, <1>5, FunctionIsSeq

(* The elements selected are those at the places. *)
LEMMA SelectAtRange ==
    ASSUME NEW S, NEW s \in Seq(S), NEW places
    PROVE  Range(SelectAt(s, places)) = {s[i] : i \in places \cap 1..Len(s)}
<1> DEFINE r == SelectAt(s, places)
           A == places \cap 1..Len(s)
<1>1. r \in Seq(S) /\ TakenFrom(r, s, places)
  BY SelectAtPlaces
<1> HIDE DEF r
<1>2. PICK h : Enumerates(h, A, Len(r)) /\ \A k \in 1..Len(r) : r[k] = s[h[k]]
  BY <1>1 DEF TakenFrom
<1>3. Range(r) = {r[k] : k \in 1..Len(r)}
  BY <1>1, RangeEquality
<1> HIDE DEF A
<1>4. (\A k \in 1..Len(r) : h[k] \in A) /\ \A a \in A : \E k \in 1..Len(r) : h[k] = a
  BY <1>2 DEF Enumerates
<1>5. Range(r) = {s[i] : i \in A}
  BY <1>2, <1>3, <1>4
<1> QED BY <1>5 DEF r, A

(* Each element at its first place only: all of them, each once. *)
LEMMA DistinctProperties ==
    ASSUME NEW S, NEW s \in Seq(S)
    PROVE  /\ SelectAt(s, FirstPlaces(s)) \in Seq(S)
           /\ IsInjective(SelectAt(s, FirstPlaces(s)))
           /\ Range(SelectAt(s, FirstPlaces(s))) = Range(s)
<1> DEFINE places == FirstPlaces(s)
           r == SelectAt(s, places)
           N == Len(s)
<1>1. N \in Nat /\ DOMAIN s = 1..N /\ Range(s) = {s[i] : i \in 1..N}
  BY LenProperties, RangeEquality
<1>2. r \in Seq(S) /\ Range(r) = {s[i] : i \in places \cap 1..N} /\ TakenFrom(r, s, places)
  BY SelectAtRange, SelectAtPlaces
<1>3. Len(r) \in Nat /\ DOMAIN r = 1..Len(r)
  BY <1>2, LenProperties
<1> HIDE DEF r, N
<1>4. \A i \in places : i \in 1..N /\ \A j \in 1..i - 1 : s[j] # s[i]
  BY <1>1 DEF FirstPlaces
<1>5. ASSUME NEW j \in 1..N PROVE \E i \in places \cap 1..N : s[i] = s[j]
  <2> DEFINE same == {i \in 1..N : s[i] = s[j]}
  <2>1. same \in SUBSET Nat /\ same # {}
    BY <1>1
  <2>2. PICK i \in same : \A k \in same : i <= k
    <3> HIDE DEF same
    <3> QED BY <2>1, LeastNatural
  <2>3. i \in 1..N /\ s[i] = s[j]
    BY <2>2
  <2>4. ASSUME NEW k \in 1..i - 1 PROVE s[k] # s[i]
    <3>1. k \in 1..N /\ ~(i <= k)
      BY <1>1, <2>3
    <3> QED BY <2>2, <2>3, <3>1
  <2>5. i \in places
    BY <1>1, <2>3, <2>4 DEF FirstPlaces
  <2> QED BY <2>3, <2>5
<1>6. Range(r) = Range(s)
  <2> HIDE DEF places
  <2> QED BY <1>1, <1>2, <1>5
<1>7. IsInjective(r)
  <2> HIDE DEF places
  <2>1. PICK h : Enumerates(h, places \cap 1..N, Len(r)) /\ \A k \in 1..Len(r) : r[k] = s[h[k]]
    BY <1>2 DEF TakenFrom, N
  <2>2. \A j, k \in 1..Len(r) : j < k => r[j] # r[k]
    <3> TAKE j, k \in 1..Len(r)
    <3>1. h[j] \in places /\ h[k] \in places
      BY <2>1 DEF Enumerates
    <3>2. j < k => h[j] < h[k]
      BY <2>1 DEF Enumerates
    <3>3. h[j] \in 1..N /\ h[k] \in 1..N
      BY <1>4, <3>1
    <3>4. h[j] < h[k] => h[j] \in 1..h[k] - 1
      BY <1>1, <3>3
    <3> QED BY <1>4, <2>1, <3>1, <3>2, <3>4
  <2>3. \A j, k \in 1..Len(r) : r[j] = r[k] => j = k
    BY <1>3, <2>2
  <2> QED BY <1>3, <2>3 DEF IsInjective
<1> QED BY <1>2, <1>6, <1>7 DEF r

(* The image of a sequence, element by element. *)
IsImage(r, T, f, s) ==
    /\ r \in Seq(T) /\ Len(r) = Len(s) /\ DOMAIN r = 1..Len(s)
    /\ \A i \in 1..Len(s) : r[i] = f[s[i]]

LEMMA ImageProperties ==
    ASSUME NEW S, NEW T, NEW f \in [S -> T], NEW s \in Seq(S)
    PROVE  IsImage(Image(f, s), T, f, s)
<1> DEFINE N == Len(s)
<1>1. N \in Nat /\ DOMAIN s = 1..N /\ \A i \in 1..N : s[i] \in S
  BY LenProperties, ElementOfSeq
<1>2. Image(f, s) \in [1..N -> T] /\ \A i \in 1..N : Image(f, s)[i] = f[s[i]]
  BY <1>1 DEF Image
<1> HIDE DEF N
<1>3. Image(f, s) \in Seq(T) /\ Len(Image(f, s)) = N /\ DOMAIN Image(f, s) = 1..N
  BY <1>1, <1>2, FunctionIsSeq
<1> QED BY <1>2, <1>3 DEF N, IsImage

(* A sequence that is not empty is its head before its tail. *)
HeadFirst(s) == s = <<Head(s)>> \o Tail(s)

LEMMA HeadBeforeTail ==
    ASSUME NEW S, NEW s \in Seq(S), s # <<>>
    PROVE  HeadFirst(s)
<1> DEFINE one == <<Head(s)>>
           rest == Tail(s)
           both == one \o rest
<1>1. /\ Head(s) \in S /\ Head(s) = s[1] /\ rest \in Seq(S) /\ Len(rest) = Len(s) - 1
      /\ \A i \in 1..Len(s) - 1 : rest[i] = s[i + 1]
  <2>1. Head(s) \in S /\ Head(s) = s[1] /\ rest \in Seq(S) /\ Len(rest) = Len(s) - 1
        /\ \A i \in 1..Len(rest) : rest[i] = s[i + 1]
    BY HeadTailProperties
  <2> QED BY <2>1
<1>2. Len(s) \in Nat /\ Len(s) >= 1
  BY EmptySeq, LenProperties
<1>3. one \in Seq(S) /\ Len(one) = 1 /\ one[1] = s[1]
  BY <1>1
<1> HIDE DEF one, rest
<1>4. /\ both \in Seq(S) /\ Len(both) = Len(s)
      /\ \A i \in 1..Len(s) : both[i] = IF i <= 1 THEN one[i] ELSE rest[i - 1]
  <2>1. /\ both \in Seq(S) /\ Len(both) = 1 + Len(rest)
        /\ \A i \in 1..1 + Len(rest) : both[i] = IF i <= 1 THEN one[i] ELSE rest[i - 1]
    <3>1. /\ both \in Seq(S) /\ Len(both) = Len(one) + Len(rest)
          /\ \A i \in 1..Len(one) + Len(rest) :
                 both[i] = IF i <= Len(one) THEN one[i] ELSE rest[i - Len(one)]
      <4>1. one \in Seq(S) /\ rest \in Seq(S)
        BY <1>1, <1>3
      <4> QED BY <4>1, ConcatProperties
    <3> QED BY <1>3, <3>1
  <2>2. 1 + Len(rest) = Len(s)
    BY <1>1, <1>2
  <2> QED BY <2>1, <2>2
<1> HIDE DEF both
<1>5. \A i \in 1..Len(s) : both[i] = s[i]
  <2> TAKE i \in 1..Len(s)
  <2>1. CASE i = 1
    BY <1>2, <1>3, <1>4, <2>1
  <2>2. CASE i # 1
    <3>1. i - 1 \in 1..Len(s) - 1 /\ ~(i <= 1) /\ (i - 1) + 1 = i
      BY <1>2, <2>2
    <3> QED BY <1>1, <1>4, <3>1
  <2> QED BY <2>1, <2>2
<1>6. both = s
  BY <1>4, <1>5, SeqEqual
<1>7. both = <<Head(s)>> \o Tail(s)
  BY DEF both, one, rest
<1> QED BY <1>6, <1>7, Zenon DEF HeadFirst

(* Taking the head off a sequence takes the first image off its images. *)
ImageUnfolds(f, s) == Image(f, s) = <<f[Head(s)]>> \o Image(f, Tail(s))

LEMMA ImageOfHead ==
    ASSUME NEW S, NEW T, NEW f \in [S -> T], NEW s \in Seq(S), s # <<>>
    PROVE  ImageUnfolds(f, s)
<1> DEFINE r == Image(f, s)
           u == Tail(s)
           t == Image(f, u)
<1>1. /\ r \in Seq(T) /\ Len(r) = Len(s)
      /\ \A i \in 1..Len(s) : r[i] = f[s[i]]
  <2>1. IsImage(r, T, f, s)
    BY ImageProperties
  <2> HIDE DEF r
  <2> QED BY <2>1 DEF IsImage
<1>2. /\ u \in Seq(S) /\ Head(s) = s[1] /\ Len(u) = Len(s) - 1
      /\ \A i \in 1..Len(u) : u[i] = s[i + 1]
  BY HeadTailProperties
<1> HIDE DEF u
<1>3. /\ t \in Seq(T) /\ Len(t) = Len(s) - 1
      /\ \A i \in 1..Len(s) - 1 : t[i] = f[s[i + 1]]
  <2>1. /\ t \in Seq(T) /\ Len(t) = Len(u)
        /\ \A i \in 1..Len(u) : t[i] = f[u[i]]
    <3>1. IsImage(t, T, f, u)
      BY <1>2, ImageProperties
    <3> HIDE DEF t
    <3> QED BY <3>1 DEF IsImage
  <2> QED BY <1>2, <2>1
<1>4. Len(s) \in Nat /\ Len(s) >= 1
  BY EmptySeq, LenProperties
<1> HIDE DEF r, t
<1>5. /\ r # <<>> /\ Head(r) = f[Head(s)] /\ Tail(r) \in Seq(T) /\ Len(Tail(r)) = Len(s) - 1
      /\ \A i \in 1..Len(s) - 1 : Tail(r)[i] = r[i + 1]
  <2>1. r # <<>>
    BY <1>1, <1>4, EmptySeq
  <2>2. Head(r) = r[1] /\ Tail(r) \in Seq(T) /\ Len(Tail(r)) = Len(r) - 1
        /\ \A i \in 1..Len(Tail(r)) : Tail(r)[i] = r[i + 1]
    BY <1>1, <2>1, HeadTailProperties
  <2> QED BY <1>1, <1>2, <1>4, <2>1, <2>2
<1>6. Tail(r) = t
  <2>1. Len(Tail(r)) = Len(t)
    BY <1>3, <1>5
  <2>2. \A i \in 1..Len(Tail(r)) : Tail(r)[i] = t[i]
    <3> TAKE i \in 1..Len(Tail(r))
    <3>1. i \in 1..Len(s) - 1 /\ i + 1 \in 1..Len(s)
      BY <1>4, <1>5
    <3> QED BY <1>1, <1>3, <1>5, <3>1
  <2> QED BY <1>3, <1>5, <2>1, <2>2, SeqEqual
<1>7. r = <<Head(r)>> \o Tail(r)
  BY <1>1, <1>5, HeadBeforeTail DEF HeadFirst
<1>8. r = <<f[Head(s)]>> \o t
  BY <1>5, <1>6, <1>7, Zenon
<1> QED BY <1>8, Zenon DEF ImageUnfolds, r, t, u

(* What is taken off the right part of a concatenation and appended to the *)
(* left part leaves the whole as it was.                                   *)
Shifts(a, x, b) == a \o (<<x>> \o b) = Append(a, x) \o b

LEMMA ShiftOver ==
    ASSUME NEW S, NEW a \in Seq(S), NEW x \in S, NEW b \in Seq(S)
    PROVE  Shifts(a, x, b)
<1> DEFINE one == <<x>>
<1>1. one \in Seq(S)
  OBVIOUS
<1>2. Append(a, x) = a \o one
  BY AppendIsConcat
<1> HIDE DEF one
<1>3. (a \o one) \o b = a \o (one \o b)
  BY <1>1, ConcatAssociates DEF Associates
<1> QED BY <1>2, <1>3 DEF Shifts, one

(* The head and the tail of a concatenation are those of its left part. *)
BeginsLeft(s, t) ==
    /\ s \o t # <<>>
    /\ Head(s \o t) = Head(s)
    /\ Tail(s \o t) = Tail(s) \o t

LEMMA HeadOfConcat ==
    ASSUME NEW S, NEW s \in Seq(S), NEW t \in Seq(S), s # <<>>
    PROVE  BeginsLeft(s, t)
<1> DEFINE one == <<Head(s)>>
           rest == Tail(s)
           u == rest \o t
           v == one \o u
<1>1. /\ one \in Seq(S) /\ Len(one) = 1 /\ one[1] = Head(s)
      /\ rest \in Seq(S)
  BY TailProperties
<1> HIDE DEF one
<1>2. u \in Seq(S)
  BY <1>1, ConcatProperties
<1>3. s = one \o rest
  BY HeadBeforeTail DEF HeadFirst, one
<1>4. (one \o rest) \o t = one \o u
  <2>1. Associates(one, rest, t)
    <3> HIDE DEF rest
    <3> QED BY <1>1, ConcatAssociates
  <2> QED BY <2>1 DEF Associates
<1>5. s \o t = v
  <2> HIDE DEF rest
  <2> QED BY <1>3, <1>4 DEF u, v
<1> HIDE DEF u, rest
<1>6. /\ v \in Seq(S) /\ Len(v) = 1 + Len(u)
      /\ \A i \in 1..1 + Len(u) : v[i] = IF i <= 1 THEN one[i] ELSE u[i - 1]
      /\ Len(u) \in Nat
  <2>1. one \in Seq(S) /\ u \in Seq(S) /\ Len(one) = 1
    BY <1>1, <1>2
  <2>2. /\ v \in Seq(S) /\ Len(v) = Len(one) + Len(u)
        /\ \A i \in 1..Len(one) + Len(u) : v[i] = IF i <= Len(one) THEN one[i]
                                               ELSE u[i - Len(one)]
    BY <2>1, ConcatProperties
  <2>3. Len(u) \in Nat
    BY <2>1, LenProperties
  <2> QED BY <2>1, <2>2, <2>3
<1>7. v # <<>> /\ v[1] = Head(s)
  BY <1>1, <1>6, EmptySeq
<1> HIDE DEF v
<1>8. Head(v) = Head(s)
  BY <1>6, <1>7
<1>9. /\ Tail(v) \in Seq(S) /\ Len(Tail(v)) = Len(u)
      /\ \A i \in 1..Len(u) : Tail(v)[i] = v[i + 1]
  <2>1. /\ Tail(v) \in Seq(S) /\ Len(Tail(v)) = Len(v) - 1
        /\ \A i \in 1..Len(Tail(v)) : Tail(v)[i] = v[i + 1]
    BY <1>6, <1>7, HeadTailProperties
  <2>2. Len(Tail(v)) = Len(u)
    BY <1>6, <2>1
  <2> QED BY <2>1, <2>2
<1>10. \A i \in 1..Len(u) : Tail(v)[i] = u[i]
  <2> TAKE i \in 1..Len(u)
  <2>1. i + 1 \in 1..1 + Len(u) /\ ~(i + 1 <= 1) /\ (i + 1) - 1 = i
    BY <1>6
  <2> QED BY <1>6, <1>9, <2>1
<1>11. Tail(v) = u
  BY <1>2, <1>9, <1>10, SeqEqual
<1> QED BY <1>5, <1>7, <1>8, <1>11 DEF u, rest, BeginsLeft

(* Flattening from the head. *)
FlattenUnfolds(ss) == FlattenSeq(ss) = Head(ss) \o FlattenSeq(Tail(ss))

LEMMA FlattenHead ==
    ASSUME NEW S, NEW ss \in Seq(Seq(S)), ss # <<>>
    PROVE  FlattenUnfolds(ss)
<1> DEFINE one == <<Head(ss)>>
<1>1. Head(ss) \in Seq(S) /\ Tail(ss) \in Seq(Seq(S))
  BY HeadTailProperties
<1>2. ss = one \o Tail(ss)
  BY HeadBeforeTail DEF HeadFirst
<1>3. one \in Seq(Seq(S))
  BY <1>1
<1>4. FlattenSeq(one) = Head(ss)
  BY <1>1, FlattenOne
<1> HIDE DEF one
<1>5. FlattenSeq(one \o Tail(ss)) = FlattenSeq(one) \o FlattenSeq(Tail(ss))
  BY <1>1, <1>3, FlattenConcat
<1> QED BY <1>2, <1>4, <1>5 DEF FlattenUnfolds

(* Stretches of a sequence: their elements, two that meet, one within      *)
(* another, one behind a new first element, and one picked by its places.  *)
LEMMA SubSeqFacts ==
    ASSUME NEW S, NEW s \in Seq(S), NEW a \in Nat \ {0}, NEW b \in Nat, a <= b + 1, b <= Len(s)
    PROVE  /\ SubSeq(s, a, b) \in Seq(S) /\ Len(SubSeq(s, a, b)) = b - a + 1
           /\ \A i \in 1..b - a + 1 : SubSeq(s, a, b)[i] = s[a + i - 1]
<1>1. Len(s) \in Nat /\ \A i \in 1..Len(s) : s[i] \in S
  BY LenProperties, ElementOfSeq
<1>2. \A i \in a..b : s[i] \in S
  BY <1>1
<1>3. a \in Int /\ b \in Int
  OBVIOUS
<1>4. /\ SubSeq(s, a, b) \in Seq(S)
      /\ Len(SubSeq(s, a, b)) = IF a <= b THEN b - a + 1 ELSE 0
      /\ \A i \in 1..b - a + 1 : SubSeq(s, a, b)[i] = s[a + i - 1]
  BY <1>2, <1>3, SubSeqProperties
<1>5. (IF a <= b THEN b - a + 1 ELSE 0) = b - a + 1
  OBVIOUS
<1> QED BY <1>4, <1>5

Joins(s, a, b, c, d) == SubSeq(s, a, b) \o SubSeq(s, c, d) = SubSeq(s, a, d)

LEMMA SubSeqJoin ==
    ASSUME NEW S, NEW s \in Seq(S), NEW a \in Nat \ {0}, NEW b \in Nat, NEW c \in Nat, NEW d \in Nat,
           a <= b + 1, c = b + 1, b <= d, d <= Len(s)
    PROVE  Joins(s, a, b, c, d)
<1> DEFINE l == SubSeq(s, a, b)
           r == SubSeq(s, c, d)
           w == SubSeq(s, a, d)
           both == l \o r
<1>1. b <= Len(s) /\ a <= d + 1 /\ c \in Nat \ {0} /\ c <= d + 1
  BY LenProperties
<1>2. /\ l \in Seq(S) /\ Len(l) = b - a + 1
      /\ \A i \in 1..b - a + 1 : l[i] = s[a + i - 1]
  BY <1>1, SubSeqFacts
<1>3. /\ r \in Seq(S) /\ Len(r) = d - c + 1
      /\ \A i \in 1..d - c + 1 : r[i] = s[c + i - 1]
  BY <1>1, SubSeqFacts
<1>4. /\ w \in Seq(S) /\ Len(w) = d - a + 1
      /\ \A i \in 1..d - a + 1 : w[i] = s[a + i - 1]
  BY <1>1, SubSeqFacts
<1> HIDE DEF l, r, w
<1>5. /\ both \in Seq(S) /\ Len(both) = Len(l) + Len(r)
      /\ \A i \in 1..Len(l) + Len(r) : both[i] = IF i <= Len(l) THEN l[i] ELSE r[i - Len(l)]
  BY <1>2, <1>3, ConcatProperties
<1> HIDE DEF both
<1>6. Len(both) = Len(w) /\ Len(w) = d - a + 1
  BY <1>2, <1>3, <1>4, <1>5
<1>7. ASSUME NEW i \in 1..Len(both) PROVE both[i] = w[i]
  <2>1. i \in 1..d - a + 1 /\ w[i] = s[a + i - 1] /\ i \in 1..Len(l) + Len(r)
    BY <1>4, <1>5, <1>6
  <2>2. CASE i <= Len(l)
    <3>1. i \in 1..b - a + 1
      BY <1>2, <2>1, <2>2
    <3> QED BY <1>2, <1>5, <2>1, <2>2, <3>1
  <2>3. CASE ~(i <= Len(l))
    <3>1. i - Len(l) \in 1..d - c + 1
      BY <1>2, <1>3, <2>1, <2>3
    <3>2. c + (i - Len(l)) - 1 = a + i - 1
      BY <1>2, <2>1
    <3>3. r[i - Len(l)] = s[c + (i - Len(l)) - 1]
      BY <1>3, <3>1
    <3>4. both[i] = r[i - Len(l)]
      BY <1>5, <2>1, <2>3
    <3> QED BY <2>1, <3>2, <3>3, <3>4
  <2> QED BY <2>2, <2>3
<1>8. both = w
  BY <1>4, <1>5, <1>6, <1>7, SeqEqual
<1> QED BY <1>8 DEF Joins, both, l, r, w

Within(s, a, b, i, j) == SubSeq(SubSeq(s, a, b), i, j) = SubSeq(s, a + i - 1, a + j - 1)

LEMMA SubSeqInner ==
    ASSUME NEW S, NEW s \in Seq(S), NEW a \in Nat \ {0}, NEW b \in Nat, a <= b + 1, b <= Len(s),
           NEW i \in Nat \ {0}, NEW j \in Nat, i <= j + 1, j <= b - a + 1
    PROVE  Within(s, a, b, i, j)
<1> DEFINE t == SubSeq(s, a, b)
           m == a + i - 1
           n == a + j - 1
           l == SubSeq(t, i, j)
           r == SubSeq(s, m, n)
<1>1. /\ t \in Seq(S) /\ Len(t) = b - a + 1
      /\ \A k \in 1..b - a + 1 : t[k] = s[a + k - 1]
  BY SubSeqFacts
<1>2. m \in Nat \ {0} /\ n \in Nat /\ m <= n + 1 /\ n <= Len(s)
  BY LenProperties
<1>3. n - m + 1 = j - i + 1
  OBVIOUS
<1> HIDE DEF t
<1>4. /\ l \in Seq(S) /\ Len(l) = j - i + 1
      /\ \A k \in 1..j - i + 1 : l[k] = t[i + k - 1]
  BY <1>1, SubSeqFacts
<1>5. /\ r \in Seq(S) /\ Len(r) = n - m + 1
      /\ \A k \in 1..n - m + 1 : r[k] = s[m + k - 1]
  <2> HIDE DEF m, n
  <2> QED BY <1>2, SubSeqFacts
<1> HIDE DEF l, r
<1>6. ASSUME NEW k \in 1..Len(l) PROVE l[k] = r[k]
  <2>1. k \in 1..j - i + 1 /\ k \in 1..n - m + 1
    BY <1>3, <1>4
  <2>2. i + k - 1 \in 1..b - a + 1
    BY <2>1
  <2>3. a + (i + k - 1) - 1 = m + k - 1
    BY <2>1
  <2>4. t[i + k - 1] = s[a + (i + k - 1) - 1]
    BY <1>1, <2>2
  <2> QED BY <1>4, <1>5, <2>1, <2>3, <2>4
<1>7. l = r
  BY <1>3, <1>4, <1>5, <1>6, SeqEqual
<1> QED BY <1>7 DEF Within, l, r, t, m, n

Behind(x, s, a, b, i, j) == SubSeq(<<x>> \o s, i, j) = SubSeq(s, a, b)

LEMMA SubSeqBehind ==
    ASSUME NEW S, NEW s \in Seq(S), NEW x \in S, NEW a \in Nat \ {0}, NEW b \in Nat,
           a <= b + 1, b <= Len(s), NEW i, NEW j, i = a + 1, j = b + 1
    PROVE  Behind(x, s, a, b, i, j)
<1> DEFINE one == <<x>>
           z == one \o s
           l == SubSeq(z, i, j)
           r == SubSeq(s, a, b)
<1>1. one \in Seq(S) /\ Len(one) = 1 /\ Len(s) \in Nat
  BY LenProperties
<1> HIDE DEF one
<1>2. /\ z \in Seq(S) /\ Len(z) = 1 + Len(s)
      /\ \A k \in 1..1 + Len(s) : z[k] = IF k <= 1 THEN one[k] ELSE s[k - 1]
  <2>1. /\ z \in Seq(S) /\ Len(z) = Len(one) + Len(s)
        /\ \A k \in 1..Len(one) + Len(s) : z[k] = IF k <= Len(one) THEN one[k] ELSE s[k - Len(one)]
    BY <1>1, ConcatProperties
  <2> HIDE DEF z
  <2> QED BY <1>1, <2>1
<1> HIDE DEF z
<1>3. i \in Nat \ {0} /\ j \in Nat /\ i <= j + 1 /\ j <= Len(z)
  BY <1>1, <1>2
<1>4. /\ l \in Seq(S) /\ Len(l) = j - i + 1
      /\ \A k \in 1..j - i + 1 : l[k] = z[i + k - 1]
  BY <1>2, <1>3, SubSeqFacts
<1>5. /\ r \in Seq(S) /\ Len(r) = b - a + 1
      /\ \A k \in 1..b - a + 1 : r[k] = s[a + k - 1]
  BY SubSeqFacts
<1> HIDE DEF l, r
<1>6. j - i + 1 = b - a + 1
  OBVIOUS
<1>7. ASSUME NEW k \in 1..Len(l) PROVE l[k] = r[k]
  <2>1. k \in 1..b - a + 1 /\ k \in 1..j - i + 1
    BY <1>4, <1>6
  <2>2. i + k - 1 \in 1..1 + Len(s) /\ ~(i + k - 1 <= 1) /\ (i + k - 1) - 1 = a + k - 1
    BY <1>1, <2>1
  <2>3. z[i + k - 1] = s[a + k - 1]
    BY <1>2, <2>2
  <2> QED BY <1>4, <1>5, <2>1, <2>3
<1>8. l = r
  BY <1>4, <1>5, <1>6, <1>7, SeqEqual
<1> QED BY <1>8 DEF Behind, l, r, z, one

SelectsStretch(s, a, b) == SelectAt(s, a..b) = SubSeq(s, a, b)

LEMMA SelectAtStretch ==
    ASSUME NEW S, NEW s \in Seq(S), NEW a \in Nat \ {0}, NEW b \in Nat, a <= b + 1, b <= Len(s)
    PROVE  SelectsStretch(s, a, b)
<1> DEFINE N == b - a + 1
           P == {n \in 0..N : SelectsStretch(s, a, a + n - 1)}
<1>1. N \in Nat /\ Len(s) \in Nat
  BY LenProperties
<1>2. 0 \in P
  <2>1. SelectAt(s, {}) = <<>>
    BY SelectAtNone
  <2>2. a..a + 0 - 1 = {} /\ SubSeq(s, a, a + 0 - 1) = <<>>
    BY SubSeqEmpty
  <2>3. SelectsStretch(s, a, a + 0 - 1)
    BY <2>1, <2>2 DEF SelectsStretch
  <2> QED BY <1>1, <2>3
<1>3. ASSUME NEW n \in 1..N, n - 1 \in P PROVE n \in P
  <2> DEFINE m == a + n - 1
             k == m - 1
  <2>1. m \in 1..Len(s) /\ m \in Nat /\ k \in Nat /\ k = a + (n - 1) - 1 /\ a <= m /\ m <= Len(s)
    BY <1>1
  <2>2. SelectAt(s, a..k) = SubSeq(s, a, k)
    <3>1. SelectsStretch(s, a, a + (n - 1) - 1)
      BY <1>3
    <3> QED BY <2>1, <3>1 DEF SelectsStretch
  <2>3. a..k \in SUBSET (1..m - 1) /\ (a..k) \cup {m} = a..m
    BY <2>1
  <2> HIDE DEF m, k
  <2>4. SelectAt(s, (a..k) \cup {m}) = Append(SelectAt(s, a..k), s[m])
    BY <2>1, <2>3, SelectAtLast DEF SelectsLast
  <2>5. SubSeq(s, a, m) = Append(SubSeq(s, a, k), s[m])
    <3> DEFINE l == SubSeq(s, a, k)
    <3>1. k = m - 1 /\ a <= k + 1 /\ k <= Len(s)
      BY <1>1, <2>1 DEF k
    <3>2. l \in Seq(S) /\ s[m] \in S
      BY <2>1, <3>1, SubSeqFacts, ElementOfSeq
    <3>3. SubSeq(s, a, m) = l \o <<s[m]>>
      <4>1. a \in 1..Len(s) /\ m \in a..Len(s)
        BY <1>1, <2>1
      <4>2. SubSeq(s, a, m) = SubSeq(s, a, m - 1) \o <<s[m]>>
        BY <4>1, SubSeqRecursiveSecond
      <4> QED BY <3>1, <4>2
    <3> HIDE DEF l
    <3>4. Append(l, s[m]) = l \o <<s[m]>>
      BY <3>2, AppendIsConcat
    <3> QED BY <3>3, <3>4 DEF l
  <2>6. SelectsStretch(s, a, m)
    BY <2>2, <2>3, <2>4, <2>5 DEF SelectsStretch
  <2> QED BY <2>6 DEF m
<1>4. \A n \in 0..N : n \in P
  <2> HIDE DEF N, P
  <2> QED BY <1>1, <1>2, <1>3, UpToInduction
<1>5. N \in 0..N /\ a + N - 1 = b
  BY <1>1
<1>6. SelectsStretch(s, a, a + N - 1)
  BY <1>4, <1>5
<1> QED BY <1>5, <1>6

Regroups(a, b, c, d, e) == (((a \o b) \o c) \o d) \o e = a \o (((b \o c) \o d) \o e)

LEMMA ConcatRegroups ==
    ASSUME NEW S, NEW a \in Seq(S), NEW b \in Seq(S), NEW c \in Seq(S), NEW d \in Seq(S), NEW e \in Seq(S)
    PROVE  Regroups(a, b, c, d, e)
<1> DEFINE bc == b \o c
           bcd == bc \o d
<1>1. bc \in Seq(S)
  BY ConcatProperties
<1> HIDE DEF bc
<1>2. bcd \in Seq(S)
  BY <1>1, ConcatProperties
<1>3. Associates(a, b, c) /\ Associates(a, bc, d)
  BY <1>1, ConcatAssociates
<1> HIDE DEF bcd
<1>4. Associates(a, bcd, e)
  BY <1>2, ConcatAssociates
<1>5. (a \o b) \o c = a \o bc
  BY <1>3 DEF Associates, bc
<1>6. (a \o bc) \o d = a \o bcd
  BY <1>3 DEF Associates, bcd
<1>7. (a \o bcd) \o e = a \o (bcd \o e)
  BY <1>4 DEF Associates
<1>8. (((a \o b) \o c) \o d) \o e = a \o (bcd \o e)
  BY <1>5, <1>6, <1>7
<1> QED BY <1>8 DEF Regroups, bcd, bc

(* What stands behind a first element. *)
LEMMA TailOfOne ==
    ASSUME NEW S, NEW x \in S, NEW s \in Seq(S)
    PROVE  Tail(<<x>> \o s) = s
<1> DEFINE one == <<x>>
           z == one \o s
           t == Tail(z)
<1>1. one \in Seq(S) /\ Len(one) = 1 /\ Len(s) \in Nat
  BY LenProperties
<1> HIDE DEF one
<1>2. /\ z \in Seq(S) /\ Len(z) = Len(one) + Len(s)
      /\ \A k \in 1..Len(one) + Len(s) : z[k] = IF k <= Len(one) THEN one[k] ELSE s[k - Len(one)]
  BY <1>1, ConcatProperties
<1> HIDE DEF z
<1>3. z # <<>>
  <2>1. Len(z) # 0
    BY <1>1, <1>2
  <2> QED BY <2>1, EmptySeq
<1>4. t \in Seq(S) /\ Len(t) = Len(z) - 1 /\ \A k \in 1..Len(t) : t[k] = z[k + 1]
  BY <1>2, <1>3, HeadTailProperties
<1> HIDE DEF t
<1>5. Len(t) = Len(s)
  BY <1>1, <1>2, <1>4
<1>6. ASSUME NEW k \in 1..Len(t) PROVE t[k] = s[k]
  <2>1. k + 1 \in 1..Len(one) + Len(s) /\ ~(k + 1 <= Len(one)) /\ (k + 1) - Len(one) = k
    BY <1>1, <1>5
  <2> QED BY <1>2, <1>4, <2>1
<1>7. t = s
  BY <1>4, <1>5, <1>6, SeqEqual
<1> QED BY <1>7 DEF t, z, one
=============================================================================
