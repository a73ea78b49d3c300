----------------------------- MODULE ChainProofs -----------------------------
(* A finding's call chain is a shortest call path of the project, each hop *)
(* at its first call site, and it is nil only when there is none, for      *)
(* every graph and every order of the calls.                               *)
EXTENDS Chain, Lemmas

-----------------------------------------------------------------------------
(* The search, with the depth of each function seen: how many calls it is  *)
(* away from the source along the parents.                                 *)
Depths(d) ==
    /\ d \in [DOMAIN parents -> Nat]
    /\ src \in DOMAIN parents /\ d[src] = 0
    /\ \A f \in DOMAIN parents \ {src} :
           /\ parents[f] \in DOMAIN parents
           /\ f \in Succ[parents[f]]
           /\ d[f] = d[parents[f]] + 1

Queued(f) == \E a \in 1..Len(queue) : queue[a] = f

(* c has been seen, no further away than one call from f. *)
SeenFrom(d, f, c) == c \in DOMAIN parents /\ d[c] <= d[f] + 1

(* The queue is in the order of the depths, which differ by one at most;   *)
(* no function seen is deeper than the callees of n.                       *)
Ordered(d) ==
    /\ \A a \in 1..Len(queue) : queue[a] \in DOMAIN parents
    /\ \A a, b \in 1..Len(queue) : a <= b => d[queue[a]] <= d[queue[b]]
    /\ \A a, b \in 1..Len(queue) : d[queue[b]] <= d[queue[a]] + 1
    /\ n # NoFunc =>
           /\ n \in DOMAIN parents
           /\ \A f \in DOMAIN parents : d[f] <= d[n] + 1
           /\ \A a \in 1..Len(queue) : d[n] <= d[queue[a]]
    /\ n = NoFunc => DOMAIN parents = {src}

(* All that is not queued any more has been looked at, and so have the     *)
(* first i callees of n.                                                   *)
Explored(d) ==
    /\ \A f \in DOMAIN parents : f # n /\ ~Queued(f) => \A c \in Succ[f] : SeenFrom(d, f, c)
    /\ n # NoFunc => \A j \in 1..Len(callees[n]) : j <= i => SeenFrom(d, n, callees[n][j])

(* No call path from src to dst has m functions or fewer. *)
NoneWithin(m) == \A l \in 1..m : \A p \in [1..l -> Funcs] : ~IsCallPath(p)

Rebuilding(d) ==
    /\ path # <<>> /\ path[1] \in DOMAIN parents /\ dst \in DOMAIN parents
    /\ path[Len(path)] = dst
    /\ \A k \in 1..Len(path) - 1 : path[k + 1] \in Succ[path[k]]
    /\ Len(path) + d[path[1]] = d[dst] + 1
    /\ NoneWithin(d[dst])

Ends == src \in Funcs /\ dst \in Funcs /\ src # dst

ReadOnly == callees = CalleeMap(sites)

AtStart == pc = "start" => n = NoFunc /\ path = <<>>

AtSearch ==
    pc = "search" =>
        /\ Ends /\ path = <<>> /\ dst \notin DOMAIN parents
        /\ \E d : Depths(d) /\ Ordered(d) /\ Explored(d)

AtRebuild == pc = "rebuild" => Ends /\ \E d : Depths(d) /\ Rebuilding(d)

AtEnd ==
    pc \in {"locate", "done"} =>
        /\ path # <<>> => IsCallPath(path) /\ NoneWithin(Len(path) - 1)
        /\ path = <<>> /\ NoFunc \notin {src, dst} => dst \notin Reach(Succ, src)

IInv == TypeOK /\ ReadOnly /\ AtStart /\ AtSearch /\ AtRebuild /\ AtEnd /\ HopsLocated

-----------------------------------------------------------------------------
(* The callee map holds, for each function, the project functions it calls. *)
LEMMA CalleesAreCalled ==
    ASSUME NEW f \in Funcs, sites \in [Funcs -> Seq(CallSite)]
    PROVE  /\ CalleeMap(sites)[f] \in Seq(Funcs)
           /\ \A c : c \in Succ[f] <=>
                  \E j \in 1..Len(CalleeMap(sites)[f]) : CalleeMap(sites)[f][j] = c
<1> DEFINE calls == sites[f]
           places == FirstCalls(calls)
           first == SelectAt(calls, places)
           N == Len(first)
           M == Len(calls)
           found == [k \in 1..N |-> first[k].callee]
<1>1. calls \in Seq(CallSite) /\ M \in Nat /\ DOMAIN calls = 1..M
      /\ \A at \in 1..M : calls[at] \in CallSite
  BY LenProperties, ElementOfSeq
<1>2. first \in Seq(CallSite) /\ N \in Nat /\ DOMAIN first = 1..N
  <2> HIDE DEF calls, places
  <2> QED BY <1>1, SelectAtPlaces, LenProperties
<1>3. CalleeMap(sites)[f] = found
  BY <1>2 DEF CalleeMap
<1>4. PICK h : /\ Enumerates(h, places \cap 1..M, N)
               /\ \A k \in 1..N : first[k] = calls[h[k]]
  <2>1. TakenFrom(first, calls, places)
    <3> HIDE DEF calls, places
    <3> QED BY <1>1, SelectAtPlaces
  <2> HIDE DEF first, places, calls
  <2> QED BY <2>1 DEF TakenFrom
<1>5. \A at \in places : at \in 1..M /\ calls[at].callee \in Funcs
  BY <1>1 DEF FirstCalls
<1>6. \A k \in 1..N : h[k] \in places /\ found[k] = calls[h[k]].callee
  <2> HIDE DEF first, places, calls, M, N
  <2> QED BY <1>4 DEF Enumerates
<1>7. \A k \in 1..N : found[k] \in Funcs
  <2> HIDE DEF places, found
  <2> QED BY <1>5, <1>6
<1>8. found \in Seq(Funcs) /\ Len(found) = N
  <2>1. found \in [1..N -> Funcs]
    BY <1>7
  <2> HIDE DEF N
  <2>2. found \in Seq(Funcs)
    BY <1>2, <2>1
  <2> QED BY <1>2, <2>1, <2>2, LenProperties
<1>9. \A c : c \in Succ[f] <=> c \in Funcs /\ \E at \in 1..M : calls[at].callee = c
  <2>1. Range(calls) = {calls[at] : at \in 1..M}
    <3> HIDE DEF calls
    <3> QED BY <1>1, RangeEquality
  <2>2. Succ[f] = {s.callee : s \in Range(calls)} \cap Funcs
    BY DEF Succ
  <2> HIDE DEF calls
  <2> QED BY <2>1, <2>2
<1>10. ASSUME NEW c, c \in Succ[f] PROVE \E j \in 1..N : found[j] = c
  <2> DEFINE where == {at \in 1..M : calls[at].callee = c}
  <2>1. where # {} /\ where \in SUBSET Nat /\ c \in Funcs
    <3> HIDE DEF calls
    <3>1. c \in Funcs /\ \E at \in 1..M : calls[at].callee = c
      BY <1>9, <1>10
    <3>2. 1..M \in SUBSET Nat
      BY <1>1
    <3> HIDE DEF M
    <3> QED BY <3>1, <3>2
  <2>2. PICK at \in where : \A other \in where : at <= other
    <3> HIDE DEF where
    <3> QED BY <2>1, LeastNatural
  <2>3. at \in 1..M /\ calls[at].callee = c
    BY <2>2
  <2>4. ASSUME NEW before \in 1..at - 1 PROVE calls[before].callee # c
    <3>1. before \in 1..M /\ ~(at <= before)
      BY <1>1, <2>3
    <3> QED BY <2>2, <3>1
  <2>5. at \in places \cap 1..M
    BY <1>1, <2>1, <2>3, <2>4 DEF FirstCalls
  <2>6. PICK j \in 1..N : h[j] = at
    <3> HIDE DEF places, M, N
    <3> QED BY <1>4, <2>5 DEF Enumerates
  <2> QED BY <1>6, <2>3, <2>6
<1>11. ASSUME NEW j \in 1..N PROVE found[j] \in Succ[f]
  <2>1. h[j] \in 1..M /\ calls[h[j]].callee = found[j]
    <3> HIDE DEF places, found, calls, M, N
    <3> QED BY <1>5, <1>6
  <2> QED BY <1>7, <1>9, <2>1
<1> HIDE DEF found, N
<1> QED BY <1>3, <1>8, <1>10, <1>11

(* The bridge of a call is its first call site. *)
LEMMA BridgeIsFirst ==
    ASSUME NEW f \in Funcs, sites \in [Funcs -> Seq(CallSite)], NEW c \in Succ[f]
    PROVE  \E at \in DOMAIN sites[f] :
               /\ Bridge(f, c) = sites[f][at]
               /\ sites[f][at] \in CallSite
               /\ sites[f][at].callee = c
               /\ \A before \in 1..at - 1 : sites[f][before].callee # c
<1> DEFINE calls == sites[f]
           M == Len(calls)
           where == {at \in DOMAIN calls : calls[at].callee = c}
<1>1. calls \in Seq(CallSite) /\ M \in Nat /\ DOMAIN calls = 1..M
      /\ \A at \in 1..M : calls[at] \in CallSite
  BY LenProperties, ElementOfSeq
<1>2. \E at \in 1..M : calls[at].callee = c
  <2>1. Range(calls) = {calls[at] : at \in 1..M}
    <3> HIDE DEF calls
    <3> QED BY <1>1, RangeEquality
  <2>2. Succ[f] = {s.callee : s \in Range(calls)} \cap Funcs
    BY DEF Succ
  <2> HIDE DEF calls
  <2> QED BY <2>1, <2>2
<1>3. where # {} /\ where \in SUBSET Nat
  BY <1>1, <1>2
<1>4. \E at \in where : \A other \in where : at <= other
  <2> HIDE DEF where
  <2> QED BY <1>3, LeastNatural
<1> DEFINE first == Min(where)
<1>5. first \in where /\ \A other \in where : first <= other
  <2> HIDE DEF where
  <2> QED BY <1>4, Zenon DEF Min
<1>6. Bridge(f, c) = calls[first]
  BY DEF Bridge, FirstCall
<1> HIDE DEF first
<1>7. first \in 1..M /\ calls[first].callee = c
  BY <1>1, <1>5
<1>8. ASSUME NEW before \in 1..first - 1 PROVE calls[before].callee # c
  <2>1. before \in 1..M /\ ~(first <= before)
    BY <1>1, <1>7
  <2> QED BY <1>1, <1>5, <2>1
<1> QED BY <1>1, <1>6, <1>7, <1>8

-----------------------------------------------------------------------------
(* What the invariant says of the callees scanned. *)
LEMMA Callees ==
    ASSUME IInv, NEW f \in Funcs
    PROVE  /\ callees[f] \in Seq(Funcs) /\ Len(callees[f]) \in Nat
           /\ \A c : c \in Succ[f] <=> \E j \in 1..Len(callees[f]) : callees[f][j] = c
<1>1. sites \in [Funcs -> Seq(CallSite)] /\ callees = CalleeMap(sites)
  BY DEF IInv, TypeOK, ReadOnly
<1> QED BY <1>1, CalleesAreCalled, LenProperties

LEMMA InitIInv == ASSUME Init PROVE IInv
<1>1. /\ sites \in Graphs /\ callees = CalleeMap(sites)
      /\ src \in Funcs \cup {NoFunc} /\ dst \in Funcs \cup {NoFunc}
      /\ parents = <<>> /\ queue = <<>> /\ n = NoFunc /\ i = 0 /\ pc = "start"
      /\ path = <<>> /\ hops = <<>>
  BY DEF Init
<1>2. sites \in [Funcs -> Seq(CallSite)]
  BY <1>1, GraphsAssumption
<1>3. TypeOK
  <2>1. callees \in [Funcs -> Seq(Funcs)]
    <3>1. \A f \in Funcs : CalleeMap(sites)[f] \in Seq(Funcs)
      BY <1>2, CalleesAreCalled
    <3>2. CalleeMap(sites) = [f \in Funcs |-> CalleeMap(sites)[f]]
      BY DEF CalleeMap
    <3> QED BY <1>1, <3>1, <3>2
  <2>2. DOMAIN parents = {} /\ Range(parents) = {}
    BY <1>1 DEF Range
  <2>3. queue \in Seq(Funcs) /\ path \in Seq(Funcs) /\ hops \in Seq([function : Funcs, line : Nat])
    BY <1>1, EmptySeq
  <2> QED BY <1>1, <1>2, <2>1, <2>2, <2>3 DEF TypeOK
<1> QED BY <1>1, <1>3 DEF IInv, ReadOnly, AtStart, AtSearch, AtRebuild, AtEnd, HopsLocated

(* While the graph and the ends stay, so does what is asked of a chain. *)
LEMMA SameQuestion ==
    ASSUME sites' = sites, src' = src, dst' = dst
    PROVE  /\ Succ' = Succ
           /\ Reach(Succ, src)' = Reach(Succ, src)
           /\ \A p : IsCallPath(p)' <=> IsCallPath(p)
           /\ \A m : NoneWithin(m)' <=> NoneWithin(m)
<1>1. Succ' = Succ
  BY DEF Succ
<1>2. \A p : IsCallPath(p)' <=> IsCallPath(p)
  BY <1>1 DEF IsCallPath
<1> QED BY <1>1, <1>2 DEF NoneWithin

(* A graph always answers, and an action that is no part of the search     *)
(* leaves its questions alone.                                             *)
LEMMA EarlyReturnStep == ASSUME IInv, EarlyReturn PROVE IInv'
<1>1. /\ pc = "start" /\ pc' = "locate" /\ hops' = hops
      /\ sites' = sites /\ callees' = callees /\ src' = src /\ dst' = dst
      /\ parents' = parents /\ queue' = queue /\ n' = n /\ i' = i
      /\ \/ NoFunc \in {src, dst} /\ path' = <<>>
         \/ NoFunc \notin {src, dst} /\ src = dst /\ path' = <<src>>
  BY DEF EarlyReturn
<1>2. {src, dst} \subseteq Funcs \cup {NoFunc}
  BY DEF IInv, TypeOK
<1>3. path' \in Seq(Funcs)
  <2>1. CASE path' = <<>>
    BY <2>1, EmptySeq
  <2>2. CASE src \in Funcs /\ path' = <<src>>
    BY <2>2
  <2> QED BY <1>1, <1>2, <2>1, <2>2
<1>4. TypeOK'
  BY <1>1, <1>3 DEF IInv, TypeOK
<1>5. AtEnd'
  <2>1. CASE NoFunc \in {src, dst} /\ path' = <<>>
    BY <1>1, <2>1 DEF AtEnd
  <2>2. CASE src \in Funcs /\ src = dst /\ path' = <<src>>
    <3>1. /\ path'[1] = src /\ path'[Len(path')] = dst /\ Len(path') = 1
          /\ path' # <<>>
      BY <2>2
    <3>2. IsCallPath(path')
      BY <3>1 DEF IsCallPath
    <3>3. IsCallPath(path)'
      BY <1>1, <3>2, SameQuestion DEF IsCallPath
    <3>4. NoneWithin(Len(path) - 1)'
      BY <3>1 DEF NoneWithin
    <3> QED BY <3>1, <3>3, <3>4 DEF AtEnd
  <2> QED BY <1>1, <1>2, <2>1, <2>2
<1>6. ReadOnly' /\ AtStart' /\ AtSearch' /\ AtRebuild' /\ HopsLocated'
  BY <1>1 DEF IInv, ReadOnly, AtStart, AtSearch, AtRebuild, HopsLocated
<1> QED BY <1>4, <1>5, <1>6 DEF IInv

LEMMA BeginStep == ASSUME IInv, Begin PROVE IInv'
<1>1. /\ pc = "start" /\ pc' = "search" /\ hops' = hops /\ path' = path
      /\ sites' = sites /\ callees' = callees /\ src' = src /\ dst' = dst
      /\ parents' = [f \in {src} |-> NoFunc] /\ queue' = <<src>> /\ n' = n /\ i' = i
      /\ NoFunc \notin {src, dst} /\ src # dst
  BY DEF Begin
<1>2. src \in Funcs /\ dst \in Funcs /\ n = NoFunc /\ path = <<>>
  BY <1>1 DEF IInv, TypeOK, AtStart
<1>3. DOMAIN parents' = {src} /\ Range(parents') = {NoFunc}
  BY <1>1 DEF Range
<1>4. TypeOK'
  <2>1. queue' \in Seq(Funcs)
    BY <1>1, <1>2
  <2> QED BY <1>1, <1>2, <1>3, <2>1 DEF IInv, TypeOK
<1>5. AtSearch'
  <2> PICK d : d = [f \in {src} |-> 0]
    OBVIOUS
  <2>1. Len(queue') = 1 /\ queue'[1] = src
    BY <1>1
  <2>2. d \in [DOMAIN parents' -> Nat] /\ d[src] = 0
    BY <1>3
  <2>3. Depths(d)'
    BY <1>1, <1>3, <2>2 DEF Depths
  <2>4. Ordered(d)'
    <3>1. \A a \in 1..1 : queue'[a] = src
      BY <2>1
    <3> QED BY <1>1, <1>2, <1>3, <2>1, <2>2, <3>1 DEF Ordered
  <2>5. Explored(d)'
    BY <1>1, <1>2, <1>3, <2>1 DEF Explored, Queued
  <2>6. Ends' /\ path' = <<>> /\ dst' \notin DOMAIN parents'
    BY <1>1, <1>2, <1>3 DEF Ends
  <2> QED BY <2>3, <2>4, <2>5, <2>6 DEF AtSearch
<1>6. ReadOnly' /\ AtStart' /\ AtRebuild' /\ AtEnd' /\ HopsLocated'
  BY <1>1 DEF IInv, ReadOnly, AtStart, AtRebuild, AtEnd, HopsLocated
<1> QED BY <1>4, <1>5, <1>6 DEF IInv

LEMMA DequeueStep == ASSUME IInv, Dequeue PROVE IInv'
<1>1. /\ pc = "search" /\ pc' = pc /\ hops' = hops /\ path' = path
      /\ sites' = sites /\ callees' = callees /\ src' = src /\ dst' = dst /\ parents' = parents
      /\ queue # <<>> /\ n' = Head(queue) /\ queue' = Tail(queue) /\ i' = 0
      /\ n = NoFunc \/ ~(i < Len(callees[n]))
  BY DEF Dequeue, Scanning
<1>2. PICK d : Depths(d) /\ Ordered(d) /\ Explored(d)
  BY <1>1 DEF IInv, AtSearch
<1>3. /\ Ends /\ path = <<>> /\ dst \notin DOMAIN parents /\ DOMAIN parents \subseteq Funcs
      /\ queue \in Seq(Funcs) /\ i \in Nat /\ n \in Funcs \cup {NoFunc} /\ NoFunc \notin Funcs
  BY <1>1, NoFuncAssumption DEF IInv, AtSearch, TypeOK
<1> DEFINE L == Len(queue)
<1>4. /\ L \in Nat /\ 1 \in 1..L
      /\ n' = queue[1] /\ n' \in Funcs /\ queue' \in Seq(Funcs) /\ Len(queue') = L - 1
      /\ \A a \in 1..L - 1 : a + 1 \in 1..L /\ queue'[a] = queue[a + 1]
  <2>1. /\ Head(queue) = queue[1] /\ Head(queue) \in Funcs
        /\ Tail(queue) \in Seq(Funcs) /\ Len(Tail(queue)) = L - 1
        /\ \A a \in 1..L - 1 : Tail(queue)[a] = queue[a + 1]
    BY <1>1, <1>3, HeadTailProperties
  <2>2. L \in Nat /\ L # 0
    BY <1>1, <1>3, EmptySeq, LenProperties
  <2> HIDE DEF L
  <2> QED BY <1>1, <2>1, <2>2
<1>5. TypeOK'
  BY <1>1, <1>3, <1>4 DEF IInv, TypeOK
<1>6. Succ' = Succ
  BY <1>1, SameQuestion
<1>7. Depths(d)'
  BY <1>1, <1>2, <1>6 DEF Depths
<1>8. d \in [DOMAIN parents -> Nat] /\ d[src] = 0
  BY <1>2 DEF Depths
<1> HIDE DEF L
<1>9. /\ \A a \in 1..L : queue[a] \in DOMAIN parents
      /\ \A a, b \in 1..L : a <= b => d[queue[a]] <= d[queue[b]]
      /\ \A a, b \in 1..L : d[queue[b]] <= d[queue[a]] + 1
      /\ n # NoFunc =>
           /\ n \in DOMAIN parents
           /\ \A f \in DOMAIN parents : d[f] <= d[n] + 1
           /\ \A a \in 1..L : d[n] <= d[queue[a]]
      /\ n = NoFunc => DOMAIN parents = {src}
  BY <1>2 DEF Ordered, L
<1>10. Ordered(d)'
  <2>1. \A a \in 1..L - 1 : queue'[a] \in DOMAIN parents
    BY <1>4, <1>9
  <2>2. \A a, b \in 1..L - 1 : a <= b => d[queue'[a]] <= d[queue'[b]]
    <3> TAKE a, b \in 1..L - 1
    <3>1. /\ a + 1 \in 1..L /\ b + 1 \in 1..L
          /\ a <= b => a + 1 <= b + 1
          /\ queue'[a] = queue[a + 1] /\ queue'[b] = queue[b + 1]
      BY <1>4
    <3> QED BY <1>9, <3>1
  <2>3. \A a, b \in 1..L - 1 : d[queue'[b]] <= d[queue'[a]] + 1
    <3> TAKE a, b \in 1..L - 1
    <3>1. /\ a + 1 \in 1..L /\ b + 1 \in 1..L
          /\ queue'[a] = queue[a + 1] /\ queue'[b] = queue[b + 1]
      BY <1>4
    <3> QED BY <1>9, <3>1
  <2>4. n' \in DOMAIN parents /\ n' # NoFunc
    BY <1>3, <1>4, <1>9
  <2>5. \A f \in DOMAIN parents : d[f] <= d[n'] + 1
    <3> TAKE f \in DOMAIN parents
    <3>1. d[f] \in Nat /\ d[n'] \in Nat
      BY <1>8, <2>4
    <3>2. CASE n = NoFunc
      BY <1>8, <1>9, <3>1, <3>2
    <3>3. CASE n # NoFunc
      <4>1. d[f] <= d[n] + 1 /\ d[n] <= d[n'] /\ d[n] \in Nat
        BY <1>4, <1>8, <1>9, <3>3
      <4> QED BY <3>1, <4>1
    <3> QED BY <3>2, <3>3
  <2>6. \A a \in 1..L - 1 : d[n'] <= d[queue'[a]]
    BY <1>4, <1>9
  <2> QED BY <1>1, <1>4, <2>1, <2>2, <2>3, <2>4, <2>5, <2>6 DEF Ordered
<1>11. Explored(d)'
  <2>1. ASSUME NEW f \in DOMAIN parents, f # n', ~\E a \in 1..L - 1 : queue'[a] = f, NEW c \in Succ[f]
        PROVE  SeenFrom(d, f, c)
    <3>1. ~Queued(f)
      <4> SUFFICES ASSUME NEW a \in 1..L, queue[a] = f PROVE FALSE
        BY DEF Queued, L
      <4>1. a = 1 \/ (a - 1 \in 1..L - 1 /\ (a - 1) + 1 = a)
        BY <1>4
      <4> QED BY <1>4, <2>1, <4>1
    <3>2. CASE f # n
      BY <1>2, <2>1, <3>1, <3>2 DEF Explored
    <3>3. CASE f = n
      <4>1. n \in Funcs /\ n # NoFunc
        BY <1>3, <3>3
      <4>2. PICK j \in 1..Len(callees[n]) : callees[n][j] = c
        BY <2>1, <3>3, <4>1, Callees
      <4>3. j <= i
        BY <1>1, <1>3, <4>1, Callees
      <4> QED BY <1>2, <3>3, <4>1, <4>2, <4>3 DEF Explored
    <3> QED BY <3>2, <3>3
  <2>2. \A f, c : SeenFrom(d, f, c)' <=> SeenFrom(d, f, c)
    BY <1>1 DEF SeenFrom
  <2>3. \A f : Queued(f)' <=> \E a \in 1..L - 1 : queue'[a] = f
    BY <1>4 DEF Queued
  <2>4. \A j \in 1..Len(callees'[n']) : ~(j <= i')
    BY <1>1
  <2> QED BY <1>1, <1>6, <2>1, <2>2, <2>3, <2>4 DEF Explored
<1>12. AtSearch'
  <2>1. Ends' /\ path' = <<>> /\ dst' \notin DOMAIN parents'
    BY <1>1, <1>3 DEF Ends
  <2> QED BY <1>7, <1>10, <1>11, <2>1 DEF AtSearch
<1>13. ReadOnly' /\ AtStart' /\ AtRebuild' /\ AtEnd' /\ HopsLocated'
  BY <1>1 DEF IInv, ReadOnly, AtStart, AtRebuild, AtEnd, HopsLocated
<1> QED BY <1>5, <1>12, <1>13 DEF IInv

(* Where the scan stands: at a callee of n, with the search in order. *)
LEMMA ScanningState ==
    ASSUME IInv, Scanning
    PROVE  /\ pc = "search" /\ n \in Funcs /\ n # NoFunc /\ i \in Nat
           /\ i + 1 \in 1..Len(callees[n]) /\ Len(callees[n]) \in Nat
           /\ callees[n][i + 1] \in Succ[n] /\ callees[n][i + 1] \in Funcs
           /\ Ends /\ path = <<>> /\ dst \notin DOMAIN parents
           /\ DOMAIN parents \subseteq Funcs /\ n \in DOMAIN parents
           /\ \E d : Depths(d) /\ Ordered(d) /\ Explored(d)
<1>1. /\ pc = "search" /\ n # NoFunc /\ i < Len(callees[n])
      /\ n \in Funcs /\ i \in Nat /\ DOMAIN parents \subseteq Funcs
  BY DEF Scanning, IInv, TypeOK
<1>2. Len(callees[n]) \in Nat /\ callees[n] \in Seq(Funcs)
  BY <1>1, Callees
<1>3. i + 1 \in 1..Len(callees[n])
  BY <1>1, <1>2
<1>4. callees[n][i + 1] \in Succ[n]
  BY <1>1, <1>3, Callees
<1>5. callees[n][i + 1] \in Funcs
  BY <1>2, <1>3, ElementOfSeq
<1>6. /\ Ends /\ path = <<>> /\ dst \notin DOMAIN parents
      /\ \E d : Depths(d) /\ Ordered(d) /\ Explored(d)
  BY <1>1 DEF IInv, AtSearch
<1>7. n \in DOMAIN parents
  BY <1>1, <1>6 DEF Ordered
<1> QED BY <1>1, <1>2, <1>3, <1>4, <1>5, <1>6, <1>7

LEMMA SkipSeenStep == ASSUME IInv, SkipSeen PROVE IInv'
<1>1. /\ Scanning /\ callees[n][i + 1] \in DOMAIN parents /\ i' = i + 1
      /\ pc' = pc /\ hops' = hops /\ path' = path /\ n' = n /\ queue' = queue
      /\ sites' = sites /\ callees' = callees /\ src' = src /\ dst' = dst /\ parents' = parents
  BY DEF SkipSeen
<1>2. /\ pc = "search" /\ n \in Funcs /\ n # NoFunc /\ i \in Nat
      /\ Ends /\ path = <<>> /\ dst \notin DOMAIN parents /\ n \in DOMAIN parents
  BY <1>1, ScanningState
<1>3. PICK d : Depths(d) /\ Ordered(d) /\ Explored(d)
  BY <1>1, ScanningState
<1>4. TypeOK'
  BY <1>1, <1>2 DEF IInv, TypeOK
<1>5. Depths(d)'
  BY <1>1, <1>3, SameQuestion DEF Depths
<1>6. Ordered(d)'
  BY <1>1, <1>3 DEF Ordered
<1>7. Explored(d)'
  <2>1. SeenFrom(d, n, callees[n][i + 1])
    BY <1>1, <1>2, <1>3 DEF Ordered, SeenFrom
  <2>2. \A j \in 1..Len(callees[n]) : j <= i + 1 => SeenFrom(d, n, callees[n][j])
    <3> TAKE j \in 1..Len(callees[n])
    <3>1. j <= i + 1 => j <= i \/ j = i + 1
      BY <1>2
    <3> QED BY <1>2, <1>3, <2>1, <3>1 DEF Explored
  <2>3. \A f, c : SeenFrom(d, f, c)' <=> SeenFrom(d, f, c)
    BY <1>1 DEF SeenFrom
  <2>4. Succ' = Succ
    BY <1>1, SameQuestion
  <2>5. \A f : Queued(f)' <=> Queued(f)
    BY <1>1 DEF Queued
  <2>6. \A f \in DOMAIN parents : f # n /\ ~Queued(f) => \A c \in Succ[f] : SeenFrom(d, f, c)
    BY <1>3 DEF Explored
  <2> QED BY <1>1, <2>2, <2>3, <2>4, <2>5, <2>6 DEF Explored
<1>8. AtSearch'
  <2>1. Ends' /\ path' = <<>> /\ dst' \notin DOMAIN parents'
    BY <1>1, <1>2 DEF Ends
  <2> QED BY <1>5, <1>6, <1>7, <2>1 DEF AtSearch
<1>9. ReadOnly' /\ AtStart' /\ AtRebuild' /\ AtEnd' /\ HopsLocated'
  BY <1>1, <1>2 DEF IInv, ReadOnly, AtStart, AtRebuild, AtEnd, HopsLocated
<1> QED BY <1>4, <1>8, <1>9 DEF IInv

(* A callee seen for the first time is one call deeper than its caller. *)
LEMMA DiscoveredDepths ==
    ASSUME IInv, Scanning, NEW d, Depths(d), Ordered(d),
           sites' = sites, src' = src,
           callees[n][i + 1] \notin DOMAIN parents,
           parents' = [f \in DOMAIN parents \cup {callees[n][i + 1]} |->
                          IF f = callees[n][i + 1] THEN n ELSE parents[f]]
    PROVE  \E e : /\ Depths(e)'
                  /\ e[callees[n][i + 1]] = d[n] + 1
                  /\ \A f \in DOMAIN parents : e[f] = d[f]
<1> DEFINE c == callees[n][i + 1]
<1>1. n \in DOMAIN parents /\ c \in Succ[n]
  BY ScanningState
<1>2. /\ d \in [DOMAIN parents -> Nat]
      /\ src \in DOMAIN parents /\ d[src] = 0
      /\ \A f \in DOMAIN parents \ {src} :
             parents[f] \in DOMAIN parents /\ f \in Succ[parents[f]] /\ d[f] = d[parents[f]] + 1
  BY DEF Depths
<1>3. Succ' = Succ
  BY DEF Succ
<1> HIDE DEF c
<1>4. /\ c \notin DOMAIN parents
      /\ parents' = [f \in DOMAIN parents \cup {c} |-> IF f = c THEN n ELSE parents[f]]
  BY DEF c
<1>5. PICK e : e = [f \in DOMAIN parents \cup {c} |-> IF f = c THEN d[n] + 1 ELSE d[f]]
  OBVIOUS
<1>6. e[c] = d[n] + 1 /\ \A f \in DOMAIN parents : e[f] = d[f] /\ parents'[f] = parents[f]
  BY <1>4, <1>5
<1>7. DOMAIN parents' = DOMAIN parents \cup {c} /\ parents'[c] = n
  BY <1>4
<1>8. e \in [DOMAIN parents' -> Nat]
  BY <1>1, <1>2, <1>5, <1>7
<1>9. ASSUME NEW f \in DOMAIN parents' \ {src}
      PROVE  parents'[f] \in DOMAIN parents' /\ f \in Succ[parents'[f]] /\ e[f] = e[parents'[f]] + 1
  <2>1. CASE f = c
    BY <1>1, <1>6, <1>7, <2>1
  <2>2. CASE f # c
    <3>1. f \in DOMAIN parents \ {src}
      BY <1>7, <2>2
    <3> QED BY <1>2, <1>6, <1>7, <3>1
  <2> QED BY <2>1, <2>2
<1>10. Depths(e)'
  <2>1. src' \in DOMAIN parents' /\ e[src'] = 0
    BY <1>2, <1>6, <1>7
  <2> QED BY <1>3, <1>8, <1>9, <2>1 DEF Depths
<1> QED BY <1>6, <1>10 DEF c

LEMMA DiscoverStep ==
    ASSUME IInv, Discover, callees[n][i + 1] # dst PROVE IInv'
<1> DEFINE c == callees[n][i + 1]
           L == Len(queue)
<1>1. /\ Scanning /\ c \notin DOMAIN parents /\ i' = i + 1
      /\ parents' = [f \in DOMAIN parents \cup {c} |-> IF f = c THEN n ELSE parents[f]]
      /\ pc' = pc /\ hops' = hops /\ path' = path /\ n' = n /\ queue' = Append(queue, c)
      /\ sites' = sites /\ callees' = callees /\ src' = src /\ dst' = dst
  BY DEF Discover
<1>2. /\ pc = "search" /\ n \in Funcs /\ n # NoFunc /\ i \in Nat
      /\ Ends /\ path = <<>> /\ dst \notin DOMAIN parents /\ n \in DOMAIN parents
      /\ c \in Funcs /\ DOMAIN parents \subseteq Funcs /\ c # dst
  BY <1>1, ScanningState
<1>3. PICK d : Depths(d) /\ Ordered(d) /\ Explored(d)
  BY <1>1, ScanningState
<1>4. PICK e : /\ Depths(e)'
               /\ e[c] = d[n] + 1
               /\ \A f \in DOMAIN parents : e[f] = d[f]
  BY <1>1, <1>3, DiscoveredDepths
<1>5. c = callees[n][i + 1]
  OBVIOUS
<1> HIDE DEF c
<1>6. /\ queue' \in Seq(Funcs) /\ Len(queue') = L + 1 /\ L \in Nat
      /\ \A a \in 1..L : queue'[a] = queue[a]
      /\ queue'[L + 1] = c
  <2>1. queue \in Seq(Funcs)
    BY DEF IInv, TypeOK
  <2> QED BY <1>1, <1>2, <2>1, AppendProperties, LenProperties
<1>7. DOMAIN parents' = DOMAIN parents \cup {c} /\ d \in [DOMAIN parents -> Nat]
  BY <1>1, <1>3 DEF Depths
<1>8. TypeOK'
  <2>1. Range(parents') \subseteq Funcs \cup {NoFunc}
    <3>1. \A f \in DOMAIN parents' : parents'[f] \in Funcs \cup {NoFunc}
      <4>1. \A f \in DOMAIN parents : parents[f] \in Funcs \cup {NoFunc}
        BY DEF IInv, TypeOK, Range
      <4> QED BY <1>1, <1>2, <4>1
    <3> QED BY <3>1 DEF Range
  <2>2. DOMAIN parents' \subseteq Funcs
    BY <1>2, <1>7
  <2>3. i' \in Nat /\ queue' \in Seq(Funcs)
    BY <1>1, <1>2, <1>6
  <2>4. /\ sites \in [Funcs -> Seq(CallSite)] /\ callees \in [Funcs -> Seq(Funcs)]
        /\ hops \in Seq([function : Funcs, line : Nat])
        /\ {src, dst, n} \subseteq Funcs \cup {NoFunc}
        /\ pc \in {"start", "search", "rebuild", "locate", "done"} /\ path \in Seq(Funcs)
    BY DEF IInv, TypeOK
  <2>5. /\ sites' = sites /\ callees' = callees /\ src' = src /\ dst' = dst /\ n' = n
        /\ hops' = hops /\ pc' = pc /\ path' = path
    BY <1>1
  <2> QED BY <2>1, <2>2, <2>3, <2>4, <2>5 DEF TypeOK
<1>9. /\ \A a \in 1..L : queue[a] \in DOMAIN parents
      /\ \A a, b \in 1..L : a <= b => d[queue[a]] <= d[queue[b]]
      /\ \A a, b \in 1..L : d[queue[b]] <= d[queue[a]] + 1
      /\ \A f \in DOMAIN parents : d[f] <= d[n] + 1
      /\ \A a \in 1..L : d[n] <= d[queue[a]]
  BY <1>2, <1>3 DEF Ordered
<1> HIDE DEF L
<1>10. /\ \A a \in 1..L : e[queue'[a]] = d[queue[a]] /\ queue'[a] \in DOMAIN parents'
                          /\ d[queue[a]] \in Nat
       /\ e[queue'[L + 1]] = d[n] + 1 /\ queue'[L + 1] \in DOMAIN parents'
       /\ e[n] = d[n] /\ d[n] \in Nat
  BY <1>2, <1>4, <1>6, <1>7, <1>9
<1>11. \A a \in 1..L + 1 : a \in 1..L \/ a = L + 1
  BY <1>6
<1>12. Ordered(e)'
  <2>1. \A a \in 1..L + 1 : queue'[a] \in DOMAIN parents'
    BY <1>10, <1>11
  <2>2. ASSUME NEW a \in 1..L + 1, NEW b \in 1..L + 1, a <= b
        PROVE  e[queue'[a]] <= e[queue'[b]]
    <3>1. CASE a \in 1..L /\ b \in 1..L
      BY <1>9, <1>10, <2>2, <3>1
    <3>2. CASE a \in 1..L /\ b = L + 1
      <4>1. d[queue[a]] <= d[n] + 1
        BY <1>9, <3>2
      <4> QED BY <1>10, <3>2, <4>1
    <3>3. CASE a = L + 1
      <4>1. b = L + 1
        BY <1>6, <2>2, <3>3
      <4> QED BY <1>10, <3>3, <4>1
    <3> QED BY <1>11, <3>1, <3>2, <3>3
  <2>3. ASSUME NEW a \in 1..L + 1, NEW b \in 1..L + 1
        PROVE  e[queue'[b]] <= e[queue'[a]] + 1
    <3>1. CASE a \in 1..L /\ b \in 1..L
      BY <1>9, <1>10, <3>1
    <3>2. CASE a \in 1..L /\ b = L + 1
      <4>1. d[n] <= d[queue[a]]
        BY <1>9, <3>2
      <4> QED BY <1>10, <3>2, <4>1
    <3>3. CASE a = L + 1 /\ b \in 1..L
      <4>1. d[queue[b]] <= d[n] + 1
        BY <1>9, <3>3
      <4> QED BY <1>10, <3>3, <4>1
    <3>4. CASE a = L + 1 /\ b = L + 1
      BY <1>10, <3>4
    <3> QED BY <1>11, <3>1, <3>2, <3>3, <3>4
  <2>4. \A f \in DOMAIN parents' : e[f] <= e[n] + 1
    BY <1>4, <1>7, <1>9, <1>10
  <2>5. \A a \in 1..L + 1 : e[n] <= e[queue'[a]]
    BY <1>9, <1>10, <1>11
  <2>6. n \in DOMAIN parents'
    BY <1>2, <1>7
  <2> QED BY <1>1, <1>2, <1>6, <2>1, <2>2, <2>3, <2>4, <2>5, <2>6 DEF Ordered
<1>13. Explored(e)'
  <2>1. \A f \in DOMAIN parents : \A g : SeenFrom(d, f, g) => SeenFrom(e, f, g)'
    BY <1>4, <1>7 DEF SeenFrom
  <2>2. ASSUME NEW f \in DOMAIN parents', f # n, ~\E a \in 1..L + 1 : queue'[a] = f, NEW g \in Succ[f]
        PROVE  SeenFrom(e, f, g)'
    <3>1. L + 1 \in 1..L + 1 /\ 1..L \subseteq 1..L + 1
      BY <1>6
    <3>2. f # c /\ f \in DOMAIN parents
      BY <1>6, <1>7, <2>2, <3>1
    <3>3. ~Queued(f)
      BY <1>6, <2>2, <3>1 DEF Queued, L
    <3>4. SeenFrom(d, f, g)
      BY <1>3, <2>2, <3>2, <3>3 DEF Explored
    <3> QED BY <2>1, <3>2, <3>4
  <2>3. ASSUME NEW j \in 1..Len(callees[n]), j <= i + 1
        PROVE  callees[n][j] \in DOMAIN parents' /\ e[callees[n][j]] <= e[n] + 1
    <3>1. CASE j <= i
      <4>1. SeenFrom(d, n, callees[n][j])
        BY <1>2, <1>3, <3>1 DEF Explored
      <4> QED BY <1>2, <1>4, <1>7, <4>1 DEF SeenFrom
    <3>2. CASE j = i + 1
      <4>1. callees[n][j] = c
        BY <1>5, <3>2
      <4>2. c \in DOMAIN parents' /\ e[c] <= e[n] + 1
        BY <1>4, <1>7, <1>10
      <4> QED BY <4>1, <4>2
    <3>3. j <= i \/ j = i + 1
      BY <1>2, <2>3
    <3> QED BY <3>1, <3>2, <3>3
  <2>4. Succ' = Succ
    BY <1>1, SameQuestion
  <2>5. \A f : Queued(f)' <=> \E a \in 1..L + 1 : queue'[a] = f
    BY <1>6 DEF Queued
  <2>6. \A f \in DOMAIN parents' : f # n /\ ~Queued(f)' => \A g \in Succ'[f] : SeenFrom(e, f, g)'
    BY <2>2, <2>4, <2>5
  <2>7. \A j \in 1..Len(callees'[n']) : j <= i' => SeenFrom(e, n, callees[n][j])'
    BY <1>1, <2>3 DEF SeenFrom
  <2> QED BY <1>1, <2>6, <2>7 DEF Explored
<1>14. AtSearch'
  <2>1. Ends' /\ path' = <<>> /\ dst' \notin DOMAIN parents'
    BY <1>1, <1>2, <1>7 DEF Ends
  <2> QED BY <1>4, <1>12, <1>13, <2>1 DEF AtSearch
<1>15. ReadOnly' /\ AtStart' /\ AtRebuild' /\ AtEnd' /\ HopsLocated'
  BY <1>1, <1>2 DEF IInv, ReadOnly, AtStart, AtRebuild, AtEnd, HopsLocated
<1> QED BY <1>8, <1>14, <1>15 DEF IInv

(* The carrier found: no call path is as short as the depth of n, for what *)
(* lies that near has all been looked at.                                  *)
LEMMA FoundNearest ==
    ASSUME IInv, Scanning, NEW d, Depths(d), Ordered(d), Explored(d)
    PROVE  NoneWithin(d[n] + 1)
<1>1. /\ n \in DOMAIN parents /\ n # NoFunc /\ dst \notin DOMAIN parents
      /\ DOMAIN parents \subseteq Funcs
  BY ScanningState
<1>2. d \in [DOMAIN parents -> Nat] /\ src \in DOMAIN parents /\ d[src] = 0
  BY DEF Depths
<1>3. d[n] \in Nat
  BY <1>1, <1>2
<1> SUFFICES ASSUME NEW m \in 1..d[n] + 1, NEW p \in [1..m -> Funcs], IsCallPath(p)
             PROVE  FALSE
  BY DEF NoneWithin
<1>4. m \in Nat /\ m >= 1 /\ m <= d[n] + 1
  BY <1>3
<1>5. Len(p) = m
  BY <1>4, LenProperties
<1>6. p[1] = src /\ p[m] = dst /\ \A k \in 1..m - 1 : p[k + 1] \in Succ[p[k]]
  BY <1>5 DEF IsCallPath
<1> DEFINE P == {k \in 0..m : k >= 1 => p[k] \in DOMAIN parents /\ d[p[k]] + 1 <= k}
<1>7. 0 \in P
  BY <1>4
<1>8. ASSUME NEW k \in 1..m, k - 1 \in P PROVE k \in P
  <2>1. CASE k = 1
    BY <1>2, <1>6, <2>1
  <2>2. CASE k # 1
    <3> DEFINE f == p[k - 1]
    <3>1. k - 1 \in 1..m - 1 /\ (k - 1) + 1 = k /\ k \in Nat
      BY <1>4, <2>2
    <3>2. f \in DOMAIN parents /\ d[f] + 1 <= k - 1 /\ p[k] \in Succ[f]
      BY <1>6, <1>8, <3>1
    <3> HIDE DEF f
    <3>3. d[f] \in Nat /\ d[f] < d[n]
      BY <1>2, <1>3, <1>4, <3>1, <3>2
    <3>4. f # n /\ ~Queued(f)
      <4>1. \A a \in 1..Len(queue) : d[n] <= d[queue[a]]
        BY <1>1 DEF Ordered
      <4>2. ASSUME NEW a \in 1..Len(queue), queue[a] = f PROVE FALSE
        <5>1. d[n] <= d[f]
          BY <4>1, <4>2
        <5> QED BY <1>3, <3>3, <5>1
      <4> QED BY <1>3, <3>3, <4>2 DEF Queued
    <3>5. SeenFrom(d, f, p[k])
      BY <3>2, <3>4 DEF Explored
    <3>6. p[k] \in DOMAIN parents /\ d[p[k]] <= d[f] + 1 /\ d[p[k]] \in Nat
      BY <1>2, <3>5 DEF SeenFrom
    <3>7. d[p[k]] + 1 <= k
      BY <3>1, <3>2, <3>3, <3>6
    <3> QED BY <3>6, <3>7
  <2> QED BY <2>1, <2>2
<1>9. \A k \in 0..m : k \in P
  <2> HIDE DEF P
  <2> QED BY <1>4, <1>7, <1>8, UpToInduction
<1>10. p[m] \in DOMAIN parents
  <2>1. m \in P
    <3> HIDE DEF P
    <3> QED BY <1>4, <1>9
  <2> QED BY <1>4, <2>1
<1> QED BY <1>1, <1>6, <1>10

LEMMA FoundStep ==
    ASSUME IInv, Discover, callees[n][i + 1] = dst PROVE IInv'
<1>1. /\ Scanning /\ dst \notin DOMAIN parents /\ i' = i
      /\ parents' = [f \in DOMAIN parents \cup {dst} |-> IF f = dst THEN n ELSE parents[f]]
      /\ pc' = "rebuild" /\ hops' = hops /\ path' = <<dst>> /\ n' = n /\ queue' = queue
      /\ sites' = sites /\ callees' = callees /\ src' = src /\ dst' = dst
  BY DEF Discover
<1>2. /\ pc = "search" /\ n \in Funcs /\ n \in DOMAIN parents /\ Ends
      /\ DOMAIN parents \subseteq Funcs
  BY <1>1, ScanningState
<1>3. PICK d : Depths(d) /\ Ordered(d) /\ Explored(d)
  BY <1>1, ScanningState
<1>4. PICK e : Depths(e)' /\ e[dst] = d[n] + 1
  BY <1>1, <1>3, DiscoveredDepths
<1>5. DOMAIN parents' = DOMAIN parents \cup {dst} /\ d[n] \in Nat
  BY <1>1, <1>2, <1>3 DEF Depths
<1>6. TypeOK'
  <2>1. Range(parents') \subseteq Funcs \cup {NoFunc}
    <3>1. \A f \in DOMAIN parents' : parents'[f] \in Funcs \cup {NoFunc}
      <4>1. \A f \in DOMAIN parents : parents[f] \in Funcs \cup {NoFunc}
        BY DEF IInv, TypeOK, Range
      <4> QED BY <1>1, <1>2, <4>1
    <3> QED BY <3>1 DEF Range
  <2>2. DOMAIN parents' \subseteq Funcs /\ path' \in Seq(Funcs)
    BY <1>1, <1>2, <1>5 DEF Ends
  <2>3. /\ sites \in [Funcs -> Seq(CallSite)] /\ callees \in [Funcs -> Seq(Funcs)]
        /\ hops \in Seq([function : Funcs, line : Nat])
        /\ {src, dst, n} \subseteq Funcs \cup {NoFunc}
        /\ queue \in Seq(Funcs) /\ i \in Nat
    BY DEF IInv, TypeOK
  <2> QED BY <1>1, <2>1, <2>2, <2>3 DEF TypeOK
<1>7. NoneWithin(e[dst])'
  <2>1. NoneWithin(e[dst])
    BY <1>1, <1>3, <1>4, FoundNearest
  <2>2. \A m : NoneWithin(m)' <=> NoneWithin(m)
    BY <1>1, SameQuestion
  <2>3. PICK m : m = e[dst]
    OBVIOUS
  <2>4. NoneWithin(m)' /\ m = e[dst']
    BY <1>1, <2>1, <2>2, <2>3
  <2> QED BY <2>4 DEF NoneWithin
<1>8. Rebuilding(e)'
  <2>1. path' # <<>> /\ path'[1] = dst /\ Len(path') = 1
    BY <1>1
  <2>2. Len(path') + e[dst] = e[dst] + 1
    BY <1>4, <1>5, <2>1
  <2> QED BY <1>1, <1>5, <1>7, <2>1, <2>2 DEF Rebuilding
<1>9. AtRebuild'
  <2>1. Ends'
    BY <1>1, <1>2 DEF Ends
  <2> QED BY <1>4, <1>8, <2>1 DEF AtRebuild
<1>10. ReadOnly' /\ AtStart' /\ AtSearch' /\ AtEnd' /\ HopsLocated'
  BY <1>1, <1>2 DEF IInv, ReadOnly, AtStart, AtSearch, AtEnd, HopsLocated
<1> QED BY <1>6, <1>9, <1>10 DEF IInv

(* The search ran dry: all that src reaches has been seen. *)
LEMMA ExhaustedStep == ASSUME IInv, Exhausted PROVE IInv'
<1>1. /\ pc = "search" /\ pc' = "locate" /\ hops' = hops /\ path' = path /\ n' = n /\ i' = i
      /\ sites' = sites /\ callees' = callees /\ src' = src /\ dst' = dst
      /\ parents' = parents /\ queue' = queue
      /\ queue = <<>> /\ (n = NoFunc \/ ~(i < Len(callees[n])))
  BY DEF Exhausted, Scanning
<1>2. PICK d : Depths(d) /\ Ordered(d) /\ Explored(d)
  BY <1>1 DEF IInv, AtSearch
<1>3. /\ Ends /\ path = <<>> /\ dst \notin DOMAIN parents /\ DOMAIN parents \subseteq Funcs
      /\ i \in Nat /\ n \in Funcs \cup {NoFunc}
  BY <1>1 DEF IInv, AtSearch, TypeOK
<1>4. IsClosed(Succ, DOMAIN parents)
  <2>1. ASSUME NEW f \in DOMAIN parents, NEW c \in Succ[f] PROVE c \in DOMAIN parents
    <3>1. ~Queued(f)
      BY <1>1 DEF Queued
    <3>2. CASE f # n
      BY <1>2, <2>1, <3>1, <3>2 DEF Explored, SeenFrom
    <3>3. CASE f = n
      <4>1. n \in Funcs /\ n # NoFunc
        BY <1>3, <3>3, NoFuncAssumption
      <4>2. PICK j \in 1..Len(callees[n]) : callees[n][j] = c
        BY <2>1, <3>3, <4>1, Callees
      <4>3. j <= i
        BY <1>1, <1>3, <4>1, Callees
      <4> QED BY <1>2, <4>1, <4>2, <4>3 DEF Explored, SeenFrom
    <3> QED BY <3>2, <3>3
  <2> QED BY <2>1 DEF IsClosed
<1>5. dst \notin Reach(Succ, src)
  <2>1. Succ \in [Funcs -> SUBSET Funcs]
    BY DEF Succ
  <2>2. src \in DOMAIN parents /\ src \in Funcs
    BY <1>2, <1>3 DEF Depths, Ends
  <2>3. Reach(Succ, src) \subseteq DOMAIN parents
    BY <1>3, <1>4, <2>1, <2>2, ReachProperties
  <2> QED BY <1>3, <2>3
<1>6. AtEnd'
  <2>1. Reach(Succ, src)' = Reach(Succ, src)
    BY <1>1, SameQuestion
  <2> QED BY <1>1, <1>3, <1>5, <2>1 DEF AtEnd
<1>7. TypeOK'
  BY <1>1 DEF IInv, TypeOK
<1>8. ReadOnly' /\ AtStart' /\ AtSearch' /\ AtRebuild' /\ HopsLocated'
  BY <1>1 DEF IInv, ReadOnly, AtStart, AtSearch, AtRebuild, HopsLocated
<1> QED BY <1>6, <1>7, <1>8 DEF IInv

-----------------------------------------------------------------------------
(* The walk back: each parent is one call nearer to the source. *)
LEMMA FollowParentStep == ASSUME IInv, FollowParent PROVE IInv'
<1> DEFINE f == path[1]
           par == parents[f]
           L == Len(path)
           one == <<par>>
<1>1. /\ pc = "rebuild" /\ pc' = pc /\ hops' = hops /\ n' = n /\ i' = i
      /\ sites' = sites /\ callees' = callees /\ src' = src /\ dst' = dst
      /\ parents' = parents /\ queue' = queue
      /\ Head(path) # src /\ path' = <<parents[Head(path)]>> \o path
  BY DEF FollowParent
<1>2. Ends /\ path \in Seq(Funcs) /\ DOMAIN parents \subseteq Funcs
  BY <1>1 DEF IInv, AtRebuild, TypeOK
<1>3. PICK d : Depths(d) /\ Rebuilding(d)
  BY <1>1 DEF IInv, AtRebuild
<1>4. /\ path # <<>> /\ f \in DOMAIN parents /\ dst \in DOMAIN parents
      /\ path[L] = dst
      /\ \A k \in 1..L - 1 : path[k + 1] \in Succ[path[k]]
      /\ L + d[f] = d[dst] + 1
  BY <1>3 DEF Rebuilding
<1>5. Head(path) = f /\ L \in Nat /\ L >= 1
  BY <1>2, <1>4, HeadTailProperties, EmptySeq, LenProperties
<1>6. /\ d \in [DOMAIN parents -> Nat]
      /\ par \in DOMAIN parents /\ f \in Succ[par] /\ d[f] = d[par] + 1
  BY <1>1, <1>3, <1>4, <1>5 DEF Depths
<1>7. one \in Seq(Funcs) /\ Len(one) = 1 /\ one[1] = par /\ path' = one \o path
  BY <1>1, <1>2, <1>5, <1>6
<1> HIDE DEF one, par, f, L
<1>8. /\ path' \in Seq(Funcs) /\ Len(path') = 1 + L /\ path'[1] = par
      /\ \A k \in 1..L : path'[k + 1] = path[k]
  <2>1. /\ path' \in Seq(Funcs) /\ Len(path') = 1 + L
        /\ \A k \in 1..1 + L : path'[k] = IF k <= 1 THEN one[k] ELSE path[k - 1]
    BY <1>2, <1>7, ConcatProperties DEF L
  <2>2. \A k \in 1..L : k + 1 \in 1..1 + L /\ ~(k + 1 <= 1) /\ (k + 1) - 1 = k
    BY <1>5
  <2>3. 1 \in 1..1 + L
    BY <1>5
  <2> QED BY <1>7, <2>1, <2>2, <2>3
<1>9. Rebuilding(d)'
  <2>1. path' # <<>>
    BY <1>5, <1>8, EmptySeq
  <2>2. path'[Len(path')] = dst
    <3>1. Len(path') = L + 1 /\ L \in 1..L
      BY <1>5, <1>8
    <3> QED BY <1>4, <1>8, <3>1
  <2>3. ASSUME NEW k \in 1..Len(path') - 1 PROVE path'[k + 1] \in Succ[path'[k]]
    <3>1. k \in 1..L /\ path'[k + 1] = path[k]
      BY <1>5, <1>8
    <3>2. CASE k = 1
      BY <1>6, <1>8, <3>1, <3>2 DEF f
    <3>3. CASE k # 1
      <4>1. k - 1 \in 1..L - 1 /\ (k - 1) + 1 = k /\ k - 1 \in 1..L
        BY <1>5, <3>1, <3>3
      <4>2. path'[k] = path[k - 1] /\ path[k] \in Succ[path[k - 1]]
        BY <1>4, <1>8, <4>1
      <4> QED BY <3>1, <4>2
    <3> QED BY <3>2, <3>3
  <2>4. Len(path') + d[path'[1]] = d[dst] + 1
    <3>1. d[par] \in Nat /\ d[dst] \in Nat /\ d[f] \in Nat
      BY <1>4, <1>6
    <3> QED BY <1>4, <1>5, <1>6, <1>8, <3>1
  <2>5. NoneWithin(d[dst])'
    <3>1. NoneWithin(d[dst])
      BY <1>3 DEF Rebuilding
    <3>2. PICK m : m = d[dst]
      OBVIOUS
    <3>3. NoneWithin(m)' /\ m = d[dst']
      BY <1>1, <3>1, <3>2, SameQuestion
    <3> QED BY <3>3 DEF NoneWithin
  <2>6. Succ' = Succ
    BY <1>1, SameQuestion
  <2>7. path'[1] \in DOMAIN parents' /\ dst' \in DOMAIN parents' /\ dst' = dst
    BY <1>1, <1>4, <1>6, <1>8
  <2> QED BY <2>1, <2>2, <2>3, <2>4, <2>5, <2>6, <2>7 DEF Rebuilding
<1>10. Depths(d)'
  BY <1>1, <1>3, SameQuestion DEF Depths
<1>11. AtRebuild'
  <2>1. Ends'
    BY <1>1, <1>2 DEF Ends
  <2> QED BY <1>9, <1>10, <2>1 DEF AtRebuild
<1>12. TypeOK'
  BY <1>1, <1>8 DEF IInv, TypeOK
<1>13. ReadOnly' /\ AtStart' /\ AtSearch' /\ AtEnd' /\ HopsLocated'
  BY <1>1 DEF IInv, ReadOnly, AtStart, AtSearch, AtEnd, HopsLocated
<1> QED BY <1>11, <1>12, <1>13 DEF IInv

LEMMA EndRebuildStep == ASSUME IInv, EndRebuild PROVE IInv'
<1> DEFINE L == Len(path)
<1>1. /\ pc = "rebuild" /\ pc' = "locate" /\ hops' = hops /\ n' = n /\ i' = i /\ path' = path
      /\ sites' = sites /\ callees' = callees /\ src' = src /\ dst' = dst
      /\ parents' = parents /\ queue' = queue
      /\ (Head(path) = src \/ parents[Head(path)] = NoFunc)
  BY DEF EndRebuild
<1>2. Ends /\ path \in Seq(Funcs) /\ DOMAIN parents \subseteq Funcs
  BY <1>1 DEF IInv, AtRebuild, TypeOK
<1>3. PICK d : Depths(d) /\ Rebuilding(d)
  BY <1>1 DEF IInv, AtRebuild
<1>4. /\ path # <<>> /\ path[1] \in DOMAIN parents /\ dst \in DOMAIN parents
      /\ path[L] = dst
      /\ \A k \in 1..L - 1 : path[k + 1] \in Succ[path[k]]
      /\ L + d[path[1]] = d[dst] + 1
  BY <1>3 DEF Rebuilding
<1>5. Head(path) = path[1] /\ L \in Nat /\ L >= 1
  BY <1>2, <1>4, HeadTailProperties, EmptySeq, LenProperties
<1>6. path[1] = src /\ d[src] = 0 /\ d[dst] \in Nat
  BY <1>1, <1>2, <1>3, <1>4, <1>5, NoFuncAssumption DEF Depths
<1>7. L - 1 = d[dst]
  <2> HIDE DEF L
  <2> QED BY <1>4, <1>5, <1>6
<1>8. IsCallPath(path) /\ NoneWithin(L - 1)
  BY <1>3, <1>4, <1>6, <1>7 DEF Rebuilding, IsCallPath
<1>9. AtEnd'
  <2>1. (\A p : IsCallPath(p)' <=> IsCallPath(p)) /\ \A m : NoneWithin(m)' <=> NoneWithin(m)
    BY <1>1, SameQuestion
  <2>2. PICK p, m : p = path /\ m = L - 1
    OBVIOUS
  <2>3. IsCallPath(p)' /\ NoneWithin(m)'
    BY <1>8, <2>1, <2>2
  <2>4. IsCallPath(path)'
    BY <1>1, <2>2, <2>3 DEF IsCallPath
  <2>5. NoneWithin(Len(path) - 1)'
    BY <1>1, <2>2, <2>3 DEF NoneWithin
  <2> QED BY <1>1, <1>4, <2>4, <2>5 DEF AtEnd
<1>10. TypeOK'
  BY <1>1 DEF IInv, TypeOK
<1>11. ReadOnly' /\ AtStart' /\ AtSearch' /\ AtRebuild' /\ HopsLocated'
  BY <1>1 DEF IInv, ReadOnly, AtStart, AtSearch, AtRebuild, HopsLocated
<1> QED BY <1>9, <1>10, <1>11 DEF IInv

(* The places of the hops are the first calls along the chain. *)
LEMMA LocateHopsStep == ASSUME IInv, LocateHops PROVE IInv'
<1> DEFINE L == Len(path)
           lineAt == [k \in 1..L |-> IF k = L THEN 0 ELSE Bridge(path[k], path[k + 1]).line]
<1>1. /\ pc = "locate" /\ pc' = "done" /\ n' = n /\ i' = i /\ path' = path
      /\ sites' = sites /\ callees' = callees /\ src' = src /\ dst' = dst
      /\ parents' = parents /\ queue' = queue
      /\ hops' = [k \in DOMAIN path |->
                     [function |-> path[k],
                      line |-> IF k = Len(path) THEN 0 ELSE Bridge(path[k], path[k + 1]).line]]
  BY DEF LocateHops
<1>2. /\ path \in Seq(Funcs) /\ L \in Nat /\ DOMAIN path = 1..L
      /\ sites \in [Funcs -> Seq(CallSite)] /\ \A k \in 1..L : path[k] \in Funcs
  BY LenProperties, ElementOfSeq DEF IInv, TypeOK
<1>3. ASSUME NEW k \in 1..L - 1 PROVE path[k + 1] \in Succ[path[k]]
  <2>1. path # <<>>
    BY <1>2, EmptySeq
  <2> QED BY <1>1, <2>1 DEF IInv, AtEnd, IsCallPath
<1>4. ASSUME NEW k \in 1..L - 1
      PROVE  \E at \in DOMAIN sites[path[k]] :
                 /\ Bridge(path[k], path[k + 1]) = sites[path[k]][at]
                 /\ sites[path[k]][at] \in CallSite
                 /\ sites[path[k]][at].callee = path[k + 1]
                 /\ \A before \in 1..at - 1 : sites[path[k]][before].callee # path[k + 1]
  <2>1. path[k] \in Funcs
    BY <1>2
  <2> QED BY <1>2, <1>3, <2>1, BridgeIsFirst
<1>5. /\ hops' = [k \in 1..L |-> [function |-> path[k], line |-> lineAt[k]]]
      /\ \A k \in 1..L : lineAt[k] = IF k = L THEN 0 ELSE Bridge(path[k], path[k + 1]).line
  BY <1>1, <1>2
<1> HIDE DEF lineAt, L
<1>6. \A k \in 1..L : lineAt[k] \in Nat
  <2> TAKE k \in 1..L
  <2>1. CASE k = L
    BY <1>5, <2>1
  <2>2. CASE k # L
    <3>1. k \in 1..L - 1
      BY <1>2, <2>2
    <3>2. PICK at \in DOMAIN sites[path[k]] :
              /\ Bridge(path[k], path[k + 1]) = sites[path[k]][at]
              /\ sites[path[k]][at] \in CallSite
      BY <1>4, <3>1
    <3>3. Bridge(path[k], path[k + 1]).line \in Nat
      BY <3>2 DEF CallSite
    <3> QED BY <1>5, <2>2, <3>3
  <2> QED BY <2>1, <2>2
<1>7. hops' \in Seq([function : Funcs, line : Nat]) /\ DOMAIN hops' = 1..L
  <2>1. hops' \in [1..L -> [function : Funcs, line : Nat]]
    BY <1>2, <1>5, <1>6
  <2> QED BY <1>2, <2>1, FunctionIsSeq
<1>8. HopsLocated'
  <2>1. [k \in DOMAIN hops' |-> hops'[k].function] = path
    <3>1. path = [k \in 1..L |-> path[k]]
      BY <1>2
    <3>2. [k \in 1..L |-> hops'[k].function] = [k \in 1..L |-> path[k]]
      BY <1>5
    <3> QED BY <1>7, <3>1, <3>2
  <2>2. ASSUME NEW k \in 1..L - 1
        PROVE  \E at \in DOMAIN sites[path[k]] :
                   /\ sites[path[k]][at] = [callee |-> path[k + 1], line |-> hops'[k].line]
                   /\ \A before \in 1..at - 1 : sites[path[k]][before].callee # path[k + 1]
    <3>1. k \in 1..L /\ k # L
      BY <1>2
    <3>2. PICK at \in DOMAIN sites[path[k]] :
               /\ Bridge(path[k], path[k + 1]) = sites[path[k]][at]
               /\ sites[path[k]][at] \in CallSite
               /\ sites[path[k]][at].callee = path[k + 1]
               /\ \A before \in 1..at - 1 : sites[path[k]][before].callee # path[k + 1]
      BY <1>4
    <3>3. hops'[k].line = sites[path[k]][at].line
      BY <1>5, <3>1, <3>2
    <3>4. sites[path[k]][at] = [callee |-> path[k + 1], line |-> hops'[k].line]
      BY <3>2, <3>3 DEF CallSite
    <3> QED BY <3>2, <3>4
  <2>3. \A k \in 1..Len(path') - 1 :
            \E at \in DOMAIN sites'[path'[k]] :
                /\ sites'[path'[k]][at] = [callee |-> path'[k + 1], line |-> hops'[k].line]
                /\ \A before \in 1..at - 1 : sites'[path'[k]][before].callee # path'[k + 1]
    BY <1>1, <2>2 DEF L
  <2>4. [k \in DOMAIN hops' |-> hops'[k].function] = path'
    BY <1>1, <2>1
  <2> QED BY <2>3, <2>4, Zenon DEF HopsLocated
<1>9. TypeOK'
  BY <1>1, <1>7 DEF IInv, TypeOK
<1>10. AtEnd'
  <2>1. /\ \A p : IsCallPath(p)' <=> IsCallPath(p)
        /\ \A m : NoneWithin(m)' <=> NoneWithin(m)
        /\ Reach(Succ, src)' = Reach(Succ, src)
    BY <1>1, SameQuestion
  <2>2. PICK p, m : p = path /\ m = L - 1
    OBVIOUS
  <2>3. /\ path # <<>> => IsCallPath(path) /\ NoneWithin(Len(path) - 1)
        /\ path = <<>> /\ NoFunc \notin {src, dst} => dst \notin Reach(Succ, src)
    BY <1>1 DEF IInv, AtEnd
  <2>4. path # <<>> => IsCallPath(p)' /\ NoneWithin(m)'
    BY <2>1, <2>2, <2>3 DEF L
  <2>5. path # <<>> => IsCallPath(path)'
    BY <1>1, <2>2, <2>4 DEF IsCallPath
  <2>6. path # <<>> => NoneWithin(Len(path) - 1)'
    BY <1>1, <2>2, <2>4 DEF NoneWithin, L
  <2> QED BY <1>1, <2>1, <2>3, <2>5, <2>6 DEF AtEnd
<1>11. ReadOnly' /\ AtStart' /\ AtSearch' /\ AtRebuild'
  BY <1>1 DEF IInv, ReadOnly, AtStart, AtSearch, AtRebuild
<1> QED BY <1>8, <1>9, <1>10, <1>11 DEF IInv

LEMMA InductiveStep == IInv /\ [Next]_vars => IInv'
<1> SUFFICES ASSUME IInv, [Next]_vars PROVE IInv'
  OBVIOUS
<1>1. CASE UNCHANGED vars
  <2>1. /\ sites' = sites /\ callees' = callees /\ src' = src /\ dst' = dst
        /\ parents' = parents /\ queue' = queue /\ n' = n /\ i' = i /\ pc' = pc
        /\ path' = path /\ hops' = hops
    BY <1>1 DEF vars
  <2>2. TypeOK' /\ ReadOnly' /\ AtStart' /\ HopsLocated'
    BY <2>1 DEF IInv, TypeOK, ReadOnly, AtStart, HopsLocated
  <2>3. \A d : Depths(d)' <=> Depths(d)
    BY <2>1, SameQuestion DEF Depths
  <2>4. \A d : Ordered(d)' <=> Ordered(d)
    BY <2>1 DEF Ordered
  <2>5. \A d : Explored(d)' <=> Explored(d)
    BY <2>1, SameQuestion DEF Explored, Queued, SeenFrom
  <2>6. \A p : IsCallPath(p)' <=> IsCallPath(p)
    BY <2>1, SameQuestion
  <2>7. \A d : Rebuilding(d)' <=> Rebuilding(d)
    BY <2>1, <2>6, SameQuestion DEF Rebuilding, NoneWithin
  <2>8. AtSearch'
    BY <2>1, <2>3, <2>4, <2>5 DEF IInv, AtSearch, Ends
  <2>9. AtRebuild'
    BY <2>1, <2>3, <2>7 DEF IInv, AtRebuild, Ends
  <2>10. AtEnd'
    <3>1. IsCallPath(path)' <=> IsCallPath(path)
      BY <2>1, SameQuestion DEF IsCallPath
    <3>2. NoneWithin(Len(path) - 1)' <=> NoneWithin(Len(path) - 1)
      BY <2>1, <2>6 DEF NoneWithin
    <3> QED BY <2>1, <3>1, <3>2, SameQuestion DEF IInv, AtEnd
  <2> QED BY <2>2, <2>8, <2>9, <2>10 DEF IInv
<1>2. CASE Next
  BY <1>2, EarlyReturnStep, BeginStep, DequeueStep, SkipSeenStep, DiscoverStep, FoundStep,
     ExhaustedStep, FollowParentStep, EndRebuildStep, LocateHopsStep DEF Next
<1> QED BY <1>1, <1>2

LEMMA Invariance == Spec => []IInv
<1>1. Init => IInv
  BY InitIInv
<1> QED BY <1>1, InductiveStep, PTL DEF Spec

-----------------------------------------------------------------------------
(* In every program: the chain of a finding leads from the violator to the *)
(* carrier along calls the project makes, each shown at the first line     *)
(* where its caller makes it.                                              *)
THEOREM ChainCanBeFollowed == Spec => []ChainInv
<1>1. IInv => ChainInv
  BY DEF IInv, ChainInv, AtEnd, ChainIsCallPath
<1> QED BY <1>1, Invariance, PTL

(* In every program: no call path from the violator to the carrier has     *)
(* fewer hops.                                                             *)
THEOREM BreadthFirstIsShortest == Spec => []ChainIsShortest
<1>1. IInv => ChainIsShortest
  BY DEF IInv, AtEnd, ChainIsShortest, NoneWithin
<1> QED BY <1>1, Invariance, PTL

(* In every program: a chain is left out only where there is none. *)
THEOREM NoChainIsLost == Spec => []NilMeansUnreachable
<1>1. IInv => NilMeansUnreachable
  BY DEF IInv, AtEnd, NilMeansUnreachable
<1> QED BY <1>1, Invariance, PTL
=============================================================================
