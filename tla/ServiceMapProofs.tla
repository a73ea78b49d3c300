-------------------------- MODULE ServiceMapProofs --------------------------
(* What a service map adds to a call graph has a cause and disturbs no     *)
(* call of the project, and a map in hop order closes the graph in one     *)
(* pass, for every graph and map.                                          *)
EXTENDS ServiceMap, Lemmas

(* The sites of a caller after one edge: the old ones at their places, a   *)
(* synthetic call behind them for each that matches, and nothing else.     *)
LEMMA BridgedProperties ==
    ASSUME NEW edge \in Edge, NEW old \in Seq(CallSite)
    PROVE  /\ Bridged(edge, old) \in Seq(CallSite)
           /\ Len(old) <= Len(Bridged(edge, old))
           /\ \A i \in 1..Len(old) : Bridged(edge, old)[i] = old[i]
           /\ \A j \in Len(old) + 1..Len(Bridged(edge, old)) :
                  \E i \in 1..Len(old) : /\ edgeMatches(edge, old[i])
                                         /\ Bridged(edge, old)[j] = Synthetic(edge, old[i])
           /\ \A i \in 1..Len(old) :
                  edgeMatches(edge, old[i]) =>
                      \E j \in 1..Len(Bridged(edge, old)) :
                          Bridged(edge, old)[j] = Synthetic(edge, old[i])
<1> DEFINE places == {i \in DOMAIN old : edgeMatches(edge, old[i])}
           matching == SelectAt(old, places)
           M == Len(old)
           N == Len(matching)
           added == [j \in 1..N |-> Synthetic(edge, matching[j])]
           new == old \o added
<1>1. M \in Nat /\ DOMAIN old = 1..M /\ \A i \in 1..M : old[i] \in CallSite
  BY LenProperties, ElementOfSeq
<1>2. PICK h : /\ Enumerates(h, places \cap 1..M, N)
               /\ \A n \in 1..N : matching[n] = old[h[n]]
  <2>1. TakenFrom(matching, old, places)
    BY SelectAtPlaces
  <2> HIDE DEF places, matching
  <2> QED BY <2>1 DEF TakenFrom
<1>3. matching \in Seq(CallSite) /\ N \in Nat /\ DOMAIN matching = 1..N
  BY SelectAtPlaces, LenProperties
<1>4. \A n \in 1..N : h[n] \in 1..M /\ edgeMatches(edge, old[h[n]]) /\ matching[n] = old[h[n]]
  <2> HIDE DEF M, N, matching
  <2>1. \A n \in 1..N : h[n] \in places \cap 1..M
    BY <1>2 DEF Enumerates
  <2> QED BY <1>2, <2>1
<1>5. \A i \in 1..M : edgeMatches(edge, old[i]) => \E n \in 1..N : h[n] = i
  <2>1. \A i \in 1..M : edgeMatches(edge, old[i]) => i \in places \cap 1..M
    BY <1>1
  <2> HIDE DEF places, M, N, matching
  <2> QED BY <1>2, <2>1 DEF Enumerates
<1>6. \A site \in CallSite : Synthetic(edge, site) \in CallSite
  BY DEF Synthetic, CallSite, Edge
<1>7. added \in Seq(CallSite) /\ Len(added) = N /\ \A j \in 1..N : added[j] = Synthetic(edge, matching[j])
  <2> HIDE DEF matching, N
  <2>1. \A j \in 1..N : matching[j] \in CallSite
    BY <1>3, ElementOfSeq DEF N
  <2>2. added \in [1..N -> CallSite]
    BY <1>6, <2>1
  <2>3. added \in Seq(CallSite)
    BY <1>3, <2>2
  <2> QED BY <1>3, <2>2, <2>3, LenProperties
<1>8. Bridged(edge, old) = new
  BY <1>3 DEF Bridged, Matching
<1> HIDE DEF matching, added, N, places, M
<1>9. /\ new \in Seq(CallSite)
      /\ Len(new) = M + N
      /\ \A i \in 1..M + N : new[i] = IF i <= M THEN old[i] ELSE added[i - M]
  BY <1>7, ConcatProperties DEF M
<1> HIDE DEF new
<1>10. ASSUME NEW j \in M + 1..M + N
       PROVE  \E i \in 1..M : edgeMatches(edge, old[i]) /\ new[j] = Synthetic(edge, old[i])
  <2>1. j - M \in 1..N /\ new[j] = added[j - M]
    BY <1>1, <1>3, <1>9
  <2>2. PICK n \in 1..N : new[j] = added[n]
    BY <2>1
  <2>3. h[n] \in 1..M /\ edgeMatches(edge, old[h[n]]) /\ added[n] = Synthetic(edge, old[h[n]])
    BY <1>4, <1>7, Zenon
  <2> QED BY <2>2, <2>3, Zenon
<1>11. ASSUME NEW i \in 1..M, edgeMatches(edge, old[i])
       PROVE  \E j \in 1..M + N : new[j] = Synthetic(edge, old[i])
  <2>1. PICK n \in 1..N : h[n] = i
    BY <1>5, <1>11
  <2>2. M + n \in 1..M + N /\ ~(M + n <= M) /\ (M + n) - M = n
    BY <1>1, <1>3
  <2>3. new[M + n] = added[n]
    BY <1>9, <2>2
  <2>4. added[n] = Synthetic(edge, old[h[n]])
    BY <1>4, <1>7, Zenon
  <2>5. new[M + n] = Synthetic(edge, old[i])
    BY <2>1, <2>3, <2>4, Zenon
  <2> QED BY <2>2, <2>5
<1>12. M <= M + N /\ \A i \in 1..M : new[i] = old[i]
  BY <1>1, <1>3, <1>9
<1>13. Len(new) \in Nat /\ Len(new) = M + N /\ Len(old) = M
  BY <1>1, <1>3, <1>9 DEF M
<1>14. \A j \in M + 1..Len(new) : \E i \in 1..M : /\ edgeMatches(edge, old[i])
                                                  /\ new[j] = Synthetic(edge, old[i])
  BY <1>10, <1>13
<1>15. \A i \in 1..M : edgeMatches(edge, old[i]) =>
                          \E j \in 1..Len(new) : new[j] = Synthetic(edge, old[i])
  BY <1>11, <1>13
<1> HIDE DEF M
<1> QED BY <1>8, <1>9, <1>12, <1>13, <1>14, <1>15

(* Initially nothing is added. *)
LEMMA InitCalls == Init => CallsInv
<1> SUFFICES ASSUME Init PROVE CallsInv
  OBVIOUS
<1>1. IsGraph(g) /\ edges \in Seq(Edge) /\ k = 0 /\ calls = g.calls
  BY GraphsAssumption, MapsAssumption DEF Init
<1>2. TypeOK
  <2>1. Len(edges) \in Nat
    BY <1>1, LenProperties
  <2>2. g.calls \in [DOMAIN g.calls -> Seq(CallSite)]
    BY <1>1 DEF IsGraph
  <2> QED BY <1>1, <2>1, <2>2 DEF TypeOK
<1>3. \A f \in DOMAIN calls : calls[f] \in Seq(CallSite) /\ Len(calls[f]) \in Nat
  BY <1>1, <1>2, LenProperties DEF TypeOK
<1>4. OriginalsFirst
  BY <1>1, <1>3, PrefixPlaces DEF OriginalsFirst
<1>5. EverySyntheticHasCause
  BY <1>1, <1>3 DEF EverySyntheticHasCause
<1> QED BY <1>2, <1>4, <1>5 DEF CallsInv

(* A step of the pass: one more edge is through, and every caller's sites  *)
(* are as they were, or with the edge's synthetic calls behind them.       *)
LEMMA EdgeStep ==
    ASSUME CallsInv, Next
    PROVE  /\ g' = g /\ edges' = edges
           /\ k \in Nat /\ k + 1 \in 1..Len(edges) /\ k' = k + 1
           /\ edges[k + 1] \in Edge
           /\ DOMAIN calls' = DOMAIN calls
           /\ \A f \in DOMAIN calls :
                  \/ calls'[f] = calls[f] /\ edges[k + 1].to \notin g.funcs
                  \/ calls'[f] = Bridged(edges[k + 1], calls[f]) /\ edges[k + 1].to \in g.funcs
<1>1. edges \in Seq(Edge) /\ k \in 0..Len(edges) /\ Len(edges) \in Nat
  BY LenProperties DEF CallsInv, TypeOK
<1>2. k < Len(edges) /\ k' = k + 1 /\ g' = g /\ edges' = edges
  BY DEF Next, SkipEdge, ApplyEdge
<1>3. k \in Nat /\ k + 1 \in 1..Len(edges)
  BY <1>1, <1>2
<1>4. edges[k + 1] \in Edge
  BY <1>1, <1>3, ElementOfSeq
<1>5. CASE SkipEdge
  <2>1. calls' = calls /\ edges[k + 1].to \notin g.funcs
    BY <1>5 DEF SkipEdge
  <2> QED BY <1>2, <1>3, <1>4, <2>1
<1>6. CASE ApplyEdge
  <2>1. calls' = [f \in DOMAIN calls |-> Bridged(edges[k + 1], calls[f])]
        /\ edges[k + 1].to \in g.funcs
    BY <1>6 DEF ApplyEdge
  <2> QED BY <1>2, <1>3, <1>4, <2>1
<1> QED BY <1>5, <1>6 DEF Next

(* The same, site by site: what is new stands behind what was there and    *)
(* has its cause there.                                                    *)
LEMMA SitesStep ==
    ASSUME CallsInv, Next, NEW f \in DOMAIN calls
    PROVE  /\ calls[f] \in Seq(CallSite) /\ calls'[f] \in Seq(CallSite)
           /\ Len(calls[f]) <= Len(calls'[f])
           /\ \A i \in 1..Len(calls[f]) : calls'[f][i] = calls[f][i]
           /\ \A j \in Len(calls[f]) + 1..Len(calls'[f]) :
                  \E i \in 1..Len(calls[f]) :
                      /\ edges[k + 1].to \in g.funcs
                      /\ edgeMatches(edges[k + 1], calls[f][i])
                      /\ calls'[f][j] = Synthetic(edges[k + 1], calls[f][i])
           /\ \A i \in 1..Len(calls[f]) :
                  edges[k + 1].to \in g.funcs /\ edgeMatches(edges[k + 1], calls[f][i]) =>
                      \E j \in 1..Len(calls'[f]) :
                          calls'[f][j] = Synthetic(edges[k + 1], calls[f][i])
<1> DEFINE edge == edges[k + 1]
           old == calls[f]
           new == calls'[f]
<1>1. edge \in Edge /\ old \in Seq(CallSite) /\ Len(old) \in Nat
  BY EdgeStep, LenProperties DEF CallsInv, TypeOK
<1>2. \/ new = old /\ edge.to \notin g.funcs
      \/ new = Bridged(edge, old) /\ edge.to \in g.funcs
  BY EdgeStep
<1> HIDE DEF edge, old, new
<1>3. CASE new = old /\ edge.to \notin g.funcs
  BY <1>1, <1>3 DEF edge, old, new
<1>4. CASE new = Bridged(edge, old) /\ edge.to \in g.funcs
  <2>1. /\ new \in Seq(CallSite)
        /\ Len(old) <= Len(new)
        /\ \A i \in 1..Len(old) : new[i] = old[i]
        /\ \A j \in Len(old) + 1..Len(new) :
               \E i \in 1..Len(old) : edgeMatches(edge, old[i]) /\ new[j] = Synthetic(edge, old[i])
        /\ \A i \in 1..Len(old) :
               edgeMatches(edge, old[i]) => \E j \in 1..Len(new) : new[j] = Synthetic(edge, old[i])
    BY <1>1, <1>4, BridgedProperties
  <2> QED BY <1>1, <1>4, <2>1 DEF edge, old, new
<1> QED BY <1>2, <1>3, <1>4

(* Every edge keeps what the pass is to keep. *)
LEMMA CallsStep == ASSUME CallsInv, [Next]_vars PROVE CallsInv'
<1>1. CASE UNCHANGED vars
  BY <1>1 DEF CallsInv, TypeOK, OriginalsFirst, EverySyntheticHasCause, vars
<1>2. CASE Next
  <2>1. /\ g' = g /\ edges' = edges /\ k \in Nat /\ k + 1 \in 1..Len(edges) /\ k' = k + 1
        /\ DOMAIN calls' = DOMAIN calls
    BY <1>2, EdgeStep
  <2>2. IsGraph(g) /\ edges \in Seq(Edge) /\ calls \in [DOMAIN g.calls -> Seq(CallSite)]
    BY DEF CallsInv, TypeOK
  <2>3. TypeOK'
    <3>1. calls' \in [DOMAIN g.calls -> Seq(CallSite)]
      <4>1. \A f \in DOMAIN g.calls : calls'[f] \in Seq(CallSite)
        BY <1>2, <2>2, SitesStep
      <4>2. calls' = [f \in DOMAIN g.calls |-> calls'[f]]
        BY <1>2, <2>1, <2>2 DEF Next, SkipEdge, ApplyEdge
      <4> QED BY <4>1, <4>2
    <3>2. k' \in 0..Len(edges)
      BY <2>1
    <3> QED BY <2>1, <2>2, <3>1, <3>2 DEF TypeOK
  <2>4. ASSUME NEW f \in DOMAIN calls PROVE IsPrefix(g.calls[f], calls'[f])
    <3>1. /\ g.calls[f] \in Seq(CallSite) /\ calls[f] \in Seq(CallSite)
          /\ IsPrefix(g.calls[f], calls[f])
      BY <2>2 DEF CallsInv, OriginalsFirst, IsGraph
    <3>2. /\ Len(g.calls[f]) <= Len(calls[f])
          /\ \A i \in 1..Len(g.calls[f]) : g.calls[f][i] = calls[f][i]
      BY <3>1, PrefixPlaces
    <3>3. /\ calls'[f] \in Seq(CallSite)
          /\ Len(calls[f]) <= Len(calls'[f])
          /\ \A i \in 1..Len(calls[f]) : calls'[f][i] = calls[f][i]
      BY <1>2, SitesStep
    <3>4. Len(g.calls[f]) \in Nat /\ Len(calls[f]) \in Nat /\ Len(calls'[f]) \in Nat
      BY <3>1, <3>3, LenProperties
    <3>5. Len(g.calls[f]) <= Len(calls'[f])
      BY <3>2, <3>3, <3>4
    <3>6. \A i \in 1..Len(g.calls[f]) : g.calls[f][i] = calls'[f][i]
      BY <3>2, <3>3, <3>4
    <3> QED BY <3>1, <3>3, <3>5, <3>6, PrefixPlaces
  <2>5. ASSUME NEW f \in DOMAIN calls, NEW j \in Len(g.calls[f]) + 1..Len(calls'[f])
        PROVE  \E e \in 1..k + 1, i \in 1..j - 1 :
                   /\ edges[e].to \in g.funcs
                   /\ edgeMatches(edges[e], calls'[f][i])
                   /\ calls'[f][j] = Synthetic(edges[e], calls'[f][i])
    <3>1. /\ calls[f] \in Seq(CallSite) /\ calls'[f] \in Seq(CallSite)
          /\ Len(calls[f]) <= Len(calls'[f])
          /\ \A i \in 1..Len(calls[f]) : calls'[f][i] = calls[f][i]
      BY <1>2, SitesStep
    <3>2. g.calls[f] \in Seq(CallSite)
      BY <2>2 DEF IsGraph
    <3>3. Len(g.calls[f]) \in Nat /\ Len(calls[f]) \in Nat /\ Len(calls'[f]) \in Nat /\ j \in Nat
      BY <3>1, <3>2, LenProperties
    <3>4. CASE j <= Len(calls[f])
      <4>1. j \in Len(g.calls[f]) + 1..Len(calls[f])
        BY <3>3, <3>4
      <4>2. PICK e \in 1..k, i \in 1..j - 1 :
                  /\ edges[e].to \in g.funcs
                  /\ edgeMatches(edges[e], calls[f][i])
                  /\ calls[f][j] = Synthetic(edges[e], calls[f][i])
        BY <4>1 DEF CallsInv, EverySyntheticHasCause
      <4>3. calls'[f][i] = calls[f][i] /\ calls'[f][j] = calls[f][j] /\ e \in 1..k + 1
        BY <2>1, <3>1, <3>3, <3>4
      <4> QED BY <4>2, <4>3
    <3>5. CASE ~(j <= Len(calls[f]))
      <4>1. j \in Len(calls[f]) + 1..Len(calls'[f])
        BY <3>3, <3>5
      <4>2. PICK i \in 1..Len(calls[f]) :
                  /\ edges[k + 1].to \in g.funcs
                  /\ edgeMatches(edges[k + 1], calls[f][i])
                  /\ calls'[f][j] = Synthetic(edges[k + 1], calls[f][i])
        BY <1>2, <4>1, SitesStep
      <4>3. calls'[f][i] = calls[f][i] /\ i \in 1..j - 1 /\ k + 1 \in 1..k + 1
        BY <2>1, <3>1, <3>3, <3>5
      <4> QED BY <4>2, <4>3
    <3> QED BY <3>4, <3>5
  <2>6. OriginalsFirst'
    BY <2>1, <2>4 DEF OriginalsFirst
  <2>7. EverySyntheticHasCause'
    BY <2>1, <2>5 DEF EverySyntheticHasCause
  <2> QED BY <2>3, <2>6, <2>7 DEF CallsInv
<1> QED BY <1>1, <1>2

(* Whatever the graph and the map: the project's calls keep their places,  *)
(* and every added call has its cause before it at the same caller.        *)
THEOREM CallsInvariant == Spec => []CallsInv
<1>1. Init => CallsInv
  BY InitCalls
<1>2. CallsInv /\ [Next]_vars => CallsInv'
  BY CallsStep
<1> QED BY <1>1, <1>2, PTL DEF Spec

(* The edges already through are closed under, in a map in hop order: what *)
(* a later edge adds is named by its target, which none of them accepts.   *)
ClosedSoFar ==
    \A e \in 1..k, f \in DOMAIN calls : \A s \in Range(calls[f]) :
        edges[e].to \in g.funcs /\ edgeMatches(edges[e], s)
            => Synthetic(edges[e], s) \in Range(calls[f])

HopInv == CallsInv /\ (InHopOrder => ClosedSoFar)

LEMMA HopStep == ASSUME HopInv, Next, InHopOrder PROVE ClosedSoFar'
<1>1. /\ CallsInv /\ ClosedSoFar
      /\ g' = g /\ edges' = edges /\ k \in Nat /\ k + 1 \in 1..Len(edges) /\ k' = k + 1
      /\ DOMAIN calls' = DOMAIN calls
      /\ DOMAIN edges = 1..Len(edges)
  BY EdgeStep, LenProperties DEF HopInv, CallsInv, TypeOK
<1>2. ASSUME NEW e \in 1..k + 1, NEW f \in DOMAIN calls, NEW s \in Range(calls'[f]),
             edges[e].to \in g.funcs, edgeMatches(edges[e], s)
      PROVE  Synthetic(edges[e], s) \in Range(calls'[f])
  <2>1. /\ calls[f] \in Seq(CallSite) /\ calls'[f] \in Seq(CallSite)
        /\ Len(calls[f]) <= Len(calls'[f])
        /\ \A i \in 1..Len(calls[f]) : calls'[f][i] = calls[f][i]
    BY <1>1, SitesStep
  <2>2. /\ Len(calls[f]) \in Nat /\ Len(calls'[f]) \in Nat
        /\ Range(calls[f]) = {calls[f][i] : i \in 1..Len(calls[f])}
        /\ Range(calls'[f]) = {calls'[f][i] : i \in 1..Len(calls'[f])}
    BY <2>1, LenProperties, RangeEquality
  <2>3. PICK j \in 1..Len(calls'[f]) : s = calls'[f][j]
    BY <2>2
  <2>4. j <= Len(calls[f])
    <3> SUFFICES ASSUME ~(j <= Len(calls[f])) PROVE FALSE
      OBVIOUS
    <3>1. j \in Len(calls[f]) + 1..Len(calls'[f])
      BY <2>2
    <3>2. PICK i \in 1..Len(calls[f]) : calls'[f][j] = Synthetic(edges[k + 1], calls[f][i])
      BY <1>1, <3>1, SitesStep
    <3>3. s.callee = edges[k + 1].to /\ s.raw = edges[k + 1].to
      BY <2>3, <3>2 DEF Synthetic
    <3>4. e \in DOMAIN edges /\ k + 1 \in DOMAIN edges /\ e <= k + 1
      BY <1>1
    <3>5. edges[k + 1].to \notin edges[e].from
      BY <3>4 DEF InHopOrder
    <3> QED BY <1>2, <3>3, <3>5 DEF edgeMatches
  <2>5. j \in 1..Len(calls[f]) /\ s = calls[f][j]
    BY <2>1, <2>2, <2>3, <2>4
  <2>6. Range(calls[f]) \subseteq Range(calls'[f])
    BY <2>1, <2>2
  <2>7. CASE e = k + 1
    <3>1. \E i \in 1..Len(calls'[f]) : calls'[f][i] = Synthetic(edges[k + 1], calls[f][j])
      BY <1>1, <1>2, <2>5, <2>7, SitesStep
    <3> QED BY <2>2, <2>5, <2>7, <3>1
  <2>8. CASE e # k + 1
    <3>1. e \in 1..k /\ s \in Range(calls[f])
      BY <1>1, <2>2, <2>5, <2>8
    <3>2. Synthetic(edges[e], s) \in Range(calls[f])
      BY <1>1, <1>2, <3>1 DEF ClosedSoFar
    <3> QED BY <2>6, <3>2
  <2> QED BY <2>7, <2>8
<1> QED BY <1>1, <1>2 DEF ClosedSoFar

(* The package's promise, for every graph and every map in hop order: once *)
(* the pass is through, a call an edge accepts stands beside the call of   *)
(* the edge's target.                                                      *)
THEOREM HopOrderIsEnough == Spec => []HopOrderCloses
<1>1. Init => HopInv
  BY InitCalls DEF HopInv, ClosedSoFar, Init
<1>2. HopInv /\ [Next]_vars => HopInv'
  <2> SUFFICES ASSUME HopInv, [Next]_vars PROVE HopInv'
    OBVIOUS
  <2>1. CallsInv'
    BY CallsStep DEF HopInv
  <2>2. ASSUME InHopOrder' PROVE ClosedSoFar'
    <3>1. CASE UNCHANGED vars
      BY <2>2, <3>1 DEF HopInv, InHopOrder, ClosedSoFar, vars
    <3>2. CASE Next
      <4>1. edges' = edges
        BY <3>2 DEF Next, SkipEdge, ApplyEdge
      <4>2. InHopOrder
        BY <2>2, <4>1 DEF InHopOrder
      <4> QED BY <3>2, <4>2, HopStep
    <3> QED BY <3>1, <3>2
  <2> QED BY <2>1, <2>2 DEF HopInv
<1>3. HopInv => HopOrderCloses
  <2> SUFFICES ASSUME HopInv, InHopOrder, Done PROVE ClosedUnderEdges
    BY DEF HopOrderCloses, ClosedUnderEdges
  <2>1. DOMAIN edges = 1..k
    BY LenProperties DEF HopInv, CallsInv, TypeOK, Done
  <2> QED BY <2>1 DEF HopInv, ClosedSoFar, ClosedUnderEdges
<1> QED BY <1>1, <1>2, <1>3, PTL DEF Spec
=============================================================================
