---------------------------- MODULE EngineProofs ----------------------------
(***************************************************************************)
(* Analyze keeps its inductive invariant, loses no violation and gives the *)
(* report PolicyCheck declares, for every call graph and every policy.     *)
(***************************************************************************)
EXTENDS Engine, Closure, Lemmas, FiniteSetTheorems

-----------------------------------------------------------------------------
(* Closures.                                                               *)

(* A function's closure holds it, lies in the project and holds the        *)
(* closures of its members.                                                *)
LEMMA ClosureProperties ==
    ASSUME NEW gr, IsGraph(gr), NEW f \in gr.funcs
    PROVE  /\ ClosureOf(gr, f) \subseteq gr.funcs
           /\ IsFiniteSet(ClosureOf(gr, f))
           /\ f \in ClosureOf(gr, f)
           /\ \A h \in ClosureOf(gr, f) : ClosureOf(gr, h) \subseteq ClosureOf(gr, f)
<1>1. Callees(gr) \in [gr.funcs -> SUBSET gr.funcs]
  BY DEF Callees, CalleeSet
<1>2. /\ ClosureOf(gr, f) \subseteq gr.funcs
      /\ f \in ClosureOf(gr, f)
      /\ IsClosed(Callees(gr), ClosureOf(gr, f))
  BY <1>1, ReachProperties DEF ClosureOf
<1>3. IsFiniteSet(ClosureOf(gr, f))
  BY <1>2, FS_Subset DEF IsGraph
<1>4. ASSUME NEW h \in ClosureOf(gr, f)
      PROVE  ClosureOf(gr, h) \subseteq ClosureOf(gr, f)
  <2>1. \A T \in SUBSET gr.funcs :
            h \in T /\ IsClosed(Callees(gr), T) => Reach(Callees(gr), h) \subseteq T
    BY <1>1, <1>2, ReachProperties
  <2> QED BY <1>2, <2>1 DEF ClosureOf
<1> QED BY <1>2, <1>3, <1>4

(* Of a function and one it can call, the second has the smaller closure   *)
(* exactly when it cannot call the first back: the comparison of sizes     *)
(* dedup makes tells recursive groups apart.                               *)
LEMMA SmallerClosure ==
    ASSUME NEW gr, IsGraph(gr), NEW f \in gr.funcs, NEW h \in ClosureOf(gr, f)
    PROVE  /\ Cardinality(ClosureOf(gr, f)) \in Nat
           /\ Cardinality(ClosureOf(gr, h)) \in Nat
           /\ Cardinality(ClosureOf(gr, h)) >= Cardinality(ClosureOf(gr, f))
                  <=> f \in ClosureOf(gr, h)
<1>1. /\ IsFiniteSet(ClosureOf(gr, f)) /\ f \in ClosureOf(gr, f) /\ h \in gr.funcs
      /\ ClosureOf(gr, h) \subseteq ClosureOf(gr, f)
  BY ClosureProperties
<1>2. /\ IsFiniteSet(ClosureOf(gr, h))
      /\ f \in ClosureOf(gr, h) => ClosureOf(gr, f) \subseteq ClosureOf(gr, h)
  BY <1>1, ClosureProperties
<1>3. /\ Cardinality(ClosureOf(gr, f)) \in Nat
      /\ Cardinality(ClosureOf(gr, h)) \in Nat
  BY <1>1, <1>2, FS_CardinalityType
<1>4. /\ Cardinality(ClosureOf(gr, h)) <= Cardinality(ClosureOf(gr, f))
      /\ Cardinality(ClosureOf(gr, f)) = Cardinality(ClosureOf(gr, h))
             => ClosureOf(gr, f) = ClosureOf(gr, h)
  BY <1>1, FS_Subset
<1>5. f \in ClosureOf(gr, h) => ClosureOf(gr, f) = ClosureOf(gr, h)
  BY <1>1, <1>2
<1> QED BY <1>1, <1>3, <1>4, <1>5

-----------------------------------------------------------------------------
(* Findings.                                                               *)

(* Evidence has a first element in the order the engine lists it. *)
LEMMA EarliestType ==
    ASSUME NEW S \in SUBSET (Nat \X Nat), S # {}
    PROVE  Earliest(S) \in S
<1> DEFINE funcs == {a[1] : a \in S}
<1>1. PICK f \in funcs : \A h \in funcs : f <= h
  <2>1. funcs \in SUBSET Nat /\ funcs # {}
    OBVIOUS
  <2> QED BY <2>1, LeastNatural
<1> DEFINE places == {a[2] : a \in {b \in S : b[1] = f}}
<1>2. PICK i \in places : \A j \in places : i <= j
  <2>1. places \in SUBSET Nat /\ places # {}
    BY <1>1
  <2> QED BY <2>1, LeastNatural
<1>3. PICK a \in S : a[1] = f /\ a[2] = i
  BY <1>2
<1>4. \A b \in S : NotAfter(a, b)
  <2> SUFFICES ASSUME NEW b \in S PROVE NotAfter(a, b)
    OBVIOUS
  <2>1. b[1] \in Nat /\ b[2] \in Nat /\ f \in Nat /\ f <= b[1]
    BY <1>1
  <2>2. b[1] = f => i <= b[2]
    BY <1>2
  <2> QED BY <1>3, <2>1, <2>2 DEF NotAfter
<1> QED BY <1>4 DEF Earliest

(* What a matcher finds first in a scope is a site of the program. *)
LEMMA SiteType ==
    ASSUME NEW gr, IsGraph(gr), NEW m \in Matcher,
           NEW scope \in SUBSET (gr.funcs \cup {ModuleScope}), HasMatch(gr, scope, m)
    PROVE  firstMatchAny(gr, scope, m) \in Site
<1> DEFINE calls  == MatchingCalls(gr, scope, m)
           fields == MatchingFields(gr, scope, m)
<1>1. gr.funcs \cup {ModuleScope} \subseteq Nat
  <2>1. FQN \subseteq Nat
    BY FQNAssumption
  <2>2. gr.funcs \subseteq FQN
    BY DEF IsGraph
  <2>3. ModuleScope \in Nat
    BY DEF ModuleScope
  <2> QED BY <2>1, <2>2, <2>3
<1>2. /\ calls \in SUBSET (Nat \X Nat)
      /\ \A a \in calls : gr.calls[a[1]][a[2]] \in CallSite
  <2> SUFFICES ASSUME NEW f \in scope, NEW i \in DOMAIN gr.calls[f]
               PROVE  f \in Nat /\ i \in Nat /\ gr.calls[f][i] \in CallSite
    BY DEF MatchingCalls
  <2>1. gr.calls[f] \in Seq(CallSite)
    BY DEF IsGraph
  <2>2. i \in Nat /\ gr.calls[f][i] \in CallSite
    BY <2>1, SeqElement
  <2>3. f \in Nat
    BY <1>1
  <2> QED BY <2>2, <2>3
<1>3. /\ fields \in SUBSET (Nat \X Nat)
      /\ \A a \in fields : gr.fields[a[1]][a[2]] \in FieldAccess
  <2> SUFFICES ASSUME NEW f \in scope, NEW i \in DOMAIN gr.fields[f]
               PROVE  f \in Nat /\ i \in Nat /\ gr.fields[f][i] \in FieldAccess
    BY DEF MatchingFields
  <2>1. gr.fields[f] \in Seq(FieldAccess)
    BY DEF IsGraph
  <2>2. i \in Nat /\ gr.fields[f][i] \in FieldAccess
    BY <2>1, SeqElement
  <2>3. f \in Nat
    BY <1>1
  <2> QED BY <2>2, <2>3
<1>4. CASE calls # {}
  <2>1. Earliest(calls) \in calls
    BY <1>2, <1>4, EarliestType
  <2> DEFINE s == gr.calls[Earliest(calls)[1]][Earliest(calls)[2]]
  <2>2. s \in CallSite
    BY <1>2, <2>1
  <2>3. firstMatchAny(gr, scope, m) = [callee |-> s.callee, path |-> s.path, line |-> s.line]
    BY <1>4 DEF firstMatchAny
  <2> QED BY <2>2, <2>3 DEF CallSite, Site
<1>5. CASE calls = {}
  <2>1. fields # {}
    BY <1>5 DEF HasMatch
  <2>2. Earliest(fields) \in fields
    BY <1>3, <2>1, EarliestType
  <2> DEFINE a == gr.fields[Earliest(fields)[1]][Earliest(fields)[2]]
  <2>3. a \in FieldAccess
    BY <1>3, <2>2
  <2>4. firstMatchAny(gr, scope, m) = [callee |-> a.text, path |-> a.path, line |-> a.line]
    BY <1>5 DEF firstMatchAny
  <2> QED BY <2>3, <2>4 DEF FieldAccess, Site
<1> QED BY <1>4, <1>5

LEMMA FindingType ==
    ASSUME NEW gr, IsGraph(gr), NEW po \in Policy, NEW f \in FQN \cup {ModuleScope},
           NEW scope \in SUBSET (gr.funcs \cup {ModuleScope}), Fires(gr, po, scope)
    PROVE  FindingOf(gr, po, scope, f) \in Finding /\ FindingOf(gr, po, scope, f).function = f
<1>1. po.source \in Matcher /\ po.sink \in Matcher
  BY DEF Policy
<1>2. /\ firstMatchAny(gr, scope, po.source) \in Site
      /\ firstMatchAny(gr, scope, po.sink) \in Site
  BY <1>1, SiteType DEF Fires
<1> QED BY <1>2 DEF FindingOf, Finding

-----------------------------------------------------------------------------
(* Slices of findings.                                                     *)

LEMMA DistinctAppend ==
    ASSUME NEW s \in Seq(Finding), NEW v \in Finding, Distinct(s),
           \A w \in Range(s) : w.function # v.function
    PROVE  Distinct(Append(s, v))
<1> DEFINE t == Append(s, v)
<1>1. /\ t \in Seq(Finding)
      /\ Len(t) = Len(s) + 1
      /\ \A i \in 1..Len(s) : t[i] = s[i]
      /\ t[Len(s) + 1] = v
  BY AppendProperties
<1>2. /\ Len(s) \in Nat /\ DOMAIN s = 1..Len(s)
      /\ DOMAIN t = 1..Len(t)
  BY <1>1, LenProperties
<1>3. \A i \in 1..Len(s) : s[i].function # v.function
  BY <1>2, RangeEquality
<1> HIDE DEF t
<1>4. SUFFICES ASSUME NEW i \in DOMAIN t, NEW j \in DOMAIN t, t[i].function = t[j].function
               PROVE  i = j
  BY DEF Distinct, t
<1>5. /\ i \in 1..Len(s) \/ i = Len(s) + 1
      /\ j \in 1..Len(s) \/ j = Len(s) + 1
  BY <1>1, <1>2
<1>6. i \in 1..Len(s) /\ j \in 1..Len(s) => i = j
  BY <1>1, <1>2, <1>4 DEF Distinct
<1> QED BY <1>1, <1>3, <1>4, <1>5, <1>6

LEMMA DistinctTail ==
    ASSUME NEW s \in Seq(Finding), s # <<>>, Distinct(s)
    PROVE  /\ Distinct(Tail(s))
           /\ \A w \in Range(Tail(s)) : w.function # Head(s).function
<1> DEFINE t == Tail(s)
<1>1. /\ t \in Seq(Finding)
      /\ Len(t) = Len(s) - 1
      /\ \A i \in 1..Len(t) : t[i] = s[i + 1]
  BY HeadTailProperties
<1>2. /\ Len(s) \in Nat /\ Len(s) # 0 /\ DOMAIN s = 1..Len(s)
      /\ DOMAIN t = 1..Len(t) /\ Head(s) = s[1]
  BY <1>1, EmptySeq, LenProperties
<1>3. Range(t) = {t[i] : i \in 1..Len(t)}
  BY <1>1, RangeEquality
<1> HIDE DEF t
<1>4. ASSUME NEW i \in DOMAIN t, NEW j \in DOMAIN t, t[i].function = t[j].function
      PROVE  i = j
  <2>1. /\ i + 1 \in DOMAIN s /\ j + 1 \in DOMAIN s
        /\ s[i + 1].function = s[j + 1].function
    BY <1>1, <1>2, <1>4
  <2> QED BY <1>1, <1>2, <2>1 DEF Distinct
<1>5. ASSUME NEW i \in 1..Len(t)
      PROVE  t[i].function # s[1].function
  <2>1. i + 1 \in DOMAIN s /\ 1 \in DOMAIN s /\ i + 1 # 1
    BY <1>1, <1>2
  <2> QED BY <1>1, <2>1 DEF Distinct
<1>6. Distinct(t)
  BY <1>4 DEF Distinct
<1>7. \A w \in Range(t) : w.function # Head(s).function
  BY <1>2, <1>3, <1>5
<1> QED BY <1>6, <1>7 DEF t

(* Sorting keeps the findings. *)
LEMMA PermutationProperties ==
    ASSUME NEW s \in Seq(Finding), NEW order \in Bijection(DOMAIN s, DOMAIN s),
           NEW t, t = [i \in DOMAIN s |-> s[order[i]]]
    PROVE  /\ t \in Seq(Finding)
           /\ Range(t) = Range(s)
           /\ Distinct(s) => Distinct(t)
<1>1. Len(s) \in Nat /\ DOMAIN s = 1..Len(s) /\ \A i \in 1..Len(s) : s[i] \in Finding
  BY LenProperties, ElementOfSeq
<1>2. /\ \A i \in DOMAIN s : order[i] \in DOMAIN s
      /\ \A i, j \in DOMAIN s : order[i] = order[j] => i = j
      /\ \A j \in DOMAIN s : \E i \in DOMAIN s : order[i] = j
  BY DEF Bijection, Injection, Surjection, IsInjective
<1>3. DOMAIN t = DOMAIN s /\ \A i \in DOMAIN s : t[i] = s[order[i]]
  OBVIOUS
<1>4. t \in Seq(Finding)
  <2>1. t \in [1..Len(s) -> Finding]
    BY <1>1, <1>2
  <2> QED BY <1>1, <2>1, IsASeq
<1>5. Range(t) = Range(s)
  <2>1. Range(t) = {t[i] : i \in DOMAIN s}
    BY <1>3 DEF Range
  <2>2. Range(s) = {s[i] : i \in DOMAIN s}
    BY DEF Range
  <2>3. ASSUME NEW x \in Range(s) PROVE x \in Range(t)
    <3>1. PICK i \in DOMAIN s : x = s[i]
      BY <2>2
    <3>2. PICK j \in DOMAIN s : order[j] = i
      BY <1>2
    <3> QED BY <1>3, <2>1, <3>1, <3>2
  <2>4. ASSUME NEW x \in Range(t) PROVE x \in Range(s)
    <3>1. PICK i \in DOMAIN s : x = t[i]
      BY <2>1
    <3> QED BY <1>2, <1>3, <2>2, <3>1
  <2> QED BY <2>3, <2>4
<1>6. ASSUME Distinct(s), NEW i \in DOMAIN t, NEW j \in DOMAIN t, t[i].function = t[j].function
      PROVE  i = j
  <2>1. order[i] \in DOMAIN s /\ order[j] \in DOMAIN s /\ i \in DOMAIN s /\ j \in DOMAIN s
    BY <1>2, <1>3
  <2>2. s[order[i]].function = s[order[j]].function
    BY <1>3, <1>6, <2>1
  <2>3. order[i] = order[j]
    BY <1>6, <2>1, <2>2 DEF Distinct
  <2> QED BY <1>2, <2>1, <2>3
<1>7. Distinct(s) => Distinct(t)
  BY <1>6 DEF Distinct
<1> QED BY <1>4, <1>5, <1>7

-----------------------------------------------------------------------------
(* Violators.                                                              *)

LEMMA FunctionFindingType ==
    ASSUME NEW gr, IsGraph(gr), NEW po \in Policy, NEW f \in gr.funcs, Violates(gr, po, f)
    PROVE  FunctionFinding(gr, po, f) \in Finding /\ FunctionFinding(gr, po, f).function = f
<1>1. f \in FQN \cup {ModuleScope}
  BY DEF IsGraph
<1>2. ClosureOf(gr, f) \in SUBSET (gr.funcs \cup {ModuleScope})
  BY ClosureProperties
<1> QED BY <1>1, <1>2, FindingType DEF Violates, FunctionFinding

(* The violators map holds one finding for each function that violates. *)
LEMMA ViolatorFacts ==
    ASSUME TypeOK, ViolatorsInv
    PROVE  /\ Evaluated \subseteq g.funcs
           /\ Violating = {h \in Evaluated : Violates(g, p, h)}
           /\ \A v \in violators : /\ v.function \in Violating
                                    /\ v = FunctionFinding(g, p, v.function)
<1>1. Evaluated \subseteq g.funcs
  BY DEF Evaluated
<1>2. \A f \in Evaluated : Violates(g, p, f) => FunctionFinding(g, p, f).function = f
  BY <1>1, FunctionFindingType DEF TypeOK
<1>3. violators = {FunctionFinding(g, p, f) : f \in {h \in Evaluated : Violates(g, p, h)}}
  BY DEF ViolatorsInv
<1>4. \A v \in violators : /\ v.function \in Evaluated /\ Violates(g, p, v.function)
                            /\ v = FunctionFinding(g, p, v.function)
  BY <1>2, <1>3
<1>5. \A f \in Evaluated : Violates(g, p, f) => \E v \in violators : v.function = f
  BY <1>2, <1>3
<1> QED BY <1>1, <1>4, <1>5 DEF Violating

(* Once all functions are evaluated, dedup's test is the declared one. *)
LEMMA MinimalViolator ==
    ASSUME TypeOK, ClosuresInv, ViolatorsInv, pc \notin {"closures", "evaluate"},
           NEW f \in Violating
    PROVE  IsMinimalViolator(f) <=> IsMinimal(g, p, f)
<1>1. IsGraph(g) /\ Evaluated = g.funcs /\ \A h \in g.funcs : closures[h] = ClosureOf(g, h)
  BY DEF TypeOK, Evaluated, ClosuresInv
<1>2. f \in g.funcs /\ Violating = {h \in g.funcs : Violates(g, p, h)}
  BY <1>1, ViolatorFacts
<1>3. ClosureOf(g, f) \subseteq g.funcs /\ f \in ClosureOf(g, f)
  BY <1>1, <1>2, ClosureProperties
<1>4. \A h \in ClosureOf(g, f) :
          Cardinality(closures[h]) >= Cardinality(closures[f]) <=> f \in ClosureOf(g, h)
  BY <1>1, <1>2, <1>3, SmallerClosure
<1> QED BY <1>1, <1>2, <1>3, <1>4 DEF IsMinimalViolator, IsMinimal

-----------------------------------------------------------------------------
(* The inductive invariant, loop by loop.                                  *)

LEMMA EmptySlice ==
    /\ <<>> \in Seq(Finding)
    /\ Range(<<>>) = {}
    /\ Distinct(<<>>)
    /\ Ordered(<<>>)
BY DEF Range, Distinct, Ordered

LEMMA InitInv == Init => IInv
<1> SUFFICES ASSUME Init PROVE IInv
  OBVIOUS
<1>1. IsGraph(g)
  BY GraphsAssumption DEF Init
<1>2. TypeOK
  BY <1>1, PoliciesAssumption, EmptySlice DEF Init, TypeOK
<1>3. ClosuresInv
  BY DEF Init, ClosuresInv
<1>4. ViolatorsInv
  BY DEF Init, ViolatorsInv, Evaluated
<1>5. DedupInv
  BY DEF Init, DedupInv
<1>6. FilterInv
  BY DEF Init, FilterInv
<1>7. OnePerScope
  BY EmptySlice DEF Init, OnePerScope
<1> QED BY <1>2, <1>3, <1>4, <1>5, <1>6, <1>7 DEF IInv

LEMMA ComputeClosureInv ==
    ASSUME IInv, NEW f \in todo, ComputeClosure(f)
    PROVE  IInv'
<1> USE DEF ComputeClosure
<1>1. /\ TypeOK /\ f \in g.funcs
      /\ ClosureOf(g, f) \in SUBSET g.funcs
  BY ClosureProperties DEF IInv, TypeOK
<1>2. TypeOK'
  BY <1>1 DEF TypeOK
<1>3. ClosuresInv'
  BY <1>1 DEF TypeOK, IInv, ClosuresInv
<1>4. ViolatorsInv'
  BY DEF IInv, ViolatorsInv, Evaluated
<1>5. DedupInv'
  BY DEF IInv, DedupInv
<1>6. FilterInv'
  BY DEF IInv, FilterInv
<1>7. OnePerScope'
  BY DEF IInv, OnePerScope
<1> QED BY <1>2, <1>3, <1>4, <1>5, <1>6, <1>7 DEF IInv

LEMMA EndClosuresInv ==
    ASSUME IInv, EndClosures
    PROVE  IInv'
<1> USE DEF EndClosures
<1>1. TypeOK'
  BY DEF IInv, TypeOK
<1>2. ClosuresInv'
  BY DEF IInv, ClosuresInv
<1>3. ViolatorsInv'
  BY DEF IInv, ViolatorsInv, Evaluated
<1>4. DedupInv'
  BY DEF IInv, DedupInv
<1>5. FilterInv'
  BY DEF IInv, FilterInv
<1>6. OnePerScope'
  BY DEF IInv, OnePerScope
<1> QED BY <1>1, <1>2, <1>3, <1>4, <1>5, <1>6 DEF IInv

LEMMA EvaluateFunctionInv ==
    ASSUME IInv, NEW f \in todo, EvaluateFunction(f)
    PROVE  IInv'
<1> USE DEF EvaluateFunction
<1>1. /\ TypeOK /\ IsGraph(g) /\ p \in Policy /\ f \in g.funcs
      /\ closures[f] = ClosureOf(g, f)
  BY DEF IInv, TypeOK, ClosuresInv
<1>2. violators' = IF Violates(g, p, f)
                   THEN violators \cup {FunctionFinding(g, p, f)}
                   ELSE violators
  BY <1>1 DEF Violates, FunctionFinding
<1>3. TypeOK'
  <2>1. violators' \subseteq Finding
    BY <1>1, <1>2, FunctionFindingType DEF TypeOK
  <2> QED BY <1>1, <2>1 DEF TypeOK
<1>4. ClosuresInv'
  BY DEF IInv, ClosuresInv
<1>5. ViolatorsInv'
  <2>1. Evaluated' = Evaluated \cup {f} /\ g' = g /\ p' = p
    BY <1>1 DEF Evaluated, TypeOK
  <2> QED BY <1>2, <2>1 DEF IInv, ViolatorsInv
<1>6. DedupInv'
  BY DEF IInv, DedupInv
<1>7. FilterInv'
  BY DEF IInv, FilterInv
<1>8. OnePerScope'
  BY DEF IInv, OnePerScope
<1> QED BY <1>3, <1>4, <1>5, <1>6, <1>7, <1>8 DEF IInv

LEMMA EndEvaluateInv ==
    ASSUME IInv, EndEvaluate
    PROVE  IInv'
<1> USE DEF EndEvaluate
<1>1. Violating \subseteq g.funcs /\ \A v \in violators : v.function \in Violating
  BY ViolatorFacts DEF IInv
<1>2. TypeOK'
  BY <1>1 DEF IInv, TypeOK
<1>3. ClosuresInv'
  BY DEF IInv, ClosuresInv
<1>4. ViolatorsInv'
  BY DEF IInv, ViolatorsInv, Evaluated
<1>5. DedupInv'
  BY <1>1, EmptySlice DEF IInv, DedupInv
<1>6. FilterInv'
  BY DEF IInv, FilterInv
<1>7. OnePerScope'
  BY DEF IInv, OnePerScope
<1> QED BY <1>2, <1>3, <1>4, <1>5, <1>6, <1>7 DEF IInv

LEMMA DedupStepInv ==
    ASSUME IInv, NEW v \in violators, Dedup(v)
    PROVE  IInv'
<1> USE DEF Dedup
<1> DEFINE f == v.function
<1>1. /\ TypeOK /\ ViolatorsInv /\ DedupInv /\ OnePerScope
      /\ pc = "dedup" /\ f \in todo /\ kept = <<>>
      /\ v \in Finding /\ out \in Seq(Finding)
  BY DEF IInv, TypeOK, FilterInv
<1>2. Range(out) = {w \in violators : w.function \notin todo /\ IsMinimalViolator(w.function)}
  BY <1>1 DEF DedupInv
<1>3. \A w \in violators : w.function = f => w = v
  BY <1>1, ViolatorFacts
<1>4. /\ Append(out, v) \in Seq(Finding)
      /\ Range(Append(out, v)) = Range(out) \cup {v}
  BY <1>1, PushProperties
<1>5. \A h : IsMinimalViolator(h)' <=> IsMinimalViolator(h)
  BY DEF IsMinimalViolator, Violating
<1>6. TypeOK'
  BY <1>1, <1>4 DEF TypeOK
<1>7. ClosuresInv'
  BY DEF IInv, ClosuresInv
<1>8. ViolatorsInv'
  BY <1>1 DEF ViolatorsInv, Evaluated
<1>9. DedupInv'
  <2>1. Range(out)' = {w \in violators : w.function \notin todo \ {f}
                                            /\ IsMinimalViolator(w.function)}
    <3>1. CASE IsMinimalViolator(f)
      BY <1>1, <1>2, <1>3, <1>4, <3>1
    <3>2. CASE ~IsMinimalViolator(f)
      BY <1>1, <1>2, <1>3, <3>2
    <3> QED BY <3>1, <3>2
  <2>2. \A w \in violators : IsMinimalViolator(w.function)' <=> IsMinimalViolator(w.function)
    BY <1>5
  <2>3. violators' = violators /\ todo' = todo \ {f} /\ pc' = "dedup"
    BY <1>1
  <2> QED BY <2>1, <2>2, <2>3 DEF DedupInv
<1>10. FilterInv'
  BY <1>1 DEF IInv, FilterInv
<1>11. OnePerScope'
  <2>1. \A w \in Range(out) : w.function # f
    BY <1>1, <1>2
  <2>2. Distinct(out) => Distinct(Append(out, v))
    BY <1>1, <2>1, DistinctAppend
  <2>3. Range(kept') = {}
    BY <1>1, EmptySlice
  <2> QED BY <1>1, <2>2, <2>3 DEF OnePerScope
<1> QED BY <1>6, <1>7, <1>8, <1>9, <1>10, <1>11 DEF IInv

LEMMA EndDedupInv ==
    ASSUME IInv, EndDedup
    PROVE  IInv'
<1> USE DEF EndDedup
<1>1. TypeOK'
  BY DEF IInv, TypeOK
<1>2. ClosuresInv'
  BY DEF IInv, ClosuresInv
<1>3. ViolatorsInv'
  BY DEF IInv, ViolatorsInv, Evaluated
<1>4. DedupInv'
  BY DEF IInv, DedupInv, IsMinimalViolator, Violating
<1>5. FilterInv'
  BY DEF IInv, FilterInv
<1>6. OnePerScope'
  BY DEF IInv, OnePerScope
<1> QED BY <1>1, <1>2, <1>3, <1>4, <1>5, <1>6 DEF IInv

(* What dedup leaves is what the report is to hold of functions. *)
LEMMA DedupResult ==
    ASSUME IInv, pc = "module"
    PROVE  /\ Range(out) = FunctionFindings(g, p)
           /\ \A v \in Range(out) : v.function \in g.funcs
<1>1. /\ TypeOK /\ ClosuresInv /\ ViolatorsInv
      /\ Range(out) = {v \in violators : IsMinimalViolator(v.function)}
  BY DEF IInv, DedupInv
<1>2. /\ Evaluated = g.funcs
      /\ Violating = {h \in g.funcs : Violates(g, p, h)}
      /\ \A v \in violators : v.function \in Violating
                               /\ v = FunctionFinding(g, p, v.function)
  BY <1>1, ViolatorFacts DEF Evaluated
<1>3. \A f \in Violating : IsMinimalViolator(f) <=> IsMinimal(g, p, f)
  BY <1>1, MinimalViolator
<1>4. \A f \in Violating : /\ FunctionFinding(g, p, f) \in violators
                           /\ FunctionFinding(g, p, f).function = f
  BY <1>1, <1>2 DEF Violating
<1> QED BY <1>1, <1>2, <1>3, <1>4 DEF FunctionFindings

LEMMA AnalyzeModuleScopeInv ==
    ASSUME IInv, AnalyzeModuleScope
    PROVE  IInv'
<1> USE DEF AnalyzeModuleScope
<1> DEFINE v == FindingOf(g, p, {ModuleScope}, ModuleScope)
<1>1. /\ TypeOK /\ DedupInv /\ FilterInv /\ OnePerScope
      /\ IsGraph(g) /\ p \in Policy /\ pc = "module" /\ kept = <<>>
      /\ out \in Seq(Finding)
  BY DEF IInv, TypeOK, FilterInv
<1>2. Fires(g, p, {ModuleScope}) => v \in Finding /\ v.function = ModuleScope
  BY <1>1, FindingType
<1>3. \A w \in Range(out) : w.function # ModuleScope
  BY <1>1, DedupResult, FQNAssumption DEF IsGraph
<1>4. /\ out' \in Seq(Finding)
      /\ Range(out') = FunctionFindings(g, p) \cup ModuleFindings(g, p)
      /\ Distinct(out')
  <2>1. Range(out) = FunctionFindings(g, p) /\ Distinct(out)
    BY <1>1, DedupResult DEF OnePerScope
  <2>2. CASE Fires(g, p, {ModuleScope})
    <3>1. out' = Append(out, v) /\ ModuleFindings(g, p) = {v}
      BY <2>2 DEF ModuleFindings
    <3>2. v \in Finding /\ \A w \in Range(out) : w.function # v.function
      BY <1>2, <1>3, <2>2
    <3> HIDE DEF v
    <3>3. /\ Append(out, v) \in Seq(Finding)
          /\ Range(Append(out, v)) = Range(out) \cup {v}
      BY <1>1, <3>2, PushProperties
    <3>4. Distinct(Append(out, v))
      BY <1>1, <2>1, <3>2, DistinctAppend
    <3> QED BY <2>1, <3>1, <3>3, <3>4
  <2>3. CASE ~Fires(g, p, {ModuleScope})
    BY <1>1, <2>1, <2>3 DEF ModuleFindings
  <2> QED BY <2>2, <2>3
<1>5. TypeOK'
  BY <1>1, <1>4 DEF TypeOK
<1>6. ClosuresInv'
  BY DEF IInv, ClosuresInv
<1>7. ViolatorsInv'
  BY DEF IInv, ViolatorsInv, Evaluated
<1>8. DedupInv'
  BY <1>1 DEF DedupInv
<1>9. FilterInv'
  <2>1. Range(kept') = {} /\ pc' = "suppress" /\ g' = g /\ p' = p
    BY <1>1, EmptySlice
  <2> QED BY <1>4, <2>1 DEF FilterInv, Reported
<1>10. OnePerScope'
  BY <1>1, <1>4, EmptySlice DEF OnePerScope
<1> QED BY <1>5, <1>6, <1>7, <1>8, <1>9, <1>10 DEF IInv

LEMMA FilterSuppressedInv ==
    ASSUME IInv, FilterSuppressed
    PROVE  IInv'
<1> USE DEF FilterSuppressed
<1> DEFINE v == Head(out)
<1>1. /\ TypeOK /\ DedupInv /\ FilterInv /\ OnePerScope
      /\ pc = "suppress" /\ out # <<>>
      /\ out \in Seq(Finding) /\ kept \in Seq(Finding)
  BY DEF IInv, TypeOK
<1>2. /\ v \in Finding /\ Tail(out) \in Seq(Finding)
      /\ Range(out) = {v} \cup Range(Tail(out))
  BY <1>1, TailProperties
<1>3. /\ Distinct(Tail(out))
      /\ \A w \in Range(Tail(out)) : w.function # v.function
  BY <1>1, DistinctTail DEF OnePerScope
<1>4. /\ Append(kept, v) \in Seq(Finding)
      /\ Range(Append(kept, v)) = Range(kept) \cup {v}
      /\ Distinct(Append(kept, v))
  BY <1>1, <1>2, PushProperties, DistinctAppend DEF OnePerScope
<1>5. TypeOK'
  BY <1>1, <1>2, <1>4 DEF TypeOK
<1>6. ClosuresInv'
  BY DEF IInv, ClosuresInv
<1>7. ViolatorsInv'
  BY DEF IInv, ViolatorsInv, Evaluated
<1>8. DedupInv'
  BY <1>1 DEF DedupInv
<1>9. FilterInv'
  <2>1. /\ {w \in Range(out) \cup Range(kept) : ~Suppressed(g, p, w)} = Reported(g, p)
        /\ \A w \in Range(kept) : ~Suppressed(g, p, w)
    BY <1>1 DEF FilterInv
  <2>2. /\ {w \in Range(out') \cup Range(kept') : ~Suppressed(g, p, w)} = Reported(g, p)
        /\ \A w \in Range(kept') : ~Suppressed(g, p, w)
    BY <1>2, <1>4, <2>1
  <2>3. pc' = "suppress" /\ g' = g /\ p' = p
    BY <1>1
  <2> QED BY <2>2, <2>3 DEF FilterInv
<1>10. OnePerScope'
  BY <1>1, <1>2, <1>3, <1>4 DEF OnePerScope
<1> QED BY <1>5, <1>6, <1>7, <1>8, <1>9, <1>10 DEF IInv

LEMMA EndFilterInv ==
    ASSUME IInv, EndFilter
    PROVE  IInv'
<1> USE DEF EndFilter
<1>1. TypeOK'
  BY DEF IInv, TypeOK
<1>2. ClosuresInv'
  BY DEF IInv, ClosuresInv
<1>3. ViolatorsInv'
  BY DEF IInv, ViolatorsInv, Evaluated
<1>4. DedupInv'
  BY DEF IInv, DedupInv
<1>5. FilterInv'
  BY DEF IInv, FilterInv
<1>6. OnePerScope'
  BY DEF IInv, OnePerScope
<1> QED BY <1>1, <1>2, <1>3, <1>4, <1>5, <1>6 DEF IInv

LEMMA SortFindingsInv ==
    ASSUME IInv, SortFindings
    PROVE  IInv'
<1>1. /\ TypeOK /\ DedupInv /\ FilterInv /\ OnePerScope /\ kept \in Seq(Finding)
      /\ pc = "sort" /\ pc' = "done" /\ UNCHANGED <<g, p, todo, closures, violators, out>>
  BY DEF IInv, TypeOK, SortFindings
<1>2. PICK order \in Bijection(DOMAIN kept, DOMAIN kept) :
          kept' = [i \in DOMAIN kept |-> kept[order[i]]] /\ Ordered(kept')
  BY DEF SortFindings
<1>3. /\ kept' \in Seq(Finding)
      /\ Range(kept') = Range(kept)
      /\ Distinct(kept) => Distinct(kept')
  BY <1>1, <1>2, PermutationProperties
<1>4. TypeOK'
  BY <1>1, <1>3 DEF TypeOK
<1>5. ClosuresInv'
  BY <1>1 DEF IInv, ClosuresInv
<1>6. ViolatorsInv'
  BY <1>1 DEF IInv, ViolatorsInv, Evaluated
<1>7. DedupInv'
  BY <1>1 DEF DedupInv
<1>8. FilterInv'
  BY <1>1, <1>2, <1>3 DEF FilterInv
<1>9. OnePerScope'
  BY <1>1, <1>3 DEF OnePerScope
<1> QED BY <1>4, <1>5, <1>6, <1>7, <1>8, <1>9 DEF IInv

LEMMA NextInv == IInv /\ [Next]_vars => IInv'
<1> SUFFICES ASSUME IInv, [Next]_vars PROVE IInv'
  OBVIOUS
<1>1. ASSUME NEW f \in todo, ComputeClosure(f) PROVE IInv'
  BY <1>1, ComputeClosureInv
<1>2. ASSUME NEW f \in todo, EvaluateFunction(f) PROVE IInv'
  BY <1>2, EvaluateFunctionInv
<1>3. ASSUME NEW v \in violators, Dedup(v) PROVE IInv'
  BY <1>3, DedupStepInv
<1>4. EndClosures => IInv'
  BY EndClosuresInv
<1>5. EndEvaluate => IInv'
  BY EndEvaluateInv
<1>6. EndDedup => IInv'
  BY EndDedupInv
<1>7. AnalyzeModuleScope => IInv'
  BY AnalyzeModuleScopeInv
<1>8. FilterSuppressed => IInv'
  BY FilterSuppressedInv
<1>9. EndFilter => IInv'
  BY EndFilterInv
<1>10. SortFindings => IInv'
  BY SortFindingsInv
<1>11. UNCHANGED vars => IInv'
  BY DEF vars, IInv, TypeOK, ClosuresInv, ViolatorsInv, Evaluated, DedupInv,
         IsMinimalViolator, Violating, FilterInv, OnePerScope
<1> QED BY <1>1, <1>2, <1>3, <1>4, <1>5, <1>6, <1>7, <1>8, <1>9, <1>10, <1>11 DEF Next

(* Every loop of Analyze keeps the inductive invariant: the closures are   *)
(* the reachable sets, the violators map holds exactly the functions whose *)
(* closure violates, and filtering loses nothing but suppressed findings.  *)
THEOREM EngineInvariant == Spec => []IInv
<1>1. Init => IInv
  BY InitInv
<1>2. IInv /\ [Next]_vars => IInv'
  BY NextInv
<1> QED BY <1>1, <1>2, PTL DEF Spec

-----------------------------------------------------------------------------
(* What dedup reports.                                                     *)

(* After dedup, the functions reported are the minimal violators. *)
LEMMA AfterDedup ==
    ASSUME IInv, pc = "module"
    PROVE  /\ IsGraph(g)
           /\ \A f \in g.funcs : closures[f] = ClosureOf(g, f)
           /\ Violating = {f \in g.funcs : Violates(g, p, f)}
           /\ Minimal = {f \in Violating : IsMinimal(g, p, f)}
<1>1. /\ TypeOK /\ ClosuresInv /\ ViolatorsInv /\ IsGraph(g) /\ Evaluated = g.funcs
      /\ Range(out) = {v \in violators : IsMinimalViolator(v.function)}
  BY DEF IInv, DedupInv, TypeOK, Evaluated
<1>2. Violating = {f \in g.funcs : Violates(g, p, f)}
  BY <1>1, ViolatorFacts
<1>3. \A f \in Violating : IsMinimalViolator(f) <=> IsMinimal(g, p, f)
  BY <1>1, MinimalViolator
<1>4. Minimal = {f \in Violating : IsMinimalViolator(f)}
  BY <1>1 DEF Minimal, Violating
<1>5. \A f \in g.funcs : closures[f] = ClosureOf(g, f)
  BY <1>1 DEF ClosuresInv
<1> QED BY <1>1, <1>2, <1>3, <1>4, <1>5

(* Of the violators a function can call, one with the least closure is     *)
(* minimal.                                                                *)
LEMMA MinimalBelow ==
    ASSUME NEW gr, IsGraph(gr), NEW po, NEW f \in gr.funcs, Violates(gr, po, f)
    PROVE  \E h \in ClosureOf(gr, f) : Violates(gr, po, h) /\ IsMinimal(gr, po, h)
<1> DEFINE below == {h \in ClosureOf(gr, f) : Violates(gr, po, h)}
           size(h) == Cardinality(ClosureOf(gr, h))
           sizes == {size(h) : h \in below}
<1>1. /\ ClosureOf(gr, f) \subseteq gr.funcs /\ f \in below
      /\ \A h \in below : ClosureOf(gr, h) \subseteq ClosureOf(gr, f)
  BY ClosureProperties
<1>2. \A h \in below : size(h) \in Nat
  BY <1>1, SmallerClosure
<1>3. PICK m \in sizes : \A k \in sizes : m <= k
  <2>1. sizes \in SUBSET Nat /\ sizes # {}
    BY <1>1, <1>2
  <2> HIDE DEF sizes
  <2> QED BY <2>1, LeastNatural
<1>4. PICK h \in below : size(h) = m
  OBVIOUS
<1>5. ASSUME NEW k \in ClosureOf(gr, h), Violates(gr, po, k)
      PROVE  h \in ClosureOf(gr, k)
  <2>1. h \in gr.funcs /\ k \in below
    BY <1>1, <1>5
  <2>2. size(h) <= size(k) /\ size(h) \in Nat /\ size(k) \in Nat
    BY <1>2, <1>3, <1>4, <2>1
  <2>3. size(k) >= size(h)
    <3> HIDE DEF size
    <3> QED BY <2>2
  <2> QED BY <2>1, <2>3, SmallerClosure
<1> QED BY <1>5 DEF IsMinimal

(* Dedup loses no violation: a function that violates is reported, or can  *)
(* call one that is.                                                       *)
THEOREM NoViolationLost == Spec => []EveryViolatorCovered
<1>1. IInv => EveryViolatorCovered
  <2> SUFFICES ASSUME IInv, pc = "module", NEW f \in Violating
               PROVE  closures[f] \cap Minimal # {}
    BY DEF EveryViolatorCovered
  <2>1. IsGraph(g) /\ f \in g.funcs /\ Violates(g, p, f) /\ closures[f] = ClosureOf(g, f)
    BY AfterDedup
  <2>2. PICK h \in ClosureOf(g, f) : Violates(g, p, h) /\ IsMinimal(g, p, h)
    BY <2>1, MinimalBelow
  <2>3. h \in Minimal
    BY <2>1, <2>2, AfterDedup, ClosureProperties
  <2> QED BY <2>1, <2>2, <2>3
<1> QED BY <1>1, EngineInvariant, PTL

(* Functions that can call each other are reported together or not at all. *)
THEOREM RecursionReportedTogether == Spec => []RecursiveGroupTogether
<1>1. IInv => RecursiveGroupTogether
  <2> SUFFICES ASSUME IInv, pc = "module", NEW f \in g.funcs, NEW h \in g.funcs,
                      f \in closures[h], h \in closures[f]
               PROVE  f \in Minimal <=> h \in Minimal
    BY DEF RecursiveGroupTogether
  <2>1. /\ IsGraph(g)
        /\ f \in ClosureOf(g, h) /\ h \in ClosureOf(g, f)
    BY AfterDedup
  <2>2. ClosureOf(g, f) = ClosureOf(g, h)
    <3>1. ClosureOf(g, f) \subseteq ClosureOf(g, h)
      BY <2>1, ClosureProperties
    <3>2. ClosureOf(g, h) \subseteq ClosureOf(g, f)
      BY <2>1, ClosureProperties
    <3> QED BY <3>1, <3>2
  <2>3. Violates(g, p, f) <=> Violates(g, p, h)
    BY <2>2 DEF Violates
  <2>4. \A k \in ClosureOf(g, f) : f \in ClosureOf(g, k) <=> h \in ClosureOf(g, k)
    <3> TAKE k \in ClosureOf(g, f)
    <3>1. k \in g.funcs
      BY <2>1, ClosureProperties
    <3> QED BY <2>1, <2>2, <3>1, ClosureProperties
  <2>5. IsMinimal(g, p, f) <=> IsMinimal(g, p, h)
    BY <2>2, <2>4 DEF IsMinimal
  <2> QED BY <2>3, <2>5, AfterDedup
<1> QED BY <1>1, EngineInvariant, PTL

-----------------------------------------------------------------------------
(* The report.                                                             *)

(* The declared report, read through the refinement mapping. *)
LEMMA SameReport ==
    /\ PC!Reported(g, p) = Reported(g, p)
    /\ PC!IsGraph(g) <=> IsGraph(g)
    /\ PC!Policy = Policy
    /\ PC!Finding = Finding
    /\ \A s : PC!Range(s) = Range(s)
<1>1. PC!IsGraph(g) <=> IsGraph(g)
  BY DEF PC!IsGraph, IsGraph, PC!CallSite, CallSite, PC!FieldAccess, FieldAccess,
         PC!Suppression, Suppression, PC!AnyPolicy, AnyPolicy, PC!ModuleScope, ModuleScope,
         PC!IsFiniteSet, IsFiniteSet
<1>2. PC!Policy = Policy /\ PC!Finding = Finding
  BY DEF PC!Policy, Policy, PC!Matcher, Matcher, PC!Finding, Finding, PC!Site, Site,
         PC!ModuleScope, ModuleScope
<1>3. \A s : PC!Range(s) = Range(s)
  BY DEF PC!Range, Range
<1>4. PC!Reported(g, p) = Reported(g, p)
  <2>1. \A f : PC!ClosureOf(g, f) = ClosureOf(g, f)
    BY DEF PC!ClosureOf, ClosureOf, PC!Callees, Callees, PC!CalleeSet, CalleeSet,
           PC!Reach, Reach, PC!IsClosed, IsClosed, PC!Range, Range
  <2>2. \A scope, m : PC!HasMatch(g, scope, m) <=> HasMatch(g, scope, m)
    BY DEF PC!HasMatch, HasMatch, PC!Decorators, Decorators, PC!MatchingCalls, MatchingCalls,
           PC!MatchingFields, MatchingFields, PC!matcherMatchesCall, matcherMatchesCall,
           PC!matcherMatchesField, matcherMatchesField, PC!Range, Range
  <2>3. \A scope : PC!Fires(g, p, scope) <=> Fires(g, p, scope)
    BY <2>2 DEF PC!Fires, Fires, PC!guardSatisfied, guardSatisfied,
           PC!Decorators, Decorators
  <2>4. \A scope, f : PC!FindingOf(g, p, scope, f) = FindingOf(g, p, scope, f)
    BY DEF PC!FindingOf, FindingOf, PC!firstMatchAny, firstMatchAny, PC!Earliest, Earliest,
           PC!NotAfter, NotAfter, PC!Decorators, Decorators, PC!MatchingCalls, MatchingCalls,
           PC!MatchingFields, MatchingFields, PC!matcherMatchesCall, matcherMatchesCall,
           PC!matcherMatchesField, matcherMatchesField, PC!Range, Range
  <2>5. \A v : PC!Suppressed(g, p, v) <=> Suppressed(g, p, v)
    BY DEF PC!Suppressed, Suppressed, PC!MatchSuppression, MatchSuppression, PC!Range, Range,
           PC!ModuleScope, ModuleScope, PC!AnyPolicy, AnyPolicy
  <2>6. /\ \A f : PC!Violates(g, p, f) <=> Violates(g, p, f)
        /\ \A f : PC!FunctionFinding(g, p, f) = FunctionFinding(g, p, f)
    BY <2>1, <2>3, <2>4 DEF PC!Violates, Violates, PC!FunctionFinding, FunctionFinding
  <2>7. \A f : PC!IsMinimal(g, p, f) <=> IsMinimal(g, p, f)
    BY <2>1, <2>6 DEF PC!IsMinimal, IsMinimal
  <2>8. PC!FunctionFindings(g, p) = FunctionFindings(g, p)
    BY <2>6, <2>7 DEF PC!FunctionFindings, FunctionFindings
  <2>9. PC!ModuleFindings(g, p) = ModuleFindings(g, p)
    BY <2>3, <2>4 DEF PC!ModuleFindings, ModuleFindings, PC!ModuleScope, ModuleScope
  <2> QED BY <2>5, <2>8, <2>9 DEF PC!Reported, Reported
<1> QED BY <1>1, <1>2, <1>3, <1>4

(* A sorted slice with one finding for each scope is in strict order. *)
LEMMA StrictOrder ==
    ASSUME NEW s \in Seq(Finding), Ordered(s), Distinct(s),
           NEW i \in DOMAIN s, NEW j \in DOMAIN s, i < j
    PROVE  s[i].function < s[j].function
<1>1. i # j
  BY SeqElement
<1>2. s[i].function # s[j].function
  BY <1>1 DEF Distinct
<1>3. LessOrEqual(s[i], s[j])
  BY DEF Ordered
<1> QED BY <1>2, <1>3 DEF LessOrEqual

(* The loops give the declared report: whatever the map orders and the     *)
(* ties of the sort, it holds exactly the declared findings, in strict     *)
(* order of function.                                                      *)
THEOREM AnalyzeReports == Spec => Refinement
<1>1. Init => PC!Init
  <2> SUFFICES ASSUME Init PROVE PC!Init
    OBVIOUS
  <2>1. IsGraph(g) /\ p \in Policy /\ pc # "done"
    BY GraphsAssumption, PoliciesAssumption DEF Init
  <2> QED BY <2>1, SameReport DEF PC!Init
<1>2. IInv /\ IInv' /\ [Next]_vars => [PC!Analyze]_(PC!vars)
  <2> SUFFICES ASSUME IInv, IInv', [Next]_vars PROVE [PC!Analyze]_(PC!vars)
    OBVIOUS
  <2>1. CASE SortFindings
    <3>1. /\ pc = "sort" /\ pc' = "done" /\ g' = g /\ p' = p
          /\ kept' \in Seq(Finding) /\ Ordered(kept') /\ Distinct(kept')
          /\ out' = <<>>
      BY <2>1 DEF SortFindings, IInv, TypeOK, FilterInv, OnePerScope
    <3>2. Range(kept') = Reported(g, p)
      <4>1. /\ {v \in Range(out') \cup Range(kept') : ~Suppressed(g, p, v)} = Reported(g, p)
            /\ \A v \in Range(kept') : ~Suppressed(g, p, v)
        BY <3>1 DEF IInv, FilterInv
      <4> QED BY <3>1, <4>1, EmptySlice
    <3>3. \A i, j \in DOMAIN kept' : i < j => kept'[i].function < kept'[j].function
      BY <3>1, StrictOrder
    <3> QED BY <3>1, <3>2, <3>3, SameReport DEF PC!Analyze
  <2>2. CASE ~SortFindings
    <3>1. /\ g' = g /\ p' = p
          /\ \/ pc # "done" /\ pc' # "done"
             \/ pc' = pc /\ kept' = kept
      BY <2>2 DEF Next, vars, ComputeClosure, EvaluateFunction, Dedup, EndClosures, EndEvaluate,
                  EndDedup, AnalyzeModuleScope, FilterSuppressed, EndFilter
    <3> QED BY <3>1 DEF PC!vars
  <2> QED BY <2>1, <2>2
<1> QED BY <1>1, <1>2, EngineInvariant, PTL DEF Spec, Refinement, PC!Spec

-----------------------------------------------------------------------------
(* The worklist of module Closure computes the reachable set, for every    *)
(* set of functions and every callee map: what ComputeClosure takes in one *)
(* step is what transitiveCallees returns.                                 *)

(* The callee map of the model is a successor function. *)
LEMMA SuccType == WorklistTypeOK => Succ \in [Funcs -> SUBSET Funcs]
<1> SUFFICES ASSUME WorklistTypeOK, NEW f \in Funcs PROVE Range(callees[f]) \subseteq Funcs
  BY DEF Succ
<1>1. callees[f] \in Seq(Funcs)
  BY CalleeMapsAssumption DEF WorklistTypeOK
<1> QED BY <1>1, RangeOfSeq

(* The invariant holds before the first iteration. *)
LEMMA WorklistInit == StartWorklist => WorklistInv
<1> SUFFICES ASSUME StartWorklist PROVE WorklistInv
  OBVIOUS
<1>1. callees \in [Funcs -> Seq(Funcs)] /\ start \in Funcs
  BY CalleeMapsAssumption DEF StartWorklist
<1>2. Len(callees[start]) \in Nat
  BY <1>1, LenProperties
<1>3. WorklistTypeOK
  BY <1>1, <1>2 DEF StartWorklist, WorklistTypeOK
<1>4. Range(stack) = {start}
  BY DEF StartWorklist, Range
<1>5. start \in Closure
  BY <1>3, SuccType, ReachProperties DEF Closure, WorklistTypeOK
<1>6. PushedOnce
  BY DEF StartWorklist, PushedOnce, IsInjective
<1> QED BY <1>3, <1>4, <1>5, <1>6 DEF WorklistInv, StartWorklist, Frontier

(* Every iteration preserves it. *)
LEMMA WorklistNext == WorklistInv /\ [Iterate]_worklist => WorklistInv'
<1> SUFFICES ASSUME WorklistInv, [Iterate]_worklist PROVE WorklistInv'
  OBVIOUS
<1> USE DEF WorklistInv
<1>0. /\ callees \in [Funcs -> Seq(Funcs)]
      /\ \A f \in Funcs : Len(callees[f]) \in Nat
      /\ \A f \in Funcs : \A j \in 1..Len(callees[f]) : callees[f][j] \in Funcs
      /\ Len(stack) \in Nat
      /\ Range(stack) = {stack[j] : j \in 1..Len(stack)}
  <2>1. callees \in [Funcs -> Seq(Funcs)] /\ stack \in Seq(Funcs)
    BY CalleeMapsAssumption DEF WorklistTypeOK
  <2>2. \A f \in Funcs : callees[f] \in Seq(Funcs)
    BY <2>1
  <2> QED BY <2>1, <2>2, LenProperties, ElementOfSeq, RangeEquality
<1>1. CASE Pop
  <2> USE <1>1 DEF Pop
  <2>1. /\ popped' \in Funcs
        /\ stack' \in Seq(Funcs)
        /\ Range(stack) = Range(stack') \cup {popped'}
    BY PopProperties DEF WorklistTypeOK
  <2>2. WorklistTypeOK'
    BY <2>1, <1>0 DEF WorklistTypeOK
  <2>3. Frontier'
    <3>1. SUFFICES ASSUME NEW f \in visited
                   PROVE  \/ f \in Range(stack')
                          \/ f = popped'
                          \/ Range(callees[f]) \subseteq visited
      BY DEF Frontier
    <3>2. CASE f \in Range(stack)
      BY <3>2, <2>1
    <3>3. CASE f = popped /\ \A j \in 1..scanned : callees[f][j] \in visited
      <4>1. scanned = Len(callees[popped])
        BY <1>0 DEF Scanning, WorklistTypeOK
      <4>2. Range(callees[f]) = {callees[f][j] : j \in 1..Len(callees[f])}
        BY <3>3, <1>0, RangeEquality DEF WorklistTypeOK
      <4> QED BY <3>3, <4>1, <4>2
    <3>4. CASE Range(callees[f]) \subseteq visited
      BY <3>4
    <3> QED BY <3>2, <3>3, <3>4 DEF Frontier
  <2>4. PushedOnce'
    <3>1. /\ DOMAIN stack' \subseteq DOMAIN stack
          /\ \A j \in DOMAIN stack' : stack'[j] = stack[j]
      BY <1>0 DEF WorklistTypeOK
    <3> QED BY <3>1 DEF PushedOnce, IsInjective
  <2> QED BY <2>1, <2>2, <2>3, <2>4 DEF Closure, Succ
<1>2. CASE PushUnvisited
  <2> USE <1>2 DEF PushUnvisited
  <2> DEFINE c == callees[popped][scanned + 1]
  <2>1. scanned + 1 \in 1..Len(callees[popped]) /\ c \in Funcs
    BY <1>0 DEF Scanning, WorklistTypeOK
  <2>2. /\ stack' \in Seq(Funcs)
        /\ Range(stack') = Range(stack) \cup {c}
    BY <2>1, PushProperties DEF WorklistTypeOK
  <2>3. WorklistTypeOK'
    BY <2>1, <2>2, <1>0 DEF WorklistTypeOK
  <2>4. Frontier'
    BY <2>1, <2>2 DEF Frontier, WorklistTypeOK
  <2>5. c \in Closure
    <3>1. c \in Succ[popped]
      BY <2>1, <1>0, RangeEquality DEF Succ, WorklistTypeOK
    <3>2. IsClosed(Succ, Closure)
      BY SuccType, ReachProperties DEF Closure, WorklistTypeOK
    <3> QED BY <3>1, <3>2 DEF IsClosed
  <2>6. PushedOnce'
    <3>1. c \notin Range(stack)
      OBVIOUS
    <3>2. /\ Len(stack') = Len(stack) + 1
          /\ stack'[Len(stack) + 1] = c
          /\ \A j \in 1..Len(stack) : stack'[j] = stack[j] /\ stack[j] # c
      BY <3>1, <1>0 DEF WorklistTypeOK
    <3>3. DOMAIN stack = 1..Len(stack) /\ DOMAIN stack' = 1..(Len(stack) + 1)
      BY <2>2, <3>2, LenProperties DEF WorklistTypeOK
    <3> QED BY <3>2, <3>3, <1>0 DEF PushedOnce, IsInjective
  <2> QED BY <2>2, <2>3, <2>4, <2>5, <2>6 DEF Closure, Succ
<1>3. CASE SkipVisited
  <2>1. WorklistTypeOK'
    BY <1>3, <1>0 DEF SkipVisited, Scanning, WorklistTypeOK
  <2>2. Frontier'
    BY <1>3 DEF SkipVisited, Frontier, WorklistTypeOK
  <2> QED BY <1>3, <2>1, <2>2 DEF SkipVisited, PushedOnce, Closure, Succ
<1>4. CASE UNCHANGED worklist
  BY <1>4 DEF worklist, WorklistTypeOK, Frontier, PushedOnce, Closure, Succ
<1> QED BY <1>1, <1>2, <1>3, <1>4 DEF Iterate

(* With an empty stack and no scan under way, visited is closed. *)
LEMMA DoneIsClosed == WorklistInv => ClosureCorrect
<1> SUFFICES ASSUME WorklistInv, Returned PROVE visited = Closure
  BY DEF ClosureCorrect
<1>1. Range(stack) = {}
  BY DEF Returned, Range
<1>2. scanned = Len(callees[popped]) /\ callees[popped] \in Seq(Funcs)
  BY CalleeMapsAssumption, LenProperties DEF WorklistInv, WorklistTypeOK, Returned, Scanning
<1>3. IsClosed(Succ, visited)
  <2> SUFFICES ASSUME NEW f \in visited PROVE Range(callees[f]) \subseteq visited
    BY DEF IsClosed, Succ, WorklistInv, WorklistTypeOK
  <2>1. CASE f = popped /\ \A j \in 1..scanned : callees[f][j] \in visited
    BY <2>1, <1>2, RangeEquality
  <2> QED BY <1>1, <2>1 DEF WorklistInv, Frontier
<1>4. Closure \subseteq visited
  BY <1>3, SuccType, ReachProperties DEF WorklistInv, WorklistTypeOK, Closure
<1> QED BY <1>4 DEF WorklistInv

(* The state of the loop keeps its type and its inductive invariant:       *)
(* everything marked is reachable, what is marked and neither stacked nor  *)
(* being scanned has all its callees marked, and nothing is stacked twice. *)
THEOREM ClosureInvariant == WorklistSpec => []WorklistInv
BY WorklistInit, WorklistNext, PTL DEF WorklistSpec

(* transitiveCallees returns the functions reachable from its start,       *)
(* itself included, for every callee map, cycles and all.                  *)
THEOREM ClosureIsReach == WorklistSpec => []ClosureCorrect
BY ClosureInvariant, DoneIsClosed, PTL

(* In a call graph with these callees, what transitiveCallees returns is   *)
(* the closure ComputeClosure takes in one step.                           *)
GivesClosure ==
    \A gr \in Graphs : Returned /\ Succ = Callees(gr) => visited = ClosureOf(gr, start)

(* The loops of Analyze may take a closure for what the worklist, however  *)
(* it goes about, finds for the same function of the same graph.           *)
THEOREM WorklistGivesClosure == WorklistSpec => []GivesClosure
<1>1. ClosureCorrect => GivesClosure
  BY Zenon DEF ClosureCorrect, Closure, GivesClosure, ClosureOf
<1> QED BY <1>1, ClosureIsReach, PTL
=============================================================================
