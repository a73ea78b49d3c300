------------------------------ MODULE Evaluate ------------------------------
(***************************************************************************)
(* One policy against the evidence of one scope: the matchers, the guard   *)
(* test and the choice of the source and sink sites that become a finding  *)
(* (internal/engine/engine.go, evaluate and what it calls).                *)
(*                                                                         *)
(* A matcher is the set of names its any_of predicates accept, one set for *)
(* each thing a predicate is compared with: a resolved callee, the raw     *)
(* text of a callee, the text of a field read, its attribute, a decorator. *)
(* A wildcard is a set with several names in it.                           *)
(***************************************************************************)
EXTENDS CallGraph

Matcher == [callees : SUBSET FQN, raws : SUBSET FQN,
            texts : SUBSET FQN, attrs : SUBSET Name, decorators : SUBSET Name]

Policy == [id : Name, source : Matcher, guard : Matcher, sink : Matcher]

Site    == [callee : FQN, path : Path, line : Line]
Finding == [function : FQN \cup {ModuleScope}, source : Site, sink : Site]

matcherMatchesCall(m, s)  == s.callee \in m.callees \/ s.raw \in m.raws
matcherMatchesField(m, a) == a.text \in m.texts \/ a.field \in m.attrs

-----------------------------------------------------------------------------
(* Evidence is addressed by the function that carries it and its place     *)
(* there.  collectSites and collectFields list a closure's evidence by     *)
(* function name, then by place; Earliest is the first of that list.       *)
MatchingCalls(g, scope, m) ==
    UNION {{<<f, i>> : i \in {j \in DOMAIN g.calls[f] :
                                  matcherMatchesCall(m, g.calls[f][j])}} : f \in scope}

MatchingFields(g, scope, m) ==
    UNION {{<<f, i>> : i \in {j \in DOMAIN g.fields[f] :
                                  matcherMatchesField(m, g.fields[f][j])}} : f \in scope}

Decorators(g, scope) == UNION {g.decorators[f] : f \in scope \cap g.funcs}

NotAfter(a, b) == a[1] < b[1] \/ (a[1] = b[1] /\ a[2] <= b[2])
Earliest(S) == CHOOSE a \in S : \A b \in S : NotAfter(a, b)

HasMatch(g, scope, m) ==
    MatchingCalls(g, scope, m) \cup MatchingFields(g, scope, m) # {}

(* The first matching site; calls win over fields. *)
firstMatchAny(g, scope, m) ==
    LET calls  == MatchingCalls(g, scope, m)
        fields == MatchingFields(g, scope, m)
    IN  IF calls # {}
        THEN LET at == Earliest(calls)
                 s  == g.calls[at[1]][at[2]]
             IN  [callee |-> s.callee, path |-> s.path, line |-> s.line]
        ELSE LET at == Earliest(fields)
                 a  == g.fields[at[1]][at[2]]
             IN  [callee |-> a.text, path |-> a.path, line |-> a.line]

guardSatisfied(g, scope, m) ==
    \/ Decorators(g, scope) \cap m.decorators # {}
    \/ HasMatch(g, scope, m)

(* evaluate's ok: no guard anywhere in the scope, a source and a sink. *)
Fires(g, p, scope) ==
    /\ ~guardSatisfied(g, scope, p.guard)
    /\ HasMatch(g, scope, p.source)
    /\ HasMatch(g, scope, p.sink)

(* evaluate's finding, for the function whose closure scope is. *)
FindingOf(g, p, scope, f) ==
    [function |-> f,
     source   |-> firstMatchAny(g, scope, p.source),
     sink     |-> firstMatchAny(g, scope, p.sink)]

(* filterSuppressed's test: a directive covers the source or the sink. *)
Suppressed(g, p, finding) ==
    \/ MatchSuppression(g, finding.source.path, finding.source.line, p.id)
    \/ MatchSuppression(g, finding.sink.path, finding.sink.line, p.id)

(* The order findings are sorted by, and the slices it accepts. *)
LessOrEqual(a, b) ==
    \/ a.function < b.function
    \/ a.function = b.function /\ a.source.path < b.source.path
    \/ /\ a.function = b.function
       /\ a.source.path = b.source.path
       /\ a.source.line <= b.source.line

Ordered(s) == \A i, j \in DOMAIN s : i < j => LessOrEqual(s[i], s[j])
=============================================================================
