------------------------------- MODULE Engine -------------------------------
(***************************************************************************)
(* Analyze (internal/engine/engine.go), loop by loop.  The three loops of  *)
(* analyzeFunctions range over Go maps, which visit their keys in an order *)
(* of the runtime's choosing: each takes any key still to do.              *)
(***************************************************************************)
EXTENDS Report

CONSTANTS
    Graphs,      \* the call graphs explored
    Policies     \* the policies explored

ASSUME GraphsAssumption == \A gr \in Graphs : IsGraph(gr)
ASSUME PoliciesAssumption == Policies \subseteq Policy

VARIABLES
    g,            \* the call graph, read only
    p,            \* the policy, read only
    pc,           \* the loop under way
    todo,         \* the functions that loop has not visited yet
    closures,     \* function |-> its closure, once computed
    violators,    \* the findings of the functions whose closure violates
    out,          \* the findings collected so far, in the order appended
    kept          \* the slice filterSuppressed returns, then sorted

vars == <<g, p, pc, todo, closures, violators, out, kept>>

(* The functions with an entry in the violators map. *)
Violating == {v.function : v \in violators}

TypeOK ==
    /\ IsGraph(g)
    /\ p \in Policy
    /\ pc \in {"closures", "evaluate", "dedup", "module", "suppress", "sort", "done"}
    /\ todo \subseteq g.funcs
    /\ closures \in [g.funcs -> SUBSET g.funcs]
    /\ violators \subseteq Finding
    /\ out \in Seq(Finding)
    /\ kept \in Seq(Finding)

Init ==
    /\ g \in Graphs
    /\ p \in Policies
    /\ pc = "closures"
    /\ todo = g.funcs
    /\ closures = [f \in g.funcs |-> {}]
    /\ violators = {}
    /\ out = <<>>
    /\ kept = <<>>

-----------------------------------------------------------------------------
(* closures[fqn] = transitiveCallees(fqn, callees): module Closure. *)
ComputeClosure(f) ==
    /\ pc = "closures"
    /\ f \in todo
    /\ closures' = [closures EXCEPT ![f] = ClosureOf(g, f)]
    /\ todo' = todo \ {f}
    /\ UNCHANGED <<g, p, pc, violators, out, kept>>

EndClosures ==
    /\ pc = "closures"
    /\ todo = {}
    /\ pc' = "evaluate"
    /\ todo' = g.funcs
    /\ UNCHANGED <<g, p, closures, violators, out, kept>>

EvaluateFunction(f) ==
    /\ pc = "evaluate"
    /\ f \in todo
    /\ violators' = IF Fires(g, p, closures[f])
                    THEN violators \cup {FindingOf(g, p, closures[f], f)}
                    ELSE violators
    /\ todo' = todo \ {f}
    /\ UNCHANGED <<g, p, pc, closures, out, kept>>

EndEvaluate ==
    /\ pc = "evaluate"
    /\ todo = {}
    /\ pc' = "dedup"
    /\ todo' = Violating
    /\ UNCHANGED <<g, p, closures, violators, out, kept>>

(* Mutants of IsMinimalViolator: any violating callee drops its caller;    *)
(* any one already visited does.                                           *)
DroppedByAnyViolator(f) == (closures[f] \cap Violating) \ {f} = {}
DroppedByVisited(f) == (closures[f] \cap Violating) \ (todo \cup {f}) = {}

(* A violator is dropped for a violator of its closure whose own closure   *)
(* is smaller.                                                             *)
IsMinimalViolator(f) ==
    \A h \in (closures[f] \cap Violating) \ {f} :
        Cardinality(closures[h]) >= Cardinality(closures[f])

Dedup(v) ==
    /\ pc = "dedup"
    /\ v \in violators
    /\ v.function \in todo
    /\ out' = IF IsMinimalViolator(v.function) THEN Append(out, v) ELSE out
    /\ todo' = todo \ {v.function}
    /\ UNCHANGED <<g, p, pc, closures, violators, kept>>

EndDedup ==
    /\ pc = "dedup"
    /\ todo = {}
    /\ pc' = "module"
    /\ UNCHANGED <<g, p, todo, closures, violators, out, kept>>

(* The calls and fields of module scope, those of every file in one list. *)
AnalyzeModuleScope ==
    /\ pc = "module"
    /\ out' = IF Fires(g, p, {ModuleScope})
              THEN Append(out, FindingOf(g, p, {ModuleScope}, ModuleScope))
              ELSE out
    /\ pc' = "suppress"
    /\ UNCHANGED <<g, p, todo, closures, violators, kept>>

(* Mutants of FilterSuppressed: a suppressed finding ends the loop; only   *)
(* the source end is looked at.                                            *)
FilterUntilSuppressed ==
    /\ pc = "suppress"
    /\ out # <<>>
    /\ kept' = IF Suppressed(g, p, Head(out)) THEN kept ELSE Append(kept, Head(out))
    /\ out' = IF Suppressed(g, p, Head(out)) THEN <<>> ELSE Tail(out)
    /\ UNCHANGED <<g, p, pc, todo, closures, violators>>

FilterAtSource ==
    /\ pc = "suppress"
    /\ out # <<>>
    /\ kept' = IF MatchSuppression(g, Head(out).source.path, Head(out).source.line, p.id)
               THEN kept
               ELSE Append(kept, Head(out))
    /\ out' = Tail(out)
    /\ UNCHANGED <<g, p, pc, todo, closures, violators>>

(* One iteration of filterSuppressed's loop over the findings. *)
FilterSuppressed ==
    /\ pc = "suppress"
    /\ out # <<>>
    /\ kept' = IF Suppressed(g, p, Head(out)) THEN kept ELSE Append(kept, Head(out))
    /\ out' = Tail(out)
    /\ UNCHANGED <<g, p, pc, todo, closures, violators>>

EndFilter ==
    /\ pc = "suppress"
    /\ out = <<>>
    /\ pc' = "sort"
    /\ UNCHANGED <<g, p, todo, closures, violators, out, kept>>

(* slices.SortFunc is not stable: any ordered permutation of the slice. *)
SortFindings ==
    /\ pc = "sort"
    /\ \E order \in Bijection(DOMAIN kept, DOMAIN kept) :
           LET sorted == [i \in DOMAIN kept |-> kept[order[i]]]
           IN  Ordered(sorted) /\ kept' = sorted
    /\ pc' = "done"
    /\ UNCHANGED <<g, p, todo, closures, violators, out>>

Next ==
    \/ \E f \in todo : ComputeClosure(f) \/ EvaluateFunction(f)
    \/ \E v \in violators : Dedup(v)
    \/ EndClosures \/ EndEvaluate \/ EndDedup
    \/ AnalyzeModuleScope
    \/ FilterSuppressed \/ EndFilter
    \/ SortFindings

Spec == Init /\ [][Next]_vars

-----------------------------------------------------------------------------
(* The functions reported once the dedup loop has ended, before directives *)
(* and the module scope are looked at.                                     *)
Minimal == {v.function : v \in Range(out)}

(* Dedup loses no violation: whatever order the maps are visited in, a     *)
(* function that violates is reported or can call one that is.  On a       *)
(* recursive program this is what the strictly-smaller test protects.      *)
EveryViolatorCovered ==
    pc = "module" => \A f \in Violating : closures[f] \cap Minimal # {}

(* Functions that call each other share their closure, so they stand or    *)
(* fall together: dedup never picks one of a recursive group.              *)
RecursiveGroupTogether ==
    pc = "module" =>
        \A f, h \in g.funcs :
            f \in closures[h] /\ h \in closures[f] => (f \in Minimal <=> h \in Minimal)

(* The loops implement the one-step promise: the report depends on neither *)
(* map order nor the sort's choices and holds exactly the declared         *)
(* findings, in strict function order.                                     *)
PC == INSTANCE PolicyCheck
        WITH answered <- pc = "done",
             report   <- IF pc = "done" THEN kept ELSE <<>>

Refinement == PC!Spec

-----------------------------------------------------------------------------
(* What the package comment says and the analysis does not do:             *)
(* "Module-scope code is analyzed intra-procedurally only": a source at    *)
(* the top level of one file makes no finding with a sink at the top level *)
(* of another.                                                             *)
ModuleScopeWithinFile ==
    \A v \in Range(kept) : v.function = ModuleScope => v.source.path = v.sink.path

-----------------------------------------------------------------------------
(* What holds at the head of each loop. *)

(* The functions the evaluate loop has been through. *)
Evaluated ==
    CASE pc = "closures" -> {}
      [] pc = "evaluate" -> g.funcs \ todo
      [] OTHER           -> g.funcs

ClosuresInv ==
    \A f \in g.funcs : pc # "closures" \/ f \notin todo => closures[f] = ClosureOf(g, f)

ViolatorsInv ==
    violators = {FunctionFinding(g, p, f) : f \in {h \in Evaluated : Violates(g, p, h)}}

DedupInv ==
    /\ pc \in {"closures", "evaluate"} => out = <<>>
    /\ pc \in {"dedup", "module"} =>
           Range(out) = {v \in violators : v.function \notin todo /\ IsMinimalViolator(v.function)}
    /\ pc \in {"module", "suppress", "sort", "done"} => todo = {}

FilterInv ==
    /\ pc \in {"closures", "evaluate", "dedup", "module"} => kept = <<>>
    /\ pc \in {"suppress", "sort", "done"} =>
           /\ {v \in Range(out) \cup Range(kept) : ~Suppressed(g, p, v)} = Reported(g, p)
           /\ \A v \in Range(kept) : ~Suppressed(g, p, v)
    /\ pc \in {"sort", "done"} => out = <<>>
    /\ pc = "done" => Ordered(kept)

(* No scope has two findings: a map holds one entry for each function. *)
Distinct(s) == \A i, j \in DOMAIN s : s[i].function = s[j].function => i = j

OnePerScope ==
    /\ Distinct(out)
    /\ Distinct(kept)
    /\ \A v \in Range(out), w \in Range(kept) : v.function # w.function

(* The inductive invariant of the analysis. *)
IInv ==
    /\ TypeOK
    /\ ClosuresInv
    /\ ViolatorsInv
    /\ DedupInv
    /\ FilterInv
    /\ OnePerScope
=============================================================================
