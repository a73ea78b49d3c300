------------------------------- MODULE Report -------------------------------
(***************************************************************************)
(* What a report holds, with no algorithm (internal/engine/engine.go).     *)
(*                                                                         *)
(* A function is reported when its closure violates the policy and no      *)
(* violating function it can call is unable to call it back.  That is the  *)
(* documented "when F calls G and both violate, only G is reported",       *)
(* except that the members of a recursive group, which all call each       *)
(* other, are reported together.  A directive at either end of a finding   *)
(* takes it out of the report.                                             *)
(***************************************************************************)
EXTENDS Evaluate

Violates(g, p, f) == Fires(g, p, ClosureOf(g, f))

IsMinimal(g, p, f) ==
    \A h \in ClosureOf(g, f) : Violates(g, p, h) => f \in ClosureOf(g, h)

FunctionFinding(g, p, f) == FindingOf(g, p, ClosureOf(g, f), f)

FunctionFindings(g, p) ==
    {FunctionFinding(g, p, f) : f \in {h \in g.funcs : Violates(g, p, h) /\ IsMinimal(g, p, h)}}

(* The code of no function is one more scope, with no callees. *)
ModuleFindings(g, p) ==
    IF Fires(g, p, {ModuleScope})
    THEN {FindingOf(g, p, {ModuleScope}, ModuleScope)}
    ELSE {}

Reported(g, p) ==
    {v \in FunctionFindings(g, p) \cup ModuleFindings(g, p) : ~Suppressed(g, p, v)}
=============================================================================
