----------------------------- MODULE CallGraph -----------------------------
(***************************************************************************)
(* The unified call graph every language front end produces and every     *)
(* analysis consumes (internal/callgraph/graph.go), and the two maps the   *)
(* engine derives from it (internal/engine/engine.go).                     *)
(*                                                                         *)
(* A fully qualified name is a natural number, its rank in the lexical     *)
(* order the engine sorts by; 0 stands for "", the caller of code at       *)
(* module scope, displayed as "<module>", which sorts before a name.  A    *)
(* graph is a record                                                       *)
(*   funcs       the names that are function definitions of the project    *)
(*   calls       caller |-> its call sites, in the order they were added   *)
(*   fields      caller |-> its field reads, in the order they were added  *)
(*   decorators  function |-> the names of its decorators                  *)
(*   suppress    the `policyguard: ignore` directives                      *)
(***************************************************************************)
EXTENDS Naturals, FiniteSets, Sequences, Functions, Reachability

ModuleScope == 0

CONSTANTS
    FQN,     \* names and callee texts, internal or external
    Path,    \* file names, as ranks in the lexical order
    Line,    \* line numbers
    Name     \* attribute and decorator names, policy ids

ASSUME FQNAssumption  == FQN \subseteq Nat \ {ModuleScope}
ASSUME PathAssumption == Path \subseteq Nat
ASSUME LineAssumption == Line \subseteq Nat

(* The id `ignore *` suppresses: it stands for every policy. *)
AnyPolicy == "*"

CallSite    == [callee : FQN, raw : FQN, path : Path, line : Line]
FieldAccess == [text : FQN, field : Name, path : Path, line : Line]
Suppression == [path : Path, line : Line, ids : SUBSET (Name \cup {AnyPolicy})]

IsGraph(g) ==
    /\ g.funcs \subseteq FQN /\ IsFiniteSet(g.funcs)
    /\ g.calls \in [g.funcs \cup {ModuleScope} -> Seq(CallSite)]
    /\ g.fields \in [g.funcs \cup {ModuleScope} -> Seq(FieldAccess)]
    /\ g.decorators \in [g.funcs -> SUBSET Name]
    /\ g.suppress \subseteq Suppression

-----------------------------------------------------------------------------
(* A directive on line L covers L and L+1 of its file. *)
MatchSuppression(g, path, line, id) ==
    \E s \in g.suppress :
        /\ s.path = path
        /\ line \in {s.line, s.line + 1}
        /\ s.ids \cap {id, AnyPolicy} # {}

(* The project functions f calls, as a set: callees outside the project    *)
(* are leaves of the call graph and the module scope has no entry.         *)
CalleeSet(g, f) == {s.callee : s \in Range(g.calls[f])} \cap g.funcs

Callees(g) == [f \in g.funcs |-> CalleeSet(g, f)]

(* A function and every function it can call, directly or not. *)
ClosureOf(g, f) == Reach(Callees(g), f)
=============================================================================
