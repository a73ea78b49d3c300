----------------------------- MODULE MCClosure -----------------------------
(* Closure on every callee map of a small project. *)
EXTENDS Closure, FiniteSets

(* Every slice without repetition: buildCalleeMap drops repeated callees. *)
MCSlices == UNION {Injection(1..len, Funcs) : len \in 0..Cardinality(Funcs)}
MCCalleeMaps == [Funcs -> MCSlices]
=============================================================================
