---------------------------- MODULE Reachability ----------------------------
(***************************************************************************)
(* What a function can call, directly or not, with no algorithm: the least *)
(* set that holds it and is closed under succ, a function from each node   *)
(* to the set of its successors.                                           *)
(***************************************************************************)
IsClosed(succ, S) == \A f \in S : succ[f] \subseteq S

Reach(succ, start) ==
    {f \in DOMAIN succ :
        \A S \in SUBSET DOMAIN succ : start \in S /\ IsClosed(succ, S) => f \in S}
=============================================================================
