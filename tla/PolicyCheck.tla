---------------------------- MODULE PolicyCheck ----------------------------
(***************************************************************************)
(* What Analyze promises: one step that turns a call graph and a policy    *)
(* into a report, each scope's finding once and in the order of functions. *)
(***************************************************************************)
EXTENDS Report

VARIABLES
    g,          \* the call graph
    p,          \* the policy
    answered,   \* whether the report has been given
    report      \* the findings, in order

vars == <<g, p, answered, report>>

Init ==
    /\ IsGraph(g)
    /\ p \in Policy
    /\ answered = FALSE
    /\ report = <<>>

Analyze ==
    /\ ~answered
    /\ answered' = TRUE
    /\ report' \in Seq(Finding)
    /\ Range(report') = Reported(g, p)
    /\ \A i, j \in DOMAIN report' : i < j => report'[i].function < report'[j].function
    /\ UNCHANGED <<g, p>>

Spec == Init /\ [][Analyze]_vars
=============================================================================
