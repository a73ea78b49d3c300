---------------------------- MODULE MCServiceMap ----------------------------
(* ServiceMap on one calling function and up to three edges. *)
EXTENDS ServiceMap

(* 1..3 are functions of the project, 4 and 5 clients, 6 is undefined. *)
MCFQN  == 1..6
MCPath == {1}
MCLine == 1..20
MCName == {}

Body(callees) ==
    [i \in DOMAIN callees |-> [callee |-> callees[i][1], raw |-> callees[i][2],
                               path |-> 1, line |-> 10 + i]]

(* A call is <<resolved callee, raw text>>. *)
CallTexts == {<<4, 4>>, <<6, 5>>, <<2, 2>>}

MCGraphs ==
    {[funcs      |-> 1..3,
      calls      |-> [f \in 0..3 |-> IF f = 1 THEN Body(own) ELSE <<>>],
      fields     |-> [f \in 0..3 |-> <<>>],
      decorators |-> [f \in 1..3 |-> {}],
      suppress   |-> {}] : own \in UNION {[1..len -> CallTexts] : len \in 0..2}}

MCEdges == [from : {{1}, {2}, {4}, {4, 5}}, to : {1, 2, 3, 6}]
MCMaps  == UNION {[1..len -> MCEdges] : len \in 0..3}
=============================================================================
