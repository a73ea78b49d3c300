------------------------------- MODULE MCChain -------------------------------
(* Chain on five functions, enough for two chains of different lengths     *)
(* that share no function but their ends; callees come in either order,    *)
(* each is called twice, and every function calls a library first.         *)
EXTENDS Chain

MCFuncs == 1..5
MCNoFunc == 0
MCExternals == {6}

MCSlices(S) == {SetToSortSeq(T, <) : T \in SUBSET S} \cup {SetToSortSeq(T, >) : T \in SUBSET S}

MCCalleeMaps ==
    {<<a, b, c, d, <<1>>>> :
        a \in MCSlices({2, 3, 4}),
        b \in MCSlices({1, 3, 5}),
        c \in {<<>>, <<4>>, <<1>>, <<4, 5>>, <<5, 2>>},
        d \in {<<>>, <<5>>, <<5, 1>>}}

MCGraphs ==
    {[f \in MCFuncs |->
        LET calls == <<6>> \o map[f] \o Reverse(map[f])
        IN  [k \in DOMAIN calls |-> [callee |-> calls[k], line |-> 10 * f + k]]] :
        map \in MCCalleeMaps}
=============================================================================
