-------------------------- MODULE MCApplyPatches --------------------------
(* Fix and ApplyPatches on two files, up to three findings and one edit. *)
EXTENDS Fix

MCFiles == {"a", "b"}
MCNoPatch == [path |-> "none"]
MCNoCall == <<[kind |-> "no list"]>>

Arg(kind, from, to) == [kind |-> kind, from |-> from, to |-> to]
Positional(from, to) == Arg("positional", from, to)

(* a:  f(k=x, y, z)       b:  f(g(             *)
(*     h(z)                       x), /**/ y)  *)
(*     f(                                      *)
(*     x) f(x y)                               *)
MCSource ==
    [a |-> <<"f", "(", "k", "=", "x", ",", "y", ",", "z", ")", "NL", "h", "(", "z", ")", "NL",
             "f", "(", "NL", "x", ")", "f", "(", "x", "y", ")", "NL">>,
     b |-> <<"f", "(", "g", "(", "NL", "x", ")", ",", "/**/", "y", ")">>]

MCSinks ==
    [keywords  |-> [path |-> "a", args |-> <<Arg("keyword", 3, 6), Positional(7, 8),
                                             Positional(9, 10)>>],
     middle    |-> [path |-> "a", args |-> <<Positional(14, 15)>>],
     next      |-> [path |-> "a", args |-> <<Positional(20, 21)>>],
     sameLine  |-> [path |-> "a", args |-> <<Positional(24, 26)>>],
     multiline |-> [path |-> "b", args |-> <<Positional(3, 8), Arg("comment", 9, 10),
                                             Positional(10, 11)>>],
     field     |-> [path |-> "b", args |-> MCNoCall],
     inner     |-> [path |-> "b", args |-> <<Positional(6, 7)>>]]

Guard(kind, value) == [kind |-> kind, value |-> value]

MCPolicies ==
    [first     |-> [wrap |-> 0, guard |-> <<Guard("has_decorator", "d"), Guard("calls", "r")>>],
     second    |-> [wrap |-> 1, guard |-> <<Guard("calls", "q"), Guard("calls", "r")>>],
     wildcard  |-> [wrap |-> 0, guard |-> <<Guard("calls", "r.*")>>],
     decorator |-> [wrap |-> 0, guard |-> <<Guard("has_decorator", "d")>>],
     noWrap    |-> [wrap |-> 9, guard |-> <<Guard("calls", "r")>>]]

Found(policy, sink) == [policy |-> MCPolicies[policy], sink |-> MCSinks[sink]]

MCFound ==
    <<Found("first", "keywords"), Found("second", "keywords"), Found("first", "middle"),
      Found("first", "next"),
      Found("wildcard", "next"), Found("first", "sameLine"), Found("first", "inner"),
      Found("first", "field")>>

(* Each finding there is alone, and two or three of those above. *)
MCReports ==
    {<<Found(policy, sink)>> : policy \in DOMAIN MCPolicies, sink \in DOMAIN MCSinks}
    \cup {[i \in DOMAIN at |-> MCFound[at[i]]] :
              at \in {s \in UNION {[1..len -> DOMAIN MCFound] : len \in 2..3} :
                         \A i, j \in DOMAIN s : i < j => s[i] < s[j]}}

MCSnapshot == [f \in MCFiles |-> Lines(MCSource[f])]
MCFindings == {Rendered(report) : report \in MCReports}
MCEditTexts == {<<"edited">>, <<"f", "(">>}
MCWholeTexts == UNION {Range(MCSnapshot[f]) : f \in MCFiles} \cup MCEditTexts
                \cup {x.new : x \in UNION {Range(fs) : fs \in MCFindings} \ {MCNoPatch}}

(* A failing write stops before a line, in its middle or behind it. *)
MCCuts(text) == {<<>>, SubSeq(text, 1, Len(text) \div 2), text}
MCTexts == UNION {{SubSeq(text, 1, k) : k \in 0..Len(text)} : text \in MCWholeTexts}
MCTokens == {"NL"} \cup UNION {Range(text) : text \in MCTexts}
=============================================================================
