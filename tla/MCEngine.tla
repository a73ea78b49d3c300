------------------------------ MODULE MCEngine ------------------------------
(* Engine on families of small call graphs, against one policy. *)
EXTENDS Engine, SequencesExt

(* Names 1..3 are functions of the project, the others are external. *)
MCFQN  == 1..7
Source == 4
Sink   == 5
Guard  == 6
Other  == 7

MCPath == 1..2
MCLine == 0..40
MCName == {"email", "redacted", "p1", "p2"}

NoNames == [callees |-> {}, raws |-> {}, texts |-> {}, attrs |-> {}, decorators |-> {}]

ThePolicy ==
    [id     |-> "p1",
     source |-> [NoNames EXCEPT !.callees = {Source}, !.attrs = {"email"}],
     guard  |-> [NoNames EXCEPT !.callees = {Guard}, !.decorators = {"redacted"}],
     sink   |-> [NoNames EXCEPT !.callees = {Sink}]]

MCPolicies == {ThePolicy}

(* The i-th call of f is on line 10f + i of f's file. *)
FileOf(f) == IF f <= 1 THEN 1 ELSE 2
Body(f, callees) ==
    [i \in DOMAIN callees |->
        [callee |-> callees[i], raw |-> Other, path |-> FileOf(f), line |-> 10 * f + i]]

Ascending(S) == SetToSortSeq(S, <)

(* The graph where f calls edges[f] and events[f], in that order. *)
GraphOf(funcs, edges, events, reads, decorated, directives) ==
    [funcs      |-> funcs,
     calls      |-> [f \in funcs \cup {ModuleScope} |->
                        Body(f, Ascending(edges[f]) \o Ascending(events[f]))],
     fields     |-> [f \in funcs \cup {ModuleScope} |->
                        IF f \in reads
                        THEN <<[text |-> Source, field |-> "email",
                                path |-> FileOf(f), line |-> 10 * f + 9]>>
                        ELSE <<>>],
     decorators |-> [f \in funcs |-> IF f \in decorated THEN {"redacted"} ELSE {}],
     suppress   |-> directives]

OwnEvents == {{}, {Source}, {Sink}, {Guard}, {Source, Sink}}

(***************************************************************************)
(* Shapes: every way three functions can call each other and hold a        *)
(* source, a sink, both, or a guard.                                       *)
(***************************************************************************)
Shapes ==
    {GraphOf(1..3, [f \in 0..3 |-> IF f = 0 THEN {} ELSE edges[f]],
             [f \in 0..3 |-> IF f = 0 THEN {} ELSE events[f]], {}, {}, {}) :
        edges  \in {e \in [1..3 -> SUBSET (1..3)] : \A f \in 1..3 : f \notin e[f]},
        events \in [1..3 -> OwnEvents]}

(***************************************************************************)
(* Scopes: two functions and the module scope, with reads, decorators and  *)
(* directives.                                                             *)
(***************************************************************************)
Directive(path, line, id) == [path |-> path, line |-> line, ids |-> {id}]

Scopes ==
    {GraphOf(1..2, [f \in 0..2 |-> IF f = 0 THEN {} ELSE edges[f]],
             [f \in 0..2 |-> events[f]], reads, decorated, directives) :
        edges      \in [1..2 -> SUBSET (1..2)],
        events     \in [0..2 -> {{}, {Sink}, {Source, Sink}}],
        reads      \in {{}, {0}, {1}, {1, 2}},
        decorated  \in {{}, {2}},
        directives \in {{}, {Directive(1, 11, "p1")}, {Directive(1, 11, "p2")},
                        {Directive(2, 20, AnyPolicy)}, {Directive(1, 1, "p1")}}}

MCGraphs == Shapes \cup Scopes

(* Tops: the top level of two files, each with some of the calls. *)
NoFields(funcs) == [f \in funcs \cup {ModuleScope} |-> <<>>]

Tops ==
    {[funcs      |-> {},
      calls      |-> [f \in {0} |->
                         [i \in DOMAIN callees |->
                             [callee |-> callees[i], raw |-> Other,
                              path |-> IF i <= split THEN 1 ELSE 2, line |-> i]]],
      fields     |-> NoFields({}),
      decorators |-> [f \in {} |-> {}],
      suppress   |-> {}] :
        callees \in UNION {[1..len -> {Source, Sink, Guard}] : len \in 0..3}, split \in 0..2}
=============================================================================
