----------------------------- MODULE ServiceMap -----------------------------
(***************************************************************************)
(* Apply (internal/servicemap/servicemap.go): the cross-service edges of a *)
(* service map, added to the call graph one map entry after the other.     *)
(* An edge looks at the sites present when its turn comes, those earlier   *)
(* edges added included, and at none that it adds itself.                  *)
(***************************************************************************)
EXTENDS CallGraph, SequencesExt, Lists

CONSTANTS
    Graphs,    \* the call graphs explored
    Maps       \* the service maps explored

(* An edge's pattern is the set of names it accepts, as a resolved callee  *)
(* or as raw text: a wildcard holds several.                               *)
Edge == [from : SUBSET FQN, to : FQN]

ASSUME GraphsAssumption == \A gr \in Graphs : IsGraph(gr)
ASSUME MapsAssumption == Maps \subseteq Seq(Edge)

VARIABLES
    g,       \* the call graph as it was built, read only
    edges,   \* the service map, read only
    k,       \* how many edges have been through
    calls    \* the graph's calls, which Apply changes

vars == <<g, edges, k, calls>>

TypeOK ==
    /\ IsGraph(g)
    /\ edges \in Seq(Edge)
    /\ k \in 0..Len(edges)
    /\ calls \in [DOMAIN g.calls -> Seq(CallSite)]

Init ==
    /\ g \in Graphs
    /\ edges \in Maps
    /\ k = 0
    /\ calls = g.calls

edgeMatches(edge, site) == site.callee \in edge.from \/ site.raw \in edge.from

(* The synthetic call of edge.to that stands at site. *)
Synthetic(edge, site) ==
    [callee |-> edge.to, raw |-> edge.to, path |-> site.path, line |-> site.line]

Matching(edge, sites) == SelectAt(sites, {i \in DOMAIN sites : edgeMatches(edge, sites[i])})

(* Mutant of Bridged: the synthetic call stands at the first match only. *)
BridgedOnce(edge, sites) ==
    LET matching == Matching(edge, sites)
    IN  IF matching = <<>> THEN sites
        ELSE Append(sites, Synthetic(edge, matching[1]))

(* The sites of one caller with the edge's synthetic calls after them. *)
Bridged(edge, sites) ==
    LET matching == Matching(edge, sites)
    IN  sites \o [j \in DOMAIN matching |-> Synthetic(edge, matching[j])]

(* Mutant of SkipEdge: the edge is added all the same. *)
AddUnknownTarget ==
    /\ k < Len(edges)
    /\ edges[k + 1].to \notin g.funcs
    /\ calls' = [f \in DOMAIN calls |-> Bridged(edges[k + 1], calls[f])]
    /\ k' = k + 1
    /\ UNCHANGED <<g, edges>>

(* The target is defined elsewhere: the edge is dropped. *)
SkipEdge ==
    /\ k < Len(edges)
    /\ edges[k + 1].to \notin g.funcs
    /\ k' = k + 1
    /\ UNCHANGED <<g, edges, calls>>

ApplyEdge ==
    /\ k < Len(edges)
    /\ edges[k + 1].to \in g.funcs
    /\ calls' = [f \in DOMAIN calls |-> Bridged(edges[k + 1], calls[f])]
    /\ k' = k + 1
    /\ UNCHANGED <<g, edges>>

Next == SkipEdge \/ ApplyEdge

Spec == Init /\ [][Next]_vars

Done == k = Len(edges)

-----------------------------------------------------------------------------
(* The project's own calls keep their places: an edge only appends, so the *)
(* first match of a policy at a caller moves to no synthetic call.         *)
OriginalsFirst == \A f \in DOMAIN calls : IsPrefix(g.calls[f], calls[f])

(* Every added call has a cause: an edge already read, to a function the   *)
(* graph defines, and a site of the same caller before it that the edge    *)
(* accepts and whose file and line it takes.                               *)
EverySyntheticHasCause ==
    \A f \in DOMAIN calls :
        \A j \in Len(g.calls[f]) + 1..Len(calls[f]) :
            \E e \in 1..k, i \in 1..j - 1 :
                /\ edges[e].to \in g.funcs
                /\ edgeMatches(edges[e], calls[f][i])
                /\ calls[f][j] = Synthetic(edges[e], calls[f][i])

(* What Apply makes of a graph is a graph the engine may read as it read   *)
(* the one it was given, at every step.                                    *)
CallsInv == TypeOK /\ OriginalsFirst /\ EverySyntheticHasCause

(* Whether the edges are listed in the order requests hop: none leads to a *)
(* name that it, or an edge before it, accepts.                            *)
InHopOrder ==
    \A a, b \in DOMAIN edges : a <= b => edges[b].to \notin edges[a].from

(* What the package promises: a call that matches an edge's `from` is also *)
(* a call of its `to`, for every call of the graph.                        *)
ClosedUnderEdges ==
    Done =>
        \A e \in DOMAIN edges, f \in DOMAIN calls : \A s \in Range(calls[f]) :
            edges[e].to \in g.funcs /\ edgeMatches(edges[e], s)
                => Synthetic(edges[e], s) \in Range(calls[f])

(* A map in hop order keeps the promise: one pass over the edges closes    *)
(* the graph, chains of services included.                                 *)
HopOrderCloses == InHopOrder => ClosedUnderEdges
=============================================================================
