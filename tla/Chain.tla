------------------------------- MODULE Chain -------------------------------
(***************************************************************************)
(* The call chain of a finding (internal/engine/engine.go): the callees    *)
(* and the bridges taken from the call sites, shortestPath, the breadth-   *)
(* first search from a violating function to the function whose body holds *)
(* its source or its sink, reconstructPath, which follows the parents back *)
(* from there, and chainHops, which gives each hop the place of its call.  *)
(***************************************************************************)
EXTENDS Naturals, Sequences, FiniteSets, SequencesExt, Lists, Reachability

CONSTANTS
    Funcs,        \* the project's functions
    Externals,    \* callees that are no functions of the project
    Graphs,       \* the call graphs explored: function |-> its call sites
    NoFunc        \* "", the parent of the source and the caller of no function

CallSite == [callee : Funcs \cup Externals, line : Nat \ {0}]

ASSUME GraphsAssumption == Graphs \subseteq [Funcs -> Seq(CallSite)]
ASSUME ExternalsAssumption == Funcs \cap Externals = {}
ASSUME NoFuncAssumption == NoFunc \notin Funcs

VARIABLES
    sites,      \* the call sites of each function, read only
    callees,    \* the callee map made from them, read only
    src, dst,   \* the ends of the chain, read only
    parents,    \* function seen |-> the function it was first seen from
    queue,      \* the functions whose callees are still to be looked at
    n,          \* the function dequeued last
    i,          \* how many callees of n have been looked at
    pc,         \* "start", "search", "rebuild", "locate" or "done"
    path,       \* the chain, rebuilt from its end; empty for nil
    hops        \* the chain with the place of each call

vars == <<sites, callees, src, dst, parents, queue, n, i, pc, path, hops>>

(* Where a caller first calls each function of the project. *)
FirstCalls(calls) ==
    {at \in DOMAIN calls : /\ calls[at].callee \in Funcs
                           /\ \A before \in 1..at - 1 : calls[before].callee # calls[at].callee}

(* buildCalleeMap: each callee once, in the order of its first call;       *)
(* names outside the project are left out.                                 *)
CalleeMap(calls) ==
    [f \in Funcs |->
        LET first == SelectAt(calls[f], FirstCalls(calls[f]))
        IN  [k \in DOMAIN first |-> first[k].callee]]

(* The place of the first call of callee among calls. *)
FirstCall(calls, callee) == Min({at \in DOMAIN calls : calls[at].callee = callee})

(* Mutant of Bridge: the call sites are told apart by their callee alone. *)
BridgeOfCallee(caller, callee) ==
    LET first == CHOOSE f \in Funcs : \E k \in DOMAIN sites[f] : sites[f][k].callee = callee
    IN  sites[first][FirstCall(sites[first], callee)]

(* buildBridgeMap: the first call site of the caller for the callee. *)
Bridge(caller, callee) == sites[caller][FirstCall(sites[caller], callee)]

TypeOK ==
    /\ sites \in [Funcs -> Seq(CallSite)]
    /\ callees \in [Funcs -> Seq(Funcs)]
    /\ hops \in Seq([function : Funcs, line : Nat])
    /\ {src, dst, n} \subseteq Funcs \cup {NoFunc}
    /\ DOMAIN parents \subseteq Funcs
    /\ Range(parents) \subseteq Funcs \cup {NoFunc}
    /\ queue \in Seq(Funcs)
    /\ i \in Nat
    /\ pc \in {"start", "search", "rebuild", "locate", "done"}
    /\ path \in Seq(Funcs)

Init ==
    /\ sites \in Graphs
    /\ callees = CalleeMap(sites)
    /\ src \in Funcs \cup {NoFunc}
    /\ dst \in Funcs \cup {NoFunc}
    /\ parents = <<>>
    /\ queue = <<>>
    /\ n = NoFunc
    /\ i = 0
    /\ pc = "start"
    /\ path = <<>>
    /\ hops = <<>>

(* The early returns: nil for an end that is no function, a chain of one   *)
(* for a function that holds the site itself.                              *)
EarlyReturn ==
    /\ pc = "start"
    /\ \/ NoFunc \in {src, dst} /\ path' = <<>>
       \/ NoFunc \notin {src, dst} /\ src = dst /\ path' = <<src>>
    /\ pc' = "locate"
    /\ UNCHANGED <<sites, callees, src, dst, parents, queue, n, i, hops>>

Begin ==
    /\ pc = "start"
    /\ NoFunc \notin {src, dst}
    /\ src # dst
    /\ parents' = [f \in {src} |-> NoFunc]
    /\ queue' = <<src>>
    /\ pc' = "search"
    /\ UNCHANGED <<sites, callees, src, dst, n, i, path, hops>>

Scanning == pc = "search" /\ n # NoFunc /\ i < Len(callees[n])

(* Mutant of Dequeue: the newest function first, a depth-first search. *)
DequeueNewest ==
    /\ pc = "search"
    /\ ~Scanning
    /\ queue # <<>>
    /\ n' = queue[Len(queue)]
    /\ queue' = SubSeq(queue, 1, Len(queue) - 1)
    /\ i' = 0
    /\ UNCHANGED <<sites, callees, src, dst, parents, pc, path, hops>>

Dequeue ==
    /\ pc = "search"
    /\ ~Scanning
    /\ queue # <<>>
    /\ n' = Head(queue)
    /\ queue' = Tail(queue)
    /\ i' = 0
    /\ UNCHANGED <<sites, callees, src, dst, parents, pc, path, hops>>

(* Mutants of SkipSeen: a function seen before ends the scan of its        *)
(* caller; it is never stepped over.                                       *)
BreakOnSeen ==
    /\ Scanning
    /\ callees[n][i + 1] \in DOMAIN parents
    /\ i' = Len(callees[n])
    /\ UNCHANGED <<sites, callees, src, dst, parents, queue, n, pc, path, hops>>

StuckOnSeen ==
    /\ Scanning
    /\ callees[n][i + 1] \in DOMAIN parents
    /\ UNCHANGED vars

SkipSeen ==
    /\ Scanning
    /\ callees[n][i + 1] \in DOMAIN parents
    /\ i' = i + 1
    /\ UNCHANGED <<sites, callees, src, dst, parents, queue, n, pc, path, hops>>

Discover ==
    /\ Scanning
    /\ LET c == callees[n][i + 1]
       IN  /\ c \notin DOMAIN parents
           /\ parents' = [f \in DOMAIN parents \cup {c} |-> IF f = c THEN n ELSE parents[f]]
           /\ IF c = dst
              THEN pc' = "rebuild" /\ path' = <<dst>> /\ UNCHANGED <<queue, i>>
              ELSE queue' = Append(queue, c) /\ i' = i + 1 /\ UNCHANGED <<pc, path>>
    /\ UNCHANGED <<sites, callees, src, dst, n, hops>>

Exhausted ==
    /\ pc = "search"
    /\ ~Scanning
    /\ queue = <<>>
    /\ pc' = "locate"
    /\ UNCHANGED <<sites, callees, src, dst, parents, queue, n, i, path, hops>>

(* reconstructPath, one parent at a time; it stops at the source. *)
FollowParent ==
    /\ pc = "rebuild"
    /\ Head(path) # src
    /\ parents[Head(path)] # NoFunc
    /\ path' = <<parents[Head(path)]>> \o path
    /\ UNCHANGED <<sites, callees, src, dst, parents, queue, n, i, pc, hops>>

EndRebuild ==
    /\ pc = "rebuild"
    /\ Head(path) = src \/ parents[Head(path)] = NoFunc
    /\ pc' = "locate"
    /\ UNCHANGED <<sites, callees, src, dst, parents, queue, n, i, path, hops>>

(* chainHops: the last hop is the destination and has no call. *)
LocateHops ==
    /\ pc = "locate"
    /\ hops' = [k \in DOMAIN path |->
                   [function |-> path[k],
                    line |-> IF k = Len(path) THEN 0 ELSE Bridge(path[k], path[k + 1]).line]]
    /\ pc' = "done"
    /\ UNCHANGED <<sites, callees, src, dst, parents, queue, n, i, path>>

Next ==
    \/ EarlyReturn \/ Begin
    \/ Dequeue \/ SkipSeen \/ Discover \/ Exhausted
    \/ FollowParent \/ EndRebuild \/ LocateHops

Spec == Init /\ [][Next]_vars /\ WF_vars(Next)
-----------------------------------------------------------------------------
(* The calls that are written, externals left aside. *)
Succ == [f \in Funcs |-> {s.callee : s \in Range(sites[f])} \cap Funcs]

(* p leads from the violator to the carrier, and every step of it is a     *)
(* call the project makes.                                                 *)
IsCallPath(p) ==
    /\ p[1] = src
    /\ p[Len(p)] = dst
    /\ \A k \in 1..Len(p) - 1 : p[k + 1] \in Succ[p[k]]

(* A returned chain starts at the violator, ends at the carrier and every  *)
(* hop is a call the project makes: the counterexample a reader follows    *)
(* in a finding exists in the code.                                        *)
ChainIsCallPath == pc = "done" /\ path # <<>> => IsCallPath(path)

(* No call path is shorter, whatever the order of the callee slices. *)
ChainIsShortest ==
    pc = "done" /\ path # <<>> =>
        \A m \in 1..Len(path) - 1 : \A p \in [1..m -> Funcs] : ~IsCallPath(p)

(* The chain is nil only when the carrier cannot be reached: since the     *)
(* carrier of a finding lies in the closure of its function, no finding    *)
(* loses its chain.                                                        *)
NilMeansUnreachable ==
    pc = "done" /\ path = <<>> /\ NoFunc \notin {src, dst} => dst \notin Reach(Succ, src)

(* The line shown at each hop is one where that function makes the call to *)
(* the next hop, and the first such line: however often a function is      *)
(* called, and by whomever, a reader who follows the lines follows the     *)
(* chain.                                                                  *)
HopsLocated ==
    pc = "done" =>
        /\ [k \in DOMAIN hops |-> hops[k].function] = path
        /\ \A k \in 1..Len(path) - 1 :
               \E at \in DOMAIN sites[path[k]] :
                   /\ sites[path[k]][at] = [callee |-> path[k + 1], line |-> hops[k].line]
                   /\ \A before \in 1..at - 1 : sites[path[k]][before].callee # path[k + 1]

(* A chain is one a reader can follow, at every step towards it. *)
ChainInv == TypeOK /\ ChainIsCallPath /\ HopsLocated

(* The search and the walk back end, on recursive programs too. *)
Terminates == <>(pc = "done")
=============================================================================
