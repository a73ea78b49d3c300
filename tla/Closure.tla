------------------------------ MODULE Closure ------------------------------
(***************************************************************************)
(* transitiveCallees (internal/engine/engine.go): the worklist that        *)
(* collects everything a function can call.  One step pops a function off  *)
(* the stack or looks at one of its callees, so an invariant of the model  *)
(* is an invariant of the loop at every iteration, inner ones included.    *)
(* The callee slices may be in any order, hold cycles and self loops.      *)
(***************************************************************************)
EXTENDS Naturals, Sequences, Functions, Reachability

CONSTANTS
    Funcs,        \* the project's functions
    CalleeMaps    \* the callee maps explored: function |-> slice of callees

ASSUME CalleeMapsAssumption == CalleeMaps \subseteq [Funcs -> Seq(Funcs)]

VARIABLES
    callees,    \* the callee map, read only
    start,      \* the function whose closure is computed, read only
    visited,    \* the functions already pushed
    stack,      \* the functions whose callees are still to be looked at
    popped,     \* the function popped last
    scanned     \* how many callees of popped have been looked at

worklist == <<callees, start, visited, stack, popped, scanned>>

(* The callee map as a relation, and the closure the worklist is to reach. *)
Succ == [f \in Funcs |-> Range(callees[f])]
Closure == Reach(Succ, start)

WorklistTypeOK ==
    /\ callees \in CalleeMaps
    /\ start \in Funcs
    /\ visited \subseteq Funcs
    /\ stack \in Seq(Funcs)
    /\ popped \in Funcs
    /\ scanned \in 0..Len(callees[popped])

StartWorklist ==
    /\ callees \in CalleeMaps
    /\ start \in Funcs
    /\ visited = {start}
    /\ stack = <<start>>
    /\ popped = start
    /\ scanned = Len(callees[start])    \* no scan is under way

Scanning == scanned < Len(callees[popped])

(* Mutant of Pop: the scan of the popped function resumes where the last   *)
(* one stopped.                                                            *)
PopKeepingIndex ==
    /\ ~Scanning
    /\ stack # <<>>
    /\ popped' = stack[Len(stack)]
    /\ stack' = SubSeq(stack, 1, Len(stack) - 1)
    /\ scanned' = IF scanned < Len(callees[popped']) THEN scanned ELSE Len(callees[popped'])
    /\ UNCHANGED <<callees, start, visited>>

Pop ==
    /\ ~Scanning
    /\ stack # <<>>
    /\ popped' = stack[Len(stack)]
    /\ stack' = SubSeq(stack, 1, Len(stack) - 1)
    /\ scanned' = 0
    /\ UNCHANGED <<callees, start, visited>>

(* Mutant of PushUnvisited: the callee is marked and not pushed. *)
MarkWithoutPush ==
    /\ Scanning
    /\ callees[popped][scanned + 1] \notin visited
    /\ visited' = visited \cup {callees[popped][scanned + 1]}
    /\ scanned' = scanned + 1
    /\ UNCHANGED <<callees, start, stack, popped>>

PushUnvisited ==
    /\ Scanning
    /\ callees[popped][scanned + 1] \notin visited
    /\ visited' = visited \cup {callees[popped][scanned + 1]}
    /\ stack' = Append(stack, callees[popped][scanned + 1])
    /\ scanned' = scanned + 1
    /\ UNCHANGED <<callees, start, popped>>

(* Mutant of SkipVisited: a function seen twice is not stepped over. *)
StuckOnVisited ==
    /\ Scanning
    /\ callees[popped][scanned + 1] \in visited
    /\ UNCHANGED worklist

SkipVisited ==
    /\ Scanning
    /\ callees[popped][scanned + 1] \in visited
    /\ scanned' = scanned + 1
    /\ UNCHANGED <<callees, start, visited, stack, popped>>

Iterate == Pop \/ PushUnvisited \/ SkipVisited

(* The loop is sequential code: it keeps running while it has work. *)
WorklistSpec == StartWorklist /\ [][Iterate]_worklist /\ WF_worklist(Iterate)

Returned == stack = <<>> /\ ~Scanning
-----------------------------------------------------------------------------
(* Every visited function is waiting on the stack, being scanned with its  *)
(* first callees visited, or has all its callees visited.                  *)
Frontier ==
    \A f \in visited :
        \/ f \in Range(stack)
        \/ f = popped /\ \A j \in 1..scanned : callees[f][j] \in visited
        \/ Range(callees[f]) \subseteq visited

(* A function is pushed at most once, so the stack never holds one twice   *)
(* and the loop's work is bounded by the number of call edges.             *)
PushedOnce == IsInjective(stack)

(* The strengthening that makes the loop's result inductive. *)
WorklistInv ==
    /\ WorklistTypeOK
    /\ start \in visited
    /\ popped \in visited
    /\ Range(stack) \subseteq visited
    /\ Frontier
    /\ visited \subseteq Closure
    /\ PushedOnce

(* When transitiveCallees returns, its set is exactly the functions        *)
(* reachable from start, whatever the order of the slices and however the  *)
(* functions recurse.                                                      *)
ClosureCorrect == Returned => visited = Closure

(* The loop ends, on recursive programs too. *)
Terminates == <>Returned
=============================================================================
