-------------------------------- MODULE Walk --------------------------------
(***************************************************************************)
(* What the four extractors of internal/callgraph have in common: a walk   *)
(* over the syntax nodes of each file, the definitions under way, and the  *)
(* graph the walk adds to (graph.go).                                      *)
(*                                                                         *)
(* A program is a sequence of files.  A file has a path, from the source   *)
(* root and without its extension, and the nodes the walk comes to, in     *)
(* that order; the node "end" is where the walk leaves the innermost       *)
(* definition, and its deferred function runs.  A name is a string and an  *)
(* FQN the sequence of its segments; <<>> is "".  A node takes a line of   *)
(* the file, a comment as many as its rows; a trailing comment begins on   *)
(* the line of the node before it.                                         *)
(***************************************************************************)
EXTENDS Integers, SequencesExt, Suppressions, Lists

CONSTANTS Programs       \* the programs explored

VARIABLES
    program,      \* the program, read only
    phase,        \* "discover" (Go only), "walk" or "done"
    file, at,     \* the file under way and its next node
    frames,       \* what the definitions under way restore when left
    scope,        \* the names of the definitions around
    curFunc,      \* the FQN of the function around, or <<>>
    imports,      \* local name |-> FQN
    localTypes,   \* variable |-> type; nil just when curFunc is <<>>
    classFields,  \* field |-> type, of the class around
    pkg,          \* the package a Java file has declared
    classFQN,     \* the class around, in TypeScript
    funcs,        \* FQN |-> its definition
    calls,        \* the call sites, in the order added
    fields,       \* the attribute reads, in the order added
    suppressions  \* the directives found in comments

extractor == <<frames, scope, curFunc, imports, localTypes, classFields, pkg, classFQN>>
graph     == <<funcs, calls, fields, suppressions>>
vars      == <<program, phase, file, at, extractor, graph>>

Empty == [x \in {} |-> <<>>]
Nodes(f) == program.files[f].nodes
Node == Nodes(file)[at]

TypeOK ==
    /\ phase \in {"discover", "walk", "done"}
    /\ file \in DOMAIN program.files
    /\ at \in 1..Len(Nodes(file)) + 1
    /\ Len(scope) <= Len(frames)
    /\ (curFunc # <<>>) = \E i \in DOMAIN frames : frames[i].is = "func"
    /\ curFunc = <<>> => localTypes = Empty
    /\ curFunc # <<>> => curFunc \in DOMAIN funcs
    /\ \A i \in DOMAIN calls : calls[i].caller \in DOMAIN funcs \cup {<<>>}
    /\ \A i \in DOMAIN fields : fields[i].caller \in DOMAIN funcs \cup {<<>>}

WalkInit(lang, first) ==
    /\ program \in {p \in Programs : p.lang = lang}
    /\ phase = first
    /\ file = 1 /\ at = 1
    /\ frames = <<>> /\ scope = <<>> /\ curFunc = <<>> /\ pkg = <<>> /\ classFQN = <<>>
    /\ imports = Empty /\ localTypes = Empty /\ classFields = Empty
    /\ funcs = Empty /\ calls = <<>> /\ fields = <<>> /\ suppressions = {}

-----------------------------------------------------------------------------
At(kinds) == phase # "done" /\ at <= Len(Nodes(file)) /\ Node.is \in kinds
Walking(kinds) == phase = "walk" /\ At(kinds)
Advance == at' = at + 1 /\ UNCHANGED <<program, phase, file>>

Bind(map, name, value) == [x \in DOMAIN map \cup {name} |-> IF x = name THEN value ELSE map[x]]
Over(map, base) == [x \in DOMAIN map \cup DOMAIN base |-> IF x \in DOMAIN map THEN map[x] ELSE base[x]]

(* Mutant of AddFunc: the first definition of a name stays. *)
AddFuncOnce(fqn, info) ==
    funcs' = IF fqn \in DOMAIN funcs THEN funcs
             ELSE Bind(funcs, fqn, [file |-> file, at |-> at, info |-> info])

(* Duplicate names overwrite. *)
AddFunc(fqn, info) == funcs' = Bind(funcs, fqn, [file |-> file, at |-> at, info |-> info])

AddCall(callee) ==
    calls' = Append(calls, [caller |-> curFunc, callee |-> callee, file |-> file, at |-> at])

AddField == fields' = Append(fields, [caller |-> curFunc, file |-> file, at |-> at])

(* The definition at the node is entered; what it changes is saved. *)
Enter == frames' = Append(frames, [is |-> Node.is, scope |-> scope, curFunc |-> curFunc,
                                   localTypes |-> localTypes, classFields |-> classFields,
                                   classFQN |-> classFQN])

(* A node the walk only passes through on its way to those inside. *)
PassInto ==
    /\ Walking({"block"}) /\ Enter /\ Advance
    /\ UNCHANGED <<scope, curFunc, imports, localTypes, classFields, pkg, classFQN, graph>>

handleFieldAccess ==
    /\ Walking({"attr"}) /\ AddField /\ Advance
    /\ UNCHANGED <<extractor, funcs, calls, suppressions>>

(* The extractors have no use for comments. *)
PassComment ==
    /\ At({"comment"}) /\ Advance
    /\ UNCHANGED <<extractor, graph>>

Comments(f) == {i \in DOMAIN Nodes(f) : Nodes(f)[i].is = "comment"}
Rows(f, i) == IF i \in Comments(f) THEN Nodes(f)[i].rows ELSE 1
Trailing(f, i) == i \in Comments(f) /\ Nodes(f)[i].trailing

(* The line a node begins on: a trailing comment, the last of those of the *)
(* node before it, and any other the next one.                             *)
LineOf(f, i) ==
    LET line[j \in 0..Len(Nodes(f))] ==
            IF j <= 1 THEN 1
            ELSE line[j - 1] + Rows(f, j - 1) - (IF Trailing(f, j) THEN 1 ELSE 0)
    IN  line[i]

(* The directives of a file, each at the line its comment begins on. *)
scanComments(f) ==
    {[file |-> f, line |-> LineOf(f, i), ids |-> ParseSuppression(Nodes(f)[i].text)] :
        i \in {i \in Comments(f) : ParseSuppression(Nodes(f)[i].text) # {}}}

MatchSuppression(f, line, id) ==
    \E s \in suppressions :
        s.file = f /\ line \in {s.line, s.line + 1} /\ s.ids \cap {<<CatchAll>>, <<id>>} # {}

(* After a file's last node its comments are scanned, and a fresh          *)
(* extractor comes to the next file; Go first goes over all files once.    *)
NextFile ==
    /\ phase # "done" /\ at > Len(Nodes(file))
    /\ at' = 1
    /\ IF file < Len(program.files) THEN file' = file + 1 /\ UNCHANGED phase
       ELSE file' = 1 /\ phase' = IF phase = "discover" THEN "walk" ELSE "done"
    /\ frames' = <<>> /\ scope' = <<>> /\ curFunc' = <<>> /\ pkg' = <<>> /\ classFQN' = <<>>
    /\ imports' = Empty /\ localTypes' = Empty /\ classFields' = Empty
    /\ suppressions' = suppressions \cup IF phase = "walk" THEN scanComments(file) ELSE {}
    /\ UNCHANGED <<program, funcs, calls, fields>>

-----------------------------------------------------------------------------
(* The text of the program, for the properties. *)

Opens == {"class", "func", "block"}
Count(nodes, i, j, kinds) == Cardinality({k \in i..j : nodes[k].is \in kinds})

(* The definitions the node at i is in. *)
Inside(nodes, i) ==
    {j \in 1..i - 1 :
        \A k \in j..i - 1 : Count(nodes, j, k, Opens) > Count(nodes, j, k, {"end"})}

(* Those of some kinds, outermost first, and their names. *)
AroundOf(f, i, kinds) ==
    SelectAt([j \in DOMAIN Nodes(f) |-> j], {j \in Inside(Nodes(f), i) : Nodes(f)[j].is \in kinds})
Around(f, i) == AroundOf(f, i, Opens)
NamesAround(f, i, kinds) ==
    LET around == AroundOf(f, i, kinds) IN [k \in DOMAIN around |-> Nodes(f)[around[k]].name]

(* The function around a node, if any. *)
FuncAround(f, i) ==
    LET around == {j \in Inside(Nodes(f), i) : Nodes(f)[j].is = "func"}
    IN  IF around = {} THEN {} ELSE {Max(around)}

TopDefs(f, kind) == {i \in DOMAIN Nodes(f) : Nodes(f)[i].is = kind /\ Around(f, i) = <<>>}

(* The functions at the top of a file, and those directly in its top class. *)
TopFuncs(f, name) == {<<f, i>> : i \in {j \in TopDefs(f, "func") : Nodes(f)[j].name = name}}

Methods(f, class, name) ==
    {<<f, i>> : i \in {j \in DOMAIN Nodes(f) :
        /\ Nodes(f)[j].is = "func" /\ Nodes(f)[j].name = name
        /\ \E c \in TopDefs(f, "class") : Nodes(f)[c].name = class /\ Around(f, j) = <<c>>}}

(* The site's callee is registered, as one of these definitions. *)
Reaches(site, defs) ==
    defs # {} => /\ site.callee \in DOMAIN funcs
                 /\ <<funcs[site.callee].file, funcs[site.callee].at>> \in defs
=============================================================================
