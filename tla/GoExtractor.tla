---------------------------- MODULE GoExtractor ----------------------------
(***************************************************************************)
(* The Go extractor (internal/callgraph/golang.go): a pass over every file *)
(* that registers the functions and what they return, then a pass over     *)
(* their bodies.  A segment of an FQN is itself a sequence, the parts an   *)
(* import path has between its slashes.  Nodes:                            *)
(*   import  as, path          as = "" without an alias; "_" and "." too   *)
(*   func    name, recv, params, result                                    *)
(*           recv: at most one [name, type]; params: variable |-> type     *)
(*           result: at most one type, none for several results            *)
(*   short   name, call        name := call(...); call = <<>> if it is not *)
(*                             one call                                    *)
(*   call    raw               the callee's segments                       *)
(*   attr                      a selector read                             *)
(* A type is [pkg, name], pkg = "" in its own package, or name = "" for a  *)
(* type goTypeFQN does not take apart; pointers and slices are what they   *)
(* point to or hold.                                                       *)
(***************************************************************************)
EXTENDS Walk

(* The first go.mod from the source root upwards that declares a module. *)
findGoModulePath(mods) ==
    LET declaring == {i \in DOMAIN mods : mods[i] # <<>>}
    IN  IF declaring = {} THEN <<>> ELSE mods[Min(declaring)]

Segments(names) == [i \in DOMAIN names |-> <<names[i]>>]

goModuleFQN(path) ==
    LET modulePath == findGoModulePath(program.goMods)
    IN  IF modulePath # <<>> THEN <<modulePath \o Front(path)>> ELSE Segments(Front(path))

modFQN == goModuleFQN(program.files[file].path)

isGoVersionSegment(segment) == segment \in {"v2", "v3"}

goLastSegment(path) ==
    LET named == SelectSeq(path, LAMBDA segment : ~isGoVersionSegment(segment))
    IN  IF named = <<>> THEN Last(path) ELSE Last(named)

(* In both passes. *)
handleImportSpec ==
    /\ At({"import"})
    /\ imports' = IF Node.as \in {"_", "."} THEN imports
                  ELSE Bind(imports, IF Node.as = "" THEN goLastSegment(Node.path) ELSE Node.as,
                            <<Node.path>>)
    /\ Advance
    /\ UNCHANGED <<frames, scope, curFunc, localTypes, classFields, pkg, classFQN, graph>>

goTypeFQN(type) ==
    IF type.name = "" THEN {}
    ELSE IF type.pkg = "" THEN {Append(modFQN, <<type.name>>)}
    ELSE {Append(IF type.pkg \in DOMAIN imports THEN imports[type.pkg] ELSE Segments(<<type.pkg>>),
                 <<type.name>>)}

goReturnTypeFQN(node) == UNION {goTypeFQN(type) : type \in node.result}

(* The method's type, if any, and the function's name. *)
OwnName(node) == Segments(Append(SetToSeq({r.type : r \in node.recv}), node.name))

composeGoFuncFQN(node) == modFQN \o OwnName(node)

(* Mutant of registerFunction: what it returns is left to the second pass. *)
registerName ==
    /\ phase = "discover" /\ At({"func"})
    /\ AddFunc(composeGoFuncFQN(Node), {})
    /\ Advance
    /\ UNCHANGED <<extractor, calls, fields, suppressions>>

(* registerFunction and registerMethod. *)
registerFunction ==
    /\ phase = "discover" /\ At({"func"})
    /\ AddFunc(composeGoFuncFQN(Node), goReturnTypeFQN(Node))
    /\ Advance
    /\ UNCHANGED <<extractor, calls, fields, suppressions>>

(* The first pass does not go into bodies. *)
PassOver ==
    /\ phase = "discover" /\ At({"short", "call", "attr", "end"})
    /\ Advance
    /\ UNCHANGED <<extractor, graph>>

seedLocalTypes(node) ==
    LET receiver == [x \in {r.name : r \in node.recv} |-> modFQN \o Front(OwnName(node))]
        known    == {x \in DOMAIN node.params : goTypeFQN(node.params[x]) # {}}
    IN  Over([x \in known |-> CHOOSE fqn \in goTypeFQN(node.params[x]) : TRUE], receiver)

(* Mutant of recordAndRecurse: a slimmer entry over the one registered. *)
recordAgain ==
    /\ Walking({"func"}) /\ Enter /\ Advance
    /\ curFunc' = composeGoFuncFQN(Node)
    /\ AddFunc(composeGoFuncFQN(Node), {})
    /\ localTypes' = seedLocalTypes(Node)
    /\ UNCHANGED <<scope, imports, classFields, pkg, classFQN, calls, fields, suppressions>>

recordAndRecurse ==
    /\ Walking({"func"}) /\ Enter /\ Advance
    /\ curFunc' = composeGoFuncFQN(Node)
    /\ IF composeGoFuncFQN(Node) \in DOMAIN funcs THEN UNCHANGED funcs
       ELSE AddFunc(composeGoFuncFQN(Node), goReturnTypeFQN(Node))
    /\ localTypes' = seedLocalTypes(Node)
    /\ UNCHANGED <<scope, imports, classFields, pkg, classFQN, calls, fields, suppressions>>

Leave ==
    /\ Walking({"end"}) /\ Advance
    /\ curFunc' = Last(frames).curFunc
    /\ localTypes' = Last(frames).localTypes
    /\ frames' = Front(frames)
    /\ UNCHANGED <<scope, imports, classFields, pkg, classFQN, graph>>

resolveCallee(raw) ==
    IF Head(raw) \in DOMAIN imports THEN imports[Head(raw)] \o Segments(Tail(raw))
    ELSE modFQN \o Segments(raw)

recordShortVarDeclaration ==
    /\ Walking({"short"})
    /\ LET result == IF Node.call = <<>> \/ resolveCallee(Node.call) \notin DOMAIN funcs THEN {}
                     ELSE funcs[resolveCallee(Node.call)].info
       IN  \/ /\ curFunc = <<>> \/ result = {}
              /\ UNCHANGED localTypes
           \/ /\ curFunc # <<>>
              /\ \E type \in result : localTypes' = Bind(localTypes, Node.name, type)
    /\ Advance
    /\ UNCHANGED <<frames, scope, curFunc, imports, classFields, pkg, classFQN, graph>>

handleCall ==
    /\ Walking({"call"}) /\ Advance
    /\ AddCall(IF Len(Node.raw) = 2 /\ Node.raw[1] \in DOMAIN localTypes
               THEN Append(localTypes[Node.raw[1]], <<Node.raw[2]>>)
               ELSE resolveCallee(Node.raw))
    /\ UNCHANGED <<extractor, funcs, fields, suppressions>>

Init == WalkInit("go", "discover")

Next == \/ handleImportSpec \/ registerFunction \/ PassOver \/ recordAndRecurse \/ Leave
        \/ recordShortVarDeclaration \/ handleCall \/ handleFieldAccess \/ NextFile
        \/ PassComment

-----------------------------------------------------------------------------
(* The language, for the properties: packages are directories, an import   *)
(* path is that of the module and a directory of it.                       *)
Dir(f) == Front(program.files[f].path)

NameOf(f, i) == goModuleFQN(program.files[f].path) \o OwnName(Nodes(f)[i])

Binders(f, name) ==
    {i \in DOMAIN Nodes(f) : LET node == Nodes(f)[i] IN
        node.is = "import" /\ node.as \notin {"_", "."}
            /\ name = (IF node.as = "" THEN goLastSegment(node.path) ELSE node.as)}

(* The project's directories a package name stands for in a file. *)
Package(f, name) ==
    {dir \in {Dir(g) : g \in DOMAIN program.files} :
        IF name = "" THEN dir = Dir(f)
        ELSE \E i \in Binders(f, name) : program.goMods[1] \o dir = Nodes(f)[i].path}

(* The functions of a directory, and the methods of a type of it. *)
FuncsIn(dir, name) ==
    UNION {{<<g, i>> : i \in {j \in DOMAIN Nodes(g) : /\ Nodes(g)[j].is = "func"
                                                       /\ Nodes(g)[j].recv = {}
                                                       /\ Nodes(g)[j].name = name}} :
           g \in {h \in DOMAIN program.files : Dir(h) = dir}}

MethodsIn(dir, type, name) ==
    UNION {{<<g, i>> : i \in {j \in DOMAIN Nodes(g) : /\ Nodes(g)[j].is = "func"
                                                       /\ type \in {r.type : r \in Nodes(g)[j].recv}
                                                       /\ Nodes(g)[j].name = name}} :
           g \in {h \in DOMAIN program.files : Dir(h) = dir}}

(* The functions a callee names, alone or behind a package. *)
Named(f, raw) ==
    IF Len(raw) = 1 THEN FuncsIn(Dir(f), raw[1])
    ELSE UNION {FuncsIn(dir, raw[2]) : dir \in Package(f, raw[1])}

(* The directory and the name of a type written in a file. *)
TypeOf(f, type) == {<<dir, type.name>> : dir \in Package(f, type.pkg)}

(* The types of a variable where a call stands, by its last declaration in *)
(* the function: the results of the function it was given the value of, or *)
(* the type of the parameter or receiver.  A body is one block here.       *)
DeclaredTypes(f, i, variable) ==
    UNION {LET node   == Nodes(f)[func]
               shorts == {j \in func..i - 1 : Nodes(f)[j].is = "short" /\ Nodes(f)[j].name = variable}
           IN  IF shorts # {}
               THEN LET call == Nodes(f)[Max(shorts)].call
                    IN  IF call = <<>> \/ Len(call) > 2 THEN {}
                        ELSE UNION {UNION {TypeOf(def[1], type) :
                                              type \in Nodes(def[1])[def[2]].result} :
                                    def \in Named(f, call)}
               ELSE IF variable \in DOMAIN node.params THEN TypeOf(f, node.params[variable])
               ELSE {<<Dir(f), r.type>> : r \in {s \in node.recv : s.name = variable}} :
           func \in FuncAround(f, i)}

Shadowed(f, i, name) ==
    \E func \in FuncAround(f, i) :
        LET node == Nodes(f)[func]
        IN  \/ name \in DOMAIN node.params \cup {r.name : r \in node.recv}
            \/ \E j \in func..i - 1 : Nodes(f)[j].is = "short" /\ Nodes(f)[j].name = name

(* In a module whose go.mod is at the source root. *)
ImportedCallsReach ==
    program.goMods[1] # <<>> =>
        \A k \in DOMAIN calls :
            LET site == calls[k]
                raw  == Nodes(site.file)[site.at].raw
            IN  Len(raw) = 2 /\ ~Shadowed(site.file, site.at, raw[1]) =>
                    Reaches(site, Named(site.file, raw))

ReceiversTyped ==
    program.goMods[1] # <<>> =>
        \A k \in DOMAIN calls :
            LET site == calls[k]
                raw  == Nodes(site.file)[site.at].raw
            IN  Len(raw) = 2 =>
                    \A type \in DeclaredTypes(site.file, site.at, raw[1]) :
                        Reaches(site, MethodsIn(type[1], type[2], raw[2]))
=============================================================================
