---------------------------- MODULE PyExtractor ----------------------------
(***************************************************************************)
(* The Python extractor (internal/callgraph/python.go).  Nodes:            *)
(*   import  path, as      as = "" without an alias                        *)
(*   from    dots, path, name, as    one imported name; as is its local one *)
(*   class   name                                                          *)
(*   func    name, decorators                                              *)
(*   call    raw           the callee expression's segments                *)
(*   attr                  an attribute read                               *)
(***************************************************************************)
EXTENDS Walk

pythonModuleFQN(path) == IF Len(path) > 1 /\ Last(path) = "__init__" THEN Front(path) ELSE path

pythonPackageFQN(path) ==
    IF Last(path) = "__init__" THEN pythonModuleFQN(path) ELSE Front(pythonModuleFQN(path))

modFQN == pythonModuleFQN(program.files[file].path)
pkgFQN == pythonPackageFQN(program.files[file].path)

-----------------------------------------------------------------------------
(* Mutant of pythonRelativeBase: one dot climbs already. *)
baseFromParent(pkgName, dots) ==
    IF dots > Len(pkgName) THEN {} ELSE {SubSeq(pkgName, 1, Len(pkgName) - dots)}

(* Where a relative import starts from; {} when it climbs past the root. *)
pythonRelativeBase(pkgName, dots) ==
    IF dots - 1 > Len(pkgName) THEN {} ELSE {SubSeq(pkgName, 1, Len(pkgName) - (dots - 1))}

resolveModuleName(node) ==
    IF node.dots = 0 THEN {node.path}
    ELSE {base \o node.path : base \in pythonRelativeBase(pkgFQN, node.dots)} \ {<<>>}

handleImport ==
    /\ Walking({"import"})
    /\ imports' = Bind(imports, IF Node.as = "" THEN Head(Node.path) ELSE Node.as, Node.path)
    /\ Advance
    /\ UNCHANGED <<frames, scope, curFunc, localTypes, classFields, pkg, classFQN, graph>>

handleImportFrom ==
    /\ Walking({"from"})
    /\ \/ \E module \in resolveModuleName(Node) :
              imports' = Bind(imports, Node.as, Append(module, Node.name))
       \/ resolveModuleName(Node) = {} /\ UNCHANGED imports
    /\ Advance
    /\ UNCHANGED <<frames, scope, curFunc, localTypes, classFields, pkg, classFQN, graph>>

handleClass ==
    /\ Walking({"class"}) /\ Enter /\ Advance
    /\ scope' = Append(scope, Node.name)
    /\ UNCHANGED <<curFunc, imports, localTypes, classFields, pkg, classFQN, graph>>

handleFunction ==
    /\ Walking({"func"}) /\ Enter /\ Advance
    /\ curFunc' = modFQN \o Append(scope, Node.name)
    /\ AddFunc(modFQN \o Append(scope, Node.name), Node.decorators)
    /\ scope' = Append(scope, Node.name)
    /\ UNCHANGED <<imports, localTypes, classFields, pkg, classFQN, calls, fields, suppressions>>

(* The deferred functions of handleClass and handleFunction. *)
Leave ==
    /\ Walking({"end"}) /\ Advance
    /\ scope' = Last(frames).scope
    /\ curFunc' = IF Last(frames).is = "func" THEN Last(frames).curFunc ELSE curFunc
    /\ frames' = Front(frames)
    /\ UNCHANGED <<imports, localTypes, classFields, pkg, classFQN, graph>>

resolveCallee(raw) ==
    IF Head(raw) \in DOMAIN imports THEN imports[Head(raw)] \o Tail(raw) ELSE modFQN \o raw

handleCall ==
    /\ Walking({"call"}) /\ Advance
    /\ AddCall(resolveCallee(Node.raw))
    /\ UNCHANGED <<extractor, funcs, fields, suppressions>>

Init == WalkInit("python", "walk")

Next == \/ handleImport \/ handleImportFrom \/ handleClass \/ handleFunction
        \/ handleCall \/ handleFieldAccess \/ Leave \/ NextFile \/ PassComment

-----------------------------------------------------------------------------
(* The language, for the properties: packages are directories. *)

(* What a function is called from outside: where it stands in the text. *)
NameOf(f, i) ==
    pythonModuleFQN(program.files[f].path)
        \o Append(NamesAround(f, i, {"class", "func"}), Nodes(f)[i].name)

ModuleFiles(path) ==
    {f \in DOMAIN program.files : program.files[f].path \in {path, Append(path, "__init__")}}

(* The directory an import statement of a file looks in; {} above the root. *)
Directory(f, node) ==
    LET dir == Front(program.files[f].path)
        up  == node.dots - 1
    IN  IF node.dots = 0 THEN {<<>>}
        ELSE IF up > Len(dir) THEN {} ELSE {SubSeq(dir, 1, Len(dir) - up)}

Binders(f, name) ==
    {i \in DOMAIN Nodes(f) : LET node == Nodes(f)[i] IN
        \/ node.is = "import" /\ name = (IF node.as = "" THEN Head(node.path) ELSE node.as)
        \/ node.is = "from" /\ name = node.as
        \/ node.is \in {"class", "func"} /\ name = node.name}

(* The functions a call reaches by the import it names: a function of the  *)
(* module imported from, or of the module imported.  The code skips        *)
(* `from . import m` where the dots lead to the source root, and binds the *)
(* first name of `import a.b` to a.b: nothing is said of these.            *)
Imported(f, node, raw) ==
    IF node.is = "import" THEN
        IF Len(raw) = 2 /\ (node.as # "" \/ Len(node.path) = 1)
        THEN UNION {TopFuncs(g, raw[2]) : g \in ModuleFiles(node.path)} ELSE {}
    ELSE UNION {IF Len(raw) = 1
                THEN UNION {TopFuncs(g, node.name) : g \in ModuleFiles(dir \o node.path)}
                ELSE IF Len(raw) = 2
                THEN UNION {TopFuncs(g, raw[2]) :
                               g \in ModuleFiles(Append(dir \o node.path, node.name))}
                ELSE {} :
                dir \in {d \in Directory(f, node) : node.dots = 0 \/ d \o node.path # <<>>}}

ImportedCallsReach ==
    \A k \in DOMAIN calls :
        LET site == calls[k]
            raw  == Nodes(site.file)[site.at].raw
        IN  \A i \in Binders(site.file, Head(raw)) :
                Binders(site.file, Head(raw)) = {i} /\ i < site.at
                    /\ Nodes(site.file)[i].is \in {"import", "from"} =>
                        Reaches(site, Imported(site.file, Nodes(site.file)[i], raw))
=============================================================================
