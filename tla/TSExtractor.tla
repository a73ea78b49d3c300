---------------------------- MODULE TSExtractor ----------------------------
(***************************************************************************)
(* The TypeScript extractor (internal/callgraph/typescript.go).  Nodes:    *)
(*   import  form, source, name, as                                        *)
(*           one binding: form is "default", "namespace" or "named"        *)
(*   class   name, fields    field |-> simple type name, or ""             *)
(*   func    name, params    a function, a method or a function bound to a *)
(*                           variable; parameter |-> type as above         *)
(*   block                   an abstract class or a class expression       *)
(*   call    raw             the callee's segments, "this" among them      *)
(*   attr                    a member read                                 *)
(* A file's path and a source are the elements between their slashes, each *)
(* of them the parts between its dots; of a source that does not begin     *)
(* with `./` or `../` the whole is one element.                            *)
(***************************************************************************)
EXTENDS Walk

Stay == <<"", "">>       \* `.`
Up   == <<"", "", "">>   \* `..`

tsModuleFQN(path) ==
    FlattenSeq(IF Len(path) > 1 /\ Last(path) = <<"index">> THEN Front(path) ELSE path)

(* All but the last part, whether that is the file's whole name or not. *)
tsPackageFQN(mod) == Front(mod)

modFQN == tsModuleFQN(program.files[file].path)
pkgFQN == tsPackageFQN(modFQN)

-----------------------------------------------------------------------------
TrimSuffix(segment, ext) ==
    IF Len(segment) > 1 /\ Last(segment) = ext THEN Front(segment) ELSE segment

resolveTSImportSource(source) ==
    FlattenSeq(IF Len(source) = 1 \/ Head(source) \notin {Stay, Up} THEN source
               ELSE FoldLeft(LAMBDA parts, segment :
                                 IF segment \in {Stay, <<"">>} THEN parts
                                 ELSE IF segment # Up
                                 THEN Append(parts, TrimSuffix(TrimSuffix(segment, "ts"), "tsx"))
                                 ELSE IF parts = <<>> THEN parts ELSE Front(parts),
                             [k \in DOMAIN pkgFQN |-> <<pkgFQN[k]>>], source))

handleImport ==
    /\ Walking({"import"})
    /\ LET source == resolveTSImportSource(Node.source)
           bound  == CASE Node.form = "default"   -> Append(source, "default")
                       [] Node.form = "namespace" -> source
                       [] Node.form = "named"     -> Append(source, Node.name)
       IN  imports' = IF source = <<>> THEN imports ELSE Bind(imports, Node.as, bound)
    /\ Advance
    /\ UNCHANGED <<frames, scope, curFunc, localTypes, classFields, pkg, classFQN, graph>>

tsTypeFQN(type) == IF type \in DOMAIN imports THEN imports[type] ELSE Append(modFQN, type)

(* What is declared with the name of a type. *)
typed(declared) == [x \in {y \in DOMAIN declared : declared[y] # ""} |-> declared[x]]

handleClass ==
    /\ Walking({"class"}) /\ Enter /\ Advance
    /\ scope' = Append(scope, Node.name)
    /\ classFields' = typed(Node.fields)
    /\ classFQN' = Append(modFQN, Node.name)
    /\ UNCHANGED <<curFunc, imports, localTypes, pkg, graph>>

seedTSLocalTypes(params) == [x \in DOMAIN typed(params) |-> tsTypeFQN(params[x])]

(* Mutant of recordAndRecurse: the names around are left out. *)
recordByName ==
    /\ Walking({"func"}) /\ Enter /\ Advance
    /\ curFunc' = Append(modFQN, Node.name)
    /\ AddFunc(Append(modFQN, Node.name), {})
    /\ scope' = Append(scope, Node.name)
    /\ localTypes' = seedTSLocalTypes(Node.params)
    /\ UNCHANGED <<imports, classFields, pkg, classFQN, calls, fields, suppressions>>

(* handleFunction, handleMethod and handleVariableDeclarator come to this. *)
recordAndRecurse ==
    /\ Walking({"func"}) /\ Enter /\ Advance
    /\ curFunc' = modFQN \o Append(scope, Node.name)
    /\ AddFunc(modFQN \o Append(scope, Node.name), {})
    /\ scope' = Append(scope, Node.name)
    /\ localTypes' = seedTSLocalTypes(Node.params)
    /\ UNCHANGED <<imports, classFields, pkg, classFQN, calls, fields, suppressions>>

(* The deferred functions of handleClass and recordAndRecurse. *)
Leave ==
    /\ Walking({"end"}) /\ Advance
    /\ LET frame == Last(frames)
       IN  /\ scope' = frame.scope
           /\ classFields' = IF frame.is = "class" THEN frame.classFields ELSE classFields
           /\ classFQN' = IF frame.is = "class" THEN frame.classFQN ELSE classFQN
           /\ curFunc' = IF frame.is = "func" THEN frame.curFunc ELSE curFunc
           /\ localTypes' = IF frame.is = "func" THEN frame.localTypes ELSE localTypes
    /\ frames' = Front(frames)
    /\ UNCHANGED <<imports, pkg, graph>>

resolveCallee(raw) ==
    IF Head(raw) \in DOMAIN imports THEN imports[Head(raw)] \o Tail(raw) ELSE modFQN \o raw

(* The FQN of a member call, where the object's type is known. *)
tsResolveMember(raw) ==
    IF Len(raw) = 2 /\ raw[1] = "this" /\ classFQN # <<>> THEN {Append(classFQN, raw[2])}
    ELSE IF Len(raw) = 2 /\ raw[1] \in DOMAIN localTypes THEN
        {Append(localTypes[raw[1]], raw[2])}
    ELSE IF Len(raw) = 3 /\ raw[1] = "this" /\ raw[2] \in DOMAIN classFields THEN
        {Append(tsTypeFQN(classFields[raw[2]]), raw[3])}
    ELSE {}

handleCall ==
    /\ Walking({"call"}) /\ Advance
    /\ LET typedCallee == tsResolveMember(Node.raw)
       IN  \/ typedCallee = {} /\ AddCall(resolveCallee(Node.raw))
           \/ \E callee \in typedCallee : AddCall(callee)
    /\ UNCHANGED <<extractor, funcs, fields, suppressions>>

Init == WalkInit("typescript", "walk")

Next == \/ handleImport \/ handleClass \/ recordAndRecurse \/ PassInto
        \/ handleCall \/ handleFieldAccess \/ Leave \/ NextFile \/ PassComment

-----------------------------------------------------------------------------
(* The language, for the properties: modules are files. *)
NameOf(f, i) ==
    tsModuleFQN(program.files[f].path)
        \o Append(NamesAround(f, i, {"class", "func"}), Nodes(f)[i].name)

(* The files a relative import of a file designates.  The index of the     *)
(* source root is a module of its own, and no directory's.                 *)
Designated(f, source) ==
    LET module(segment) ==
            IF Len(segment) > 1 /\ Last(segment) \in {"ts", "tsx", "js"} THEN Front(segment)
            ELSE segment
        climb == FoldLeft(LAMBDA dirs, segment :
                              IF segment \in {Stay, <<"">>} THEN dirs
                              ELSE IF segment # Up THEN {Append(dir, module(segment)) : dir \in dirs}
                              ELSE {Front(dir) : dir \in dirs \ {<<>>}},
                          {Front(program.files[f].path)}, source)
    IN  {g \in DOMAIN program.files : \E path \in climb \ {<<>>} :
            program.files[g].path \in {path, Append(path, <<"index">>)}}

(* The imports that are followed, to a module of the project: not `.` or   *)
(* `..` alone (typescript.go:96), not one with the extension `.js`, which  *)
(* the comment there (113-118) takes to be harmless, and not a directory's *)
(* index spelled out, which loses that name as a module (43).              *)
Followed(source) ==
    /\ Len(source) > 1 /\ Head(source) \in {Stay, Up}
    /\ \A k \in DOMAIN source : Len(source[k]) = 1 \/ Last(source[k]) # "js"
    /\ Last(source) # <<"index">>

IsIndex(f) == LET path == program.files[f].path IN Len(path) > 1 /\ Last(path) = <<"index">>

(* Files whose package is the directory they are in: not an index.ts, and  *)
(* none with a dot in its path (src/foo.service.ts has the package         *)
(* src.foo, by typescript.go:84).                                          *)
InItsDirectory(f) ==
    ~IsIndex(f) /\ \A k \in DOMAIN program.files[f].path : Len(program.files[f].path[k]) = 1

Binders(f, name) ==
    {i \in DOMAIN Nodes(f) : LET node == Nodes(f)[i] IN
        \/ node.is = "import" /\ name = node.as
        \/ node.is \in {"class", "func"} /\ name = node.name
        \/ node.is = "func" /\ name \in DOMAIN node.params}

(* The functions a call reaches by the relative import it names. *)
Imported(f, node, raw) ==
    IF ~Followed(node.source) \/ node.form = "default" THEN {}
    ELSE IF node.form = "named" /\ Len(raw) = 1
    THEN UNION {TopFuncs(g, node.name) : g \in Designated(f, node.source)}
    ELSE IF node.form = "namespace" /\ Len(raw) = 2
    THEN UNION {TopFuncs(g, raw[2]) : g \in Designated(f, node.source)}
    ELSE {}

ImportsReachFrom(f) ==
    \A k \in DOMAIN calls :
        LET site == calls[k]
            raw  == Nodes(f)[site.at].raw
        IN  site.file = f =>
                \A i \in Binders(f, Head(raw)) :
                    Binders(f, Head(raw)) = {i} /\ Nodes(f)[i].is = "import" =>
                        Reaches(site, Imported(f, Nodes(f)[i], raw))

(* The methods of the top-level class a simple name stands for in a file. *)
MethodsOf(f, type, name) ==
    LET imported == {i \in Binders(f, type) : Nodes(f)[i].is = "import"}
    IN  IF imported = {} THEN Methods(f, type, name)
        ELSE UNION {UNION {Methods(g, Nodes(f)[i].name, name) :
                               g \in Designated(f, Nodes(f)[i].source)} :
                    i \in {j \in imported : /\ Nodes(f)[j].form = "named"
                                            /\ Followed(Nodes(f)[j].source)}}

(* The methods a member call reaches by what its object is declared to be, *)
(* in a method directly in a top-level class.                              *)
Declared(f, i, raw) ==
    UNION {LET class  == Nodes(f)[Around(f, i)[1]]
               params == Nodes(f)[Around(f, i)[2]].params
           IN  IF Len(raw) = 2 /\ raw[1] = "this" THEN Methods(f, class.name, raw[2])
               ELSE IF Len(raw) = 2 /\ raw[1] \in DOMAIN typed(params)
               THEN MethodsOf(f, params[raw[1]], raw[2])
               ELSE IF Len(raw) = 3 /\ raw[1] = "this" /\ raw[2] \in DOMAIN typed(class.fields)
               THEN MethodsOf(f, class.fields[raw[2]], raw[3])
               ELSE {} :
           one \in {x \in {1} : /\ Len(Around(f, i)) = 2
                                /\ Nodes(f)[Around(f, i)[1]].is = "class"
                                /\ Nodes(f)[Around(f, i)[2]].is = "func"}}

ReceiversTyped ==
    \A k \in DOMAIN calls :
        LET site == calls[k]
        IN  InItsDirectory(site.file) =>
                Reaches(site, Declared(site.file, site.at, Nodes(site.file)[site.at].raw))
=============================================================================
