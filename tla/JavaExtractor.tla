--------------------------- MODULE JavaExtractor ---------------------------
(***************************************************************************)
(* The Java extractor (internal/callgraph/java.go).  Nodes:                *)
(*   package  path                                                         *)
(*   import   path          its last segment may be "*"                    *)
(*   class    name, fields  field |-> simple type name, or "" if not one   *)
(*   func     name, params  a method; parameter |-> type as above          *)
(*   block                  an enum or an anonymous class                  *)
(*   local    name, type    type = "" for `var`                            *)
(*   call     object, name  object: the segments before the name, if any   *)
(*   attr                   a field access                                 *)
(***************************************************************************)
EXTENDS Walk

(* What collectFieldTypes and seedLocalTypes keep of a declaration list. *)
typed(declared) == [x \in {y \in DOMAIN declared : declared[y] # ""} |-> declared[x]]

handlePackage ==
    /\ Walking({"package"})
    /\ pkg' = Node.path
    /\ Advance
    /\ UNCHANGED <<frames, scope, curFunc, imports, localTypes, classFields, classFQN, graph>>

handleImport ==
    /\ Walking({"import"})
    /\ imports' = IF Last(Node.path) = "*" THEN imports
                  ELSE Bind(imports, Last(Node.path), Node.path)
    /\ Advance
    /\ UNCHANGED <<frames, scope, curFunc, localTypes, classFields, pkg, classFQN, graph>>

handleClass ==
    /\ Walking({"class"}) /\ Enter /\ Advance
    /\ scope' = Append(scope, Node.name)
    /\ classFields' = typed(Node.fields)
    /\ UNCHANGED <<curFunc, imports, localTypes, pkg, classFQN, graph>>

seedLocalTypes(params) == Over(typed(params), classFields)

handleMethod ==
    /\ Walking({"func"}) /\ Enter /\ Advance
    /\ curFunc' = pkg \o Append(scope, Node.name)
    /\ AddFunc(pkg \o Append(scope, Node.name), {})
    /\ localTypes' = seedLocalTypes(Node.params)
    /\ UNCHANGED <<scope, imports, classFields, pkg, classFQN, calls, fields, suppressions>>

(* Mutant of recordLocalDeclaration: a `var` is recorded too, with no type. *)
recordAnyDeclaration ==
    /\ Walking({"local"})
    /\ localTypes' = IF curFunc # <<>> THEN Bind(localTypes, Node.name, Node.type) ELSE localTypes
    /\ Advance
    /\ UNCHANGED <<frames, scope, curFunc, imports, classFields, pkg, classFQN, graph>>

recordLocalDeclaration ==
    /\ Walking({"local"})
    /\ localTypes' = IF curFunc # <<>> /\ Node.type # ""
                     THEN Bind(localTypes, Node.name, Node.type) ELSE localTypes
    /\ Advance
    /\ UNCHANGED <<frames, scope, curFunc, imports, classFields, pkg, classFQN, graph>>

(* The deferred functions of handleClass and handleMethod. *)
Leave ==
    /\ Walking({"end"}) /\ Advance
    /\ LET frame == Last(frames)
       IN  /\ scope' = IF frame.is = "class" THEN frame.scope ELSE scope
           /\ classFields' = IF frame.is = "class" THEN frame.classFields ELSE classFields
           /\ curFunc' = IF frame.is = "func" THEN frame.curFunc ELSE curFunc
           /\ localTypes' = IF frame.is = "func" THEN frame.localTypes ELSE localTypes
    /\ frames' = Front(frames)
    /\ UNCHANGED <<imports, pkg, classFQN, graph>>

(* The FQN of a variable's type; {} when it is not known. *)
lookupReceiverFQN(variable) ==
    IF curFunc = <<>> \/ variable \notin DOMAIN localTypes THEN {}
    ELSE LET type == localTypes[variable]
         IN  {IF type \in DOMAIN imports THEN imports[type] ELSE Append(pkg, type)}

resolveCallee(raw, bare) ==
    IF Head(raw) \in DOMAIN imports THEN imports[Head(raw)] \o Tail(raw)
    ELSE IF bare THEN pkg \o scope \o raw
    ELSE pkg \o raw

handleInvocation ==
    /\ Walking({"call"}) /\ Advance
    /\ LET raw == Append(Node.object, Node.name)
           receiver == IF Len(Node.object) = 1 THEN lookupReceiverFQN(Node.object[1]) ELSE {}
       IN  \/ receiver = {} /\ AddCall(resolveCallee(raw, Node.object = <<>>))
           \/ \E type \in receiver : AddCall(Append(type, Node.name))
    /\ UNCHANGED <<extractor, funcs, fields, suppressions>>

Init == WalkInit("java", "walk")

Next == \/ handlePackage \/ handleImport \/ handleClass \/ handleMethod \/ PassInto
        \/ recordLocalDeclaration \/ handleInvocation \/ handleFieldAccess \/ Leave \/ NextFile
        \/ PassComment

-----------------------------------------------------------------------------
(* The language, for the properties. *)
PackageOf(f) == LET declared == {i \in DOMAIN Nodes(f) : Nodes(f)[i].is = "package"}
                IN  IF declared = {} THEN <<>> ELSE Nodes(f)[Max(declared)].path

NameOf(f, i) == PackageOf(f) \o Append(NamesAround(f, i, {"class"}), Nodes(f)[i].name)

(* The methods of the top-level class a simple name stands for in a file,  *)
(* an import of it coming before the file's own package.                   *)
MethodsOf(f, type, name) ==
    LET imported == {Nodes(f)[i].path : i \in {j \in DOMAIN Nodes(f) :
                        Nodes(f)[j].is = "import" /\ Last(Nodes(f)[j].path) = type}}
        full == IF imported = {} THEN {Append(PackageOf(f), type)} ELSE imported
    IN  UNION {Methods(g, type, name) :
                  g \in {h \in DOMAIN program.files : Append(PackageOf(h), type) \in full}}

(* The class and the method directly around a node, where there are these  *)
(* two: nothing is captured from a method further out.                     *)
MethodAround(f, i) ==
    LET around == AroundOf(f, i, {"class", "func"})
        n      == Len(around)
    IN  IF n < 2 \/ Nodes(f)[around[n]].is # "func" \/ Nodes(f)[around[n - 1]].is # "class"
        THEN {} ELSE {<<around[n - 1], around[n]>>}

(* The types the innermost declaration of a variable gives it where a call *)
(* stands: a local of the method, else a parameter, else a field of the    *)
(* class.  A method's body is one block here.                              *)
DeclaredTypes(f, i, variable) ==
    UNION {LET class  == around[1]
               method == around[2]
               locals == {j \in method..i - 1 : /\ Nodes(f)[j].is = "local"
                                                /\ Nodes(f)[j].name = variable
                                                /\ FuncAround(f, j) = {method}}
               params == Nodes(f)[method].params
               inside == Nodes(f)[class].fields
           IN  IF locals # {} THEN {Nodes(f)[Max(locals)].type}
               ELSE IF variable \in DOMAIN params THEN {params[variable]}
               ELSE IF variable \in DOMAIN inside THEN {inside[variable]}
               ELSE {} : around \in MethodAround(f, i)}

ReceiversTyped ==
    \A k \in DOMAIN calls :
        LET site == calls[k]
            node == Nodes(site.file)[site.at]
        IN  Len(node.object) = 1 =>
                \A type \in DeclaredTypes(site.file, site.at, node.object[1]) \ {""} :
                    Reaches(site, MethodsOf(site.file, type, node.name))

(* The type the last declaration of a variable that names one gives it:    *)
(* one of `var`, or of a type that is no class, is as if it were not there, *)
(* and an enum or an anonymous class has the fields of the class around.   *)
LastTypes(f, i, variable) ==
    UNION {LET locals  == {j \in method..i - 1 : /\ Nodes(f)[j].is = "local"
                                                 /\ Nodes(f)[j].name = variable
                                                 /\ Nodes(f)[j].type # ""
                                                 /\ FuncAround(f, j) = {method}}
               classes == AroundOf(f, method, {"class"})
               inside  == IF classes = <<>> THEN Empty ELSE typed(Nodes(f)[Last(classes)].fields)
               params  == typed(Nodes(f)[method].params)
           IN  IF locals # {} THEN {Nodes(f)[Max(locals)].type}
               ELSE {declared[variable] : declared \in
                        {d \in {Over(params, inside)} : variable \in DOMAIN d}} :
           method \in FuncAround(f, i)}

(* What a simple name stands for by the imports above. *)
Resolved(f, i, name) ==
    LET above == {j \in 1..i - 1 : Nodes(f)[j].is = "import" /\ Last(Nodes(f)[j].path) = name}
    IN  IF above = {} THEN Append(PackageOf(f), name) ELSE Nodes(f)[Max(above)].path

LastTypeStands ==
    \A k \in DOMAIN calls :
        LET site  == calls[k]
            node  == Nodes(site.file)[site.at]
            types == LastTypes(site.file, site.at, node.object[1])
        IN  Len(node.object) = 1 =>
                \E name \in IF types = {} THEN {node.object[1]} ELSE types :
                    site.callee = Append(Resolved(site.file, site.at, name), node.name)
=============================================================================
