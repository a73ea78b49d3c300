---------------------------- MODULE MCExtractors ----------------------------
(* Extractors on families of small programs, a few for each language. *)
EXTENDS Extractors

End  == [is |-> "end"]
Attr == [is |-> "attr"]
Call(raw) == [is |-> "call", raw |-> raw]

(* The well-nested texts of at most n of these nodes, their ends included. *)
Texts(leaves, openers, n) ==
    LET texts[k \in 0..n] ==
            {<<>>}
            \cup (IF k = 0 THEN {} ELSE {<<x>> \o rest : x \in leaves, rest \in texts[k - 1]})
            \cup UNION {{<<x>> \o inside \o <<End>> \o rest :
                            x \in openers, inside \in texts[i], rest \in texts[k - 2 - i]} :
                        i \in 0..k - 2}
    IN  texts[n]

File(path, nodes) == [path |-> path, nodes |-> nodes]
Prog(lang, files) == [lang |-> lang, goMods |-> <<<<"m">>>>, files |-> files]
BothOrders(lang, f, g) == {Prog(lang, <<f, g>>), Prog(lang, <<g, f>>)}

-----------------------------------------------------------------------------
(* Python. *)
PyDef(name) == [is |-> "func", name |-> name, decorators |-> {}]
PyClass == [is |-> "class", name |-> "C"]
From(dots, path, name, as) ==
    [is |-> "from", dots |-> dots, path |-> path, name |-> name, as |-> as]
PyImport(path, as) == [is |-> "import", path |-> path, as |-> as]

PyNesting ==
    {Prog("python", <<File(<<"a", "m">>, nodes)>>) :
        nodes \in Texts({Call(<<"f">>), Attr}, {PyClass, PyDef("f"), PyDef("g")}, 6)}

PyPaths == {<<"m">>, <<"a", "m">>, <<"a", "__init__">>, <<"a", "b", "m">>, <<"a", "b", "__init__">>}
PyText  == <<PyClass, PyDef("f"), End, End, PyDef("f"), End>>
PyImports ==
    {From(dots, path, name, "x") : dots \in 1..3, path \in {<<>>, <<"m">>, <<"b">>, <<"b", "m">>},
                                   name \in {"f", "m", "b"}}
    \cup {From(0, path, name, "x") : path \in {<<"m">>, <<"a">>, <<"a", "m">>, <<"a", "b">>,
                                                  <<"a", "b", "m">>},
                                     name \in {"f", "m", "b"}}
    \cup {PyImport(path, as) : path \in {<<"m">>, <<"a">>, <<"a", "m">>}, as \in {"", "x"}}

PyImporting ==
    UNION {BothOrders("python", File(p, PyText),
                      File(q, <<import, PyDef("g"), Call(raw), End>>)) :
           p \in PyPaths, q \in {<<"a", "h">>, <<"a", "b", "h">>, <<"a", "b", "__init__">>},
           import \in PyImports, raw \in {<<"x">>, <<"x", "f">>, <<"m", "f">>}}

-----------------------------------------------------------------------------
(* Java. *)
None == [x \in {} |-> ""]
V(type) == [x \in {"v"} |-> type]
Class(name, flds) == [is |-> "class", name |-> name, fields |-> flds]
Func(name, params) == [is |-> "func", name |-> name, params |-> params]
Block == [is |-> "block"]
Local(type) == [is |-> "local", name |-> "v", type |-> type]
Invoke(object) == [is |-> "call", object |-> object, name |-> "r"]
Package(path) == [is |-> "package", path |-> path]
JavaImport(path) == [is |-> "import", path |-> path]

(* Bodies of methods, in which there are classes in turn, and of classes. *)
Calls == {Invoke(<<"v">>)}
MethodBodies ==
    LET members == Texts(Calls, {Func("n", V("U")), Func("r", None)}, 3)
    IN  Texts(Calls \cup {Local("T"), Local("")}, {}, 3)
        \cup {<<Local("T"), x>> \o inside \o <<End, Invoke(<<"v">>)>> :
                  x \in {Block, Class("D", V("U"))}, inside \in members}

ClassBodies ==
    {<<Func("r", params)>> \o body \o <<End>> \o rest :
        params \in {None, V("U")}, body \in MethodBodies,
        rest \in {<<>>, <<Func("n", None), Invoke(<<"v">>), End>>, <<Invoke(<<"v">>)>>}}

Types(name) == <<Class(name, None), Func("r", None), End, End>>

JavaPrograms ==
    {Prog("java", <<File(<<"A">>, <<Package(<<"p">>)>> \o imported
                                    \o <<Class("A", flds)>> \o body \o <<End>>),
                    File(<<"T">>, <<Package(<<"q">>)>> \o Types("T")),
                    File(<<"U">>, <<Package(<<"p">>)>> \o Types("U"))>>) :
        imported \in {<<>>, <<JavaImport(<<"q", "T">>)>>},
        flds \in {None, V("T"), V("U")}, body \in ClassBodies}
    \cup
    {Prog("java", <<File(<<"A">>, imported \o <<Class("A", None), Func("n", V("T")),
                                               Invoke(object), Attr, End, End>>),
                    File(<<"T">>, Types("T"))>>) :
        imported \in {<<>>, <<JavaImport(<<"q", "*">>)>>, <<JavaImport(<<"T">>)>>},
        object \in {<<>>, <<"v">>, <<"T">>, <<"v", "w">>}}

-----------------------------------------------------------------------------
(* TypeScript. *)
Plain(names) == [k \in DOMAIN names |-> <<names[k]>>]

TSImport(form, source, name, as) ==
    [is |-> "import", form |-> form, source |-> source, name |-> name, as |-> as]

TSNesting ==
    {Prog("typescript", <<File(Plain(<<"a", "m">>), nodes)>>) :
        nodes \in Texts({Call(<<"this", "f">>), Call(<<"v", "f">>), Call(<<"this", "v", "f">>)},
                         {Class("C", V("C")), Func("f", None), Func("g", V("C")), Block}, 5)}

TSPaths == {Plain(path) : path \in {<<"m">>, <<"a", "m">>, <<"a", "index">>, <<"a", "b", "m">>,
                                    <<"a", "b", "index">>}}
           \cup {<<<<"a">>, <<"m", "service">>>>}
TSImporters == {Plain(path) : path \in {<<"h">>, <<"a", "h">>, <<"a", "b", "h">>,
                                        <<"a", "b", "index">>}}
               \cup {<<<<"a">>, <<"h", "service">>>>}

(* The elements `.` and `..`, as in TSExtractor. *)
Dot == <<"", "">>
DotDot == <<"", "", "">>

(* Below the file's directory, beside and above it; bare ones. *)
TSSources ==
    {<<Dot>> \o Plain(path) : path \in {<<"m">>, <<"a">>, <<"a", "m">>, <<"b">>, <<"b", "m">>,
                                            <<"">>, <<"b", "">>, <<"b", "index">>}}
    \cup {<<DotDot>> \o Plain(path) : path \in {<<"">>, <<"m">>, <<"b">>, <<"a", "m">>}}
    \cup {<<DotDot, DotDot, <<"m">>>>, <<Dot>>, <<DotDot>>, <<<<"m">>>>}
    \cup {<<Dot, element>> : element \in {<<"m", "ts">>, <<"m", "js">>, <<"m", "service">>}}

TSImports ==
    {TSImport(form, source, name, "x") :
        form \in {"named", "namespace"}, source \in TSSources, name \in {"f", "T"}}
    \cup {TSImport("default", <<Dot, <<"m">>>>, "f", "x")}

TSImporting ==
    {Prog("typescript",
          <<File(q, <<import, Class("C", V("x")), Func("g", V("x")), Call(raw), Attr, End, End>>),
            File(p, <<Func("f", None), End, Class("T", None), Func("f", None), End, End>>)>>) :
        p \in TSPaths, q \in TSImporters,
        import \in TSImports, raw \in {<<"x">>, <<"x", "f">>, <<"v", "f">>, <<"this", "v", "f">>}}

-----------------------------------------------------------------------------
(* Go. *)
Type(p, name) == [pkg |-> p, name |-> name]
GoImport(as, path) == [is |-> "import", as |-> as, path |-> path]
GoFunc(name, params, result) ==
    [is |-> "func", name |-> name, recv |-> {}, params |-> params, result |-> result]
Method(name) ==
    [is |-> "func", name |-> name, recv |-> {[name |-> "v", type |-> "T"]}, params |-> None,
     result |-> {}]
Short(call) == [is |-> "short", name |-> "v", call |-> call]

GoLib(result) == <<Method("M"), Call(<<"v", "N">>), End, Method("N"), End,
                   GoFunc("Make", None, result), End>>

GoBodies == UNION {[1..k -> {Short(<<"Make">>), Short(<<"lib", "Make">>), Short(<<>>),
                             Call(<<"v", "M">>), Call(<<"lib", "Make">>), Call(<<"Make">>)}] :
                   k \in 0..2}

GoImporting ==
    UNION {BothOrders("go", File(<<dir, "l">>, GoLib(result)),
                      File(<<"app", "x">>, import \o <<GoFunc("run", params, {})>> \o body
                                                  \o <<Attr, End>>)) :
        dir \in {"lib", "app"}, result \in {{}, {Type("", "T")}},
        import \in {<<>>, <<GoImport("", <<"m", "lib">>)>>},
        params \in {None, [x \in {"v"} |-> Type("lib", "T")]}, body \in GoBodies}

GoNaming ==
    {[Prog("go", <<File(<<"app", "x">>, <<import, GoFunc("run", None, {Type("lib", "")}),
                                          Call(<<"lib", "Make">>), End>>),
                   File(<<"lib", "l">>, GoLib({Type("lib", "T")}))>>) EXCEPT !.goMods = mods] :
        mods \in {<<<<"m">>>>, <<<<>>, <<"n">>>>, <<<<>>>>},
        import \in {GoImport(as, path) : as \in {"", "lib", "_", "."},
                                         path \in {<<"m", "lib">>, <<"m", "lib", "v2">>, <<"lib">>}}}

-----------------------------------------------------------------------------
(* Comments, among the calls of a function. *)
Comment(text, trailing, rows) ==
    [is |-> "comment", text |-> text, trailing |-> trailing, rows |-> rows]

Words ==
    {<<"ignore", "p">>, <<"ignore", "p", ",", "q">>, <<"ignore", "*">>, <<"ignore-all">>,
     <<"ignore">>, <<"ignore", "p", "because">>, <<"ignore", ",", "q">>, <<"ignore-all", "p">>}
Line(marker, words) == <<marker, "policyguard:">> \o words
BlockText(words) == Line("/*", words) \o <<"*/">>

TextsIn(lang) ==
    IF lang = "python" THEN {Line("#", words) : words \in Words}
         \cup {<<"#">> \o Line("#", <<"ignore", "p">>)}
    ELSE {Line("//", words) : words \in Words} \cup {BlockText(words) : words \in Words}
         \cup {<<"/*", "*">> \o Tail(BlockText(<<"ignore", "p">>)), <<"//", "todo">>, <<"//">>}

CommentsIn(lang) ==
    {Comment(text, trailing, 1) : text \in TextsIn(lang), trailing \in BOOLEAN}
    \cup (IF lang = "python" THEN {}
          ELSE {Comment(BlockText(<<"ignore", "p">>), trailing, 2) : trailing \in BOOLEAN})

Commented(lang, func, call) ==
    LET some == {Comment(Line("#", <<"ignore", "q">>), trailing, 1) : trailing \in BOOLEAN}
        path == IF lang = "typescript" THEN Plain(<<"a", "m">>) ELSE <<"a", "m">>
    IN  {Prog(lang, <<File(path, <<func, call, c>> \o rest \o <<End>>)>>) :
            c \in CommentsIn(lang),
            rest \in {<<call>>, <<call, call>>} \cup {<<call, d, call>> : d \in some}
                     \cup {<<d, call>> : d \in some}}

CommentPrograms ==
    Commented("python", PyDef("f"), Call(<<"f">>))
    \cup Commented("java", Func("n", None), Invoke(<<"v">>))
    \cup Commented("typescript", Func("f", None), Call(<<"v", "f">>))
    \cup Commented("go", GoFunc("f", None, {}), Call(<<"f">>))

MCPrograms == PyNesting \cup PyImporting \cup JavaPrograms \cup TSNesting \cup TSImporting
                \cup GoImporting \cup GoNaming \cup CommentPrograms
=============================================================================
