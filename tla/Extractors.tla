----------------------------- MODULE Extractors -----------------------------
(***************************************************************************)
(* BuildPython, BuildJava, BuildTypeScript and BuildGo, one of which a run *)
(* uses on all its files, as their language says (internal/cli/cli.go,     *)
(* runPipeline).                                                           *)
(***************************************************************************)
EXTENDS Walk

Py   == INSTANCE PyExtractor
Java == INSTANCE JavaExtractor
TS   == INSTANCE TSExtractor
Go   == INSTANCE GoExtractor

(* The programs the parsers hand over: what a node is the end of has been   *)
(* entered, a package declaration comes before all but comments, and a     *)
(* function has one receiver at most.                                      *)
IsList(s) == s \in Seq(Range(s))

IsText(lang, nodes) ==
    /\ IsList(nodes)
    /\ \A i \in DOMAIN nodes :
           /\ nodes[i].is = "end" => Inside(nodes, i) # {}
           /\ nodes[i].is \in {"class", "func"} => nodes[i].name \in STRING
           /\ lang = "java" /\ nodes[i].is = "package" =>
                  nodes[i].path \in Seq(STRING) /\ \A j \in 1..i - 1 : nodes[j].is = "comment"
           /\ lang = "go" /\ nodes[i].is = "func" =>
                  \A r, s \in nodes[i].recv : r = s /\ r.type \in STRING
           /\ nodes[i].is = "comment" =>
                  /\ nodes[i].rows \in Nat \ {0} /\ nodes[i].trailing \in BOOLEAN
                  /\ nodes[i].text \in Seq(STRING) /\ nodes[i].text # <<>>
                  /\ nodes[i].text[1] # "policyguard:"

IsProgram(p) ==
    /\ p.goMods \in Seq(Seq(STRING))
    /\ IsList(p.files) /\ p.files # <<>>
    /\ \A f \in DOMAIN p.files :
           /\ p.files[f].path \in
                  Seq(IF p.lang = "typescript" THEN Seq(STRING) ELSE STRING) \ {<<>>}
           /\ IsText(p.lang, p.files[f].nodes)

ASSUME ProgramsAssumption == \A p \in Programs : IsProgram(p)

Init == Py!Init \/ Java!Init \/ TS!Init \/ Go!Init

Next == \/ program.lang = "python" /\ Py!Next
        \/ program.lang = "java" /\ Java!Next
        \/ program.lang = "typescript" /\ TS!Next
        \/ program.lang = "go" /\ Go!Next

Spec == Init /\ [][Next]_vars

-----------------------------------------------------------------------------
NameOf(f, i) ==
    CASE program.lang = "python"     -> Py!NameOf(f, i)
      [] program.lang = "java"       -> Java!NameOf(f, i)
      [] program.lang = "typescript" -> TS!NameOf(f, i)
      [] program.lang = "go"         -> Go!NameOf(f, i)

(* Every function is registered by the name its place in the text gives    *)
(* it, and every call and read is the function's it is written in, or the  *)
(* module's, through any nesting of classes and functions: reachability    *)
(* is only as good as the edges' sources.                                  *)
GraphInPlace ==
    phase = "done" =>
        /\ \A fqn \in DOMAIN funcs : fqn = NameOf(funcs[fqn].file, funcs[fqn].at)
        /\ \A site \in Range(calls) \cup Range(fields) :
               site.caller = IF FuncAround(site.file, site.at) = {} THEN <<>>
                             ELSE NameOf(site.file, Max(FuncAround(site.file, site.at)))

(* The graph is in place, and the extractor's own state is in order while  *)
(* it comes about: what is restored fits what is around.                   *)
GraphInv == TypeOK /\ GraphInPlace

Once(sites, f, i) == Cardinality({k \in DOMAIN sites : sites[k].file = f /\ sites[k].at = i}) = 1

(* Of the definitions that share a name (overloads, a function defined     *)
(* again) the graph knows the last, and the calls and reads of them all:   *)
(* what is written in one overwritten is neither lost with it nor doubled, *)
(* in either pass and however definitions are nested.                      *)
DefinitionsAddUp ==
    phase = "done" =>
        \A f \in DOMAIN program.files : \A i \in DOMAIN Nodes(f) :
            /\ Nodes(f)[i].is = "func" =>
                   /\ NameOf(f, i) \in DOMAIN funcs
                   /\ LET last == funcs[NameOf(f, i)]
                      IN  f < last.file \/ (f = last.file /\ i <= last.at)
            /\ Nodes(f)[i].is = "call" => Once(calls, f, i)
            /\ Nodes(f)[i].is = "attr" => Once(fields, f, i)

(* A call of a function imported from another file of the project has that *)
(* function for callee, however the files are ordered: in Python by an     *)
(* import relative or absolute, with an alias or not, of the function or   *)
(* of its module; in Go by the package's import; in TypeScript by a        *)
(* relative import that is followed, into a file in its own directory (see *)
(* Followed and InItsDirectory for those that are not).  Otherwise the     *)
(* edge is missing and so is the violation behind it.                      *)
ImportedCallsReach ==
    phase = "done" =>
        /\ program.lang = "python" => Py!ImportedCallsReach
        /\ program.lang = "typescript" =>
               \A f \in DOMAIN program.files : TS!InItsDirectory(f) => TS!ImportsReachFrom(f)
        /\ program.lang = "go" => Go!ImportedCallsReach

(* A method called on a variable whose class the text declares has that    *)
(* class's method for callee: by a local, a parameter, a receiver, a field *)
(* or `this`, and in Go by the result of the function that gave the        *)
(* variable its value, in whatever file that is.  The comments at          *)
(* java.go:28-31 and golang.go:28-30 and 159-160 still call this a         *)
(* limitation.  TypeScript's imports are those of ImportedCallsReach.      *)
ReceiversTyped ==
    phase = "done" =>
        /\ program.lang = "java" => Java!ReceiversTyped
        /\ program.lang = "typescript" => TS!ReceiversTyped
        /\ program.lang = "go" => Go!ReceiversTyped

(* In Java a call on a variable goes to the type the last of its           *)
(* declarations that names one gives it, in this project or in a library:  *)
(* a local of the method, else a parameter, else a field of the class, and *)
(* nothing that another method or a class inside declares.  A `var` is no  *)
(* such declaration: the call goes where an earlier one of the name says.  *)
LastTypeStands ==
    phase = "done" /\ program.lang = "java" => Java!LastTypeStands

(* The documented directives: an opening marker, `policyguard: ignore` and *)
(* the ids with commas between them, or `*`, or `ignore-all`.  An id left  *)
(* out beside a comma does no harm; with another word beside it an id is   *)
(* none.                                                                   *)
Directive(text, id) ==
    LET last == IF Last(text) = "*/" THEN Len(text) - 1 ELSE Len(text)
    IN  /\ last > 2 /\ text[1] \in {"#", "//", "/*"} /\ text[2] = "policyguard:"
        /\ \/ text[3] = "ignore-all" /\ last = 3
           \/ /\ text[3] = "ignore"
              /\ \E k \in 4..last : /\ text[k] \in {id, CatchAll}
                                    /\ k = 4 \/ text[k - 1] = Comma
                                    /\ k = last \/ text[k + 1] = Comma

(* A comment on the line of a node of one row. *)
SharesRow(f, k) == Trailing(f, k) /\ Rows(f, k - 1) = 1

(* A directive silences the policies it names, and no other, for the code  *)
(* on its own line and on the next: a trailing comment the code it stands  *)
(* behind and the line below, a comment of its own the line below.  A      *)
(* comment of several rows reaches only its own second row, and a          *)
(* directive above another one not the code below both.                    *)
DirectivesCover ==
    phase = "done" =>
        \A f \in DOMAIN program.files : \A i \in DOMAIN Nodes(f) \ Comments(f), id \in {"p", "q"} :
            MatchSuppression(f, LineOf(f, i), id) <=>
                \E c \in Comments(f) :
                    /\ Directive(Nodes(f)[c].text, id)
                    /\ IF c > i THEN \A k \in i + 1..c : SharesRow(f, k)
                       ELSE Rows(f, i - 1) = 1 /\ \A k \in c + 1..i - 1 : SharesRow(f, k)

(* Go's second pass finds every function registered and changes none:      *)
(* what a variable is inferred to be does not depend on the order of files. *)
SecondPassOnlyReads ==
    [][program.lang = "go" /\ phase = "walk" => UNCHANGED funcs]_vars

(* "pkgFQN is the dotted directory containing this file", which relative   *)
(* imports start from, in an index.ts as in any other file.                *)
IndexImportsReach ==
    phase = "done" /\ program.lang = "typescript" =>
        \A f \in DOMAIN program.files : TS!IsIndex(f) => TS!ImportsReachFrom(f)
=============================================================================
