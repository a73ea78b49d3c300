------------------------------- MODULE Check -------------------------------
(***************************************************************************)
(* One policyguard command (internal/cli/cli.go), `check` above all, from  *)
(* its arguments to its exit code, and the editor's counterpart of `check` *)
(* (internal/lsp/server.go, defaultAnalyzer).                              *)
(*                                                                         *)
(* The engine is an oracle here: each policy has a sequence of findings,   *)
(* of which those whose file has been parsed are reported.  Module Engine  *)
(* models it.  What --apply does to files is in module ApplyPatches.       *)
(***************************************************************************)
EXTENDS PolicyFile, Output

CONSTANTS Inputs     \* the command lines and directories explored

Extensions == {".py", ".ts", ".tsx", ".go", ".java", "other"}
Entry      == [isDir : BOOLEAN, yaml : BOOLEAN, doc : Document]
SourceFile == [ext : Extensions, readable : BOOLEAN]
Finding    == [policy : GoodId, file : Nat, patch : BOOLEAN]

Commands   == {"check", "callgraph", "parse", "version", "help", "none", "unknown"}
Edge       == [from : BOOLEAN, to : BOOLEAN]           \* what is not empty
MapFile    == [opens : BOOLEAN, doc : {"empty", "edges", "broken"}, edges : Seq(Edge)]

Input ==
    [command : Commands,
     flags   : BOOLEAN,            \* the flags parse
     roots   : Nat,                \* how many directories are named
     dir     : BOOLEAN,            \* --policies is given
     entries : Seq(Entry),         \* that directory, in the order of names
     files   : Seq(Document),      \* the --policy files, in order
     smap    : SUBSET MapFile,     \* the service map, at most one
     lang    : Languages \cup {"other"},
     tree    : Seq(SourceFile),    \* the source directory, as walked
     format  : {"text", "json", "sarif", "markdown", "other"},
     apply   : BOOLEAN,
     found   : [BOOLEAN -> [GoodId -> Seq(Finding)]]]  \* with and without the map

(* A finding is stamped with the policy it was found for. *)
Stamped(found) ==
    \A bridge \in BOOLEAN, id \in GoodId :
        \A i \in DOMAIN found[bridge][id] : found[bridge][id][i].policy = id

ASSUME InputsAssumption == Inputs \subseteq Input
ASSUME FoundAssumption == \A input \in Inputs : Stamped(input.found)

(* What is written at a time, and the findings and the rules in it. *)
Piece == [is : {"none", "count", "finding", "document", "graph", "root", "summary"},
          findings : Seq(Finding), rules : Seq(GoodId)]

VARIABLES
    in,          \* the inputs, read only
    pc,          \* the stage under way
    todo,        \* the documents or policies that stage has still to see
    policies,    \* the policies loaded
    at,          \* the place of the next source file of the walk
    files,       \* the places of those parsed
    bridged,     \* the service map has been applied
    findings,    \* the findings so far
    stdout,      \* what has been written to stdout
    rendered,    \* the report has been written
    code         \* the exit code; -1 while the command runs

vars == <<in, pc, todo, policies, at, files, bridged, findings, stdout, rendered, code>>

TypeOK ==
    /\ in \in Input
    /\ pc \in {"start", "readdir", "loaddir", "loadfiles", "map", "walk", "build",
               "analyze", "render", "apply", "parse", "exited"}
    /\ todo \in Seq(Document)
    /\ policies \in Seq(Policy)
    /\ at \in Nat
    /\ files \subseteq Nat
    /\ bridged \in BOOLEAN
    /\ findings \in Seq(Finding)
    /\ stdout \in Seq(Piece)
    /\ rendered \in BOOLEAN
    /\ code \in {-1, 0, 1, 2}

Init ==
    /\ in \in Inputs
    /\ pc = "start"
    /\ todo = <<>>
    /\ policies = <<>>
    /\ at = 1
    /\ files = {}
    /\ bridged = FALSE
    /\ findings = <<>>
    /\ stdout = <<>>
    /\ rendered = FALSE
    /\ code = -1

Exit(c) == pc' = "exited" /\ code' = c

-----------------------------------------------------------------------------
(* Flags and policies. *)

Misused ==
    \/ ~in.flags
    \/ in.command = "parse" /\ in.tree = <<>>
    \/ in.command # "parse" /\ in.roots # 1
    \/ in.command = "check" /\ ~in.dir /\ in.files = <<>>

(* Run: the commands that need nothing, and mistyped ones. *)
StartOther ==
    /\ pc = "start"
    /\ in.command \in {"version", "help", "none", "unknown"}
    /\ Exit(IF in.command \in {"version", "help"} THEN 0 ELSE 2)
    /\ UNCHANGED <<in, todo, policies, at, files, bridged, findings, stdout, rendered>>

Start ==
    /\ pc = "start"
    /\ in.command \in {"check", "callgraph", "parse"}
    /\ IF Misused THEN Exit(2)
       ELSE /\ pc' = CASE in.command = "callgraph" -> "walk"
                        [] in.command = "parse" -> "parse"
                        [] OTHER -> IF in.dir THEN "readdir" ELSE "loadfiles"
            /\ UNCHANGED code
    /\ todo' = IF in.dir THEN <<>> ELSE in.files
    /\ UNCHANGED <<in, policies, at, files, bridged, findings, stdout, rendered>>

(* The documents of the directory's YAML files, subdirectories aside. *)
Listed ==
    LET taken == SelectAt(in.entries,
                          {i \in DOMAIN in.entries : ~in.entries[i].isDir /\ in.entries[i].yaml})
    IN  [i \in DOMAIN taken |-> taken[i].doc]

ReadDir ==
    /\ pc = "readdir"
    /\ \/ Exit(2) /\ UNCHANGED todo
       \/ pc' = "loaddir" /\ todo' = Listed /\ UNCHANGED code
    /\ UNCHANGED <<in, policies, at, files, bridged, findings, stdout, rendered>>

Loading == pc \in {"loaddir", "loadfiles"}
Ids == {policies[i].id : i \in DOMAIN policies}

(* Mutant of LoadPolicy: nobody looks for the id among those loaded. *)
LoadAnyPolicy ==
    /\ Loading /\ todo # <<>>
    /\ Parses(Head(todo))
    /\ policies' = Append(policies, Parse(Head(todo)))
    /\ todo' = Tail(todo)
    /\ UNCHANGED <<in, pc, at, files, bridged, findings, stdout, rendered, code>>

(* One iteration of LoadDir's loop, or of loadPolicies' over the flags. *)
LoadPolicy ==
    /\ Loading /\ todo # <<>>
    /\ Parses(Head(todo)) /\ Head(todo).id \notin Ids
    /\ policies' = Append(policies, Parse(Head(todo)))
    /\ todo' = Tail(todo)
    /\ UNCHANGED <<in, pc, at, files, bridged, findings, stdout, rendered, code>>

(* Mutant of RefusePolicy: a bad document is passed over. *)
PassPolicyOver ==
    /\ Loading /\ todo # <<>>
    /\ ~(Parses(Head(todo)) /\ Head(todo).id \notin Ids)
    /\ todo' = Tail(todo)
    /\ UNCHANGED <<in, pc, policies, at, files, bridged, findings, stdout, rendered, code>>

(* A document that does not parse, that repeats an id, or that cannot be   *)
(* read, ends the command.                                                 *)
RefusePolicy ==
    /\ Loading /\ todo # <<>>
    /\ Exit(2)
    /\ UNCHANGED <<in, todo, policies, at, files, bridged, findings, stdout, rendered>>

EndPolicies ==
    /\ Loading /\ todo = <<>>
    /\ IF pc = "loaddir" THEN pc' = "loadfiles" /\ todo' = in.files /\ UNCHANGED code
       ELSE /\ IF policies = <<>> THEN Exit(2) ELSE pc' = "map" /\ UNCHANGED code
            /\ UNCHANGED todo
    /\ UNCHANGED <<in, policies, at, files, bridged, findings, stdout, rendered>>

(* servicemap.Load: an empty file is a map without edges; an edge names    *)
(* both its ends.                                                          *)
Loads(map) ==
    /\ map.opens
    /\ \/ map.doc = "empty"
       \/ map.doc = "edges" /\ \A i \in DOMAIN map.edges : map.edges[i].from /\ map.edges[i].to

LoadServiceMap ==
    /\ pc = "map"
    /\ IF \A map \in in.smap : Loads(map) THEN pc' = "walk" /\ UNCHANGED code ELSE Exit(2)
    /\ UNCHANGED <<in, todo, policies, at, files, bridged, findings, stdout, rendered>>

-----------------------------------------------------------------------------
(* Sources. *)

extForLang(lang) ==
    CASE lang = "python"     -> {".py"}
      [] lang = "typescript" -> {".ts", ".tsx"}
      [] lang = "go"         -> {".go"}
      [] lang = "java"       -> {".java"}
      [] OTHER               -> {}

UnknownLanguage ==
    /\ pc = "walk" /\ extForLang(in.lang) = {}
    /\ Exit(1)
    /\ UNCHANGED <<in, todo, policies, at, files, bridged, findings, stdout, rendered>>

Visiting == pc = "walk" /\ extForLang(in.lang) # {} /\ at <= Len(in.tree)
Matching == in.tree[at].ext \in extForLang(in.lang)

SkipFile ==
    /\ Visiting /\ ~Matching
    /\ at' = at + 1
    /\ UNCHANGED <<in, pc, todo, policies, files, bridged, findings, stdout, rendered, code>>

ParseFile ==
    /\ Visiting /\ Matching
    /\ in.tree[at].readable
    /\ files' = files \cup {at}
    /\ at' = at + 1
    /\ UNCHANGED <<in, pc, todo, policies, bridged, findings, stdout, rendered, code>>

(* A file that cannot be read or parsed, or a walk that fails. *)
FailToParse ==
    /\ Visiting \/ (pc = "parse" /\ at <= Len(in.tree))
    /\ Exit(1)
    /\ UNCHANGED <<in, todo, policies, at, files, bridged, findings, stdout, rendered>>

EndWalk ==
    /\ pc = "walk" /\ extForLang(in.lang) # {} /\ at > Len(in.tree)
    /\ IF files = {} THEN Exit(1) ELSE pc' = "build" /\ UNCHANGED code
    /\ UNCHANGED <<in, todo, policies, at, files, bridged, findings, stdout, rendered>>

(* `callgraph` prints the graph of the files. *)
dumpGraph ==
    /\ pc = "build"
    /\ in.command = "callgraph"
    /\ stdout' = <<Results("graph", <<>>)>>
    /\ Exit(0)
    /\ UNCHANGED <<in, todo, policies, at, files, bridged, findings, rendered>>

(* `parse` prints a line for each file named, up to the first that fails.  *)
ParseNamed ==
    /\ pc = "parse"
    /\ at <= Len(in.tree)
    /\ in.tree[at].readable /\ in.lang \in Languages
    /\ stdout' = Append(stdout, Results("root", <<>>))
    /\ at' = at + 1
    /\ UNCHANGED <<in, pc, todo, policies, files, bridged, findings, rendered, code>>

EndParse ==
    /\ pc = "parse"
    /\ at > Len(in.tree)
    /\ Exit(0)
    /\ UNCHANGED <<in, todo, policies, at, files, bridged, findings, stdout, rendered>>

(* The graph is built and the service map, if any, applied to it. *)
BuildGraph ==
    /\ pc = "build"
    /\ in.command = "check"
    /\ bridged' = \E map \in in.smap : map.doc = "edges" /\ map.edges # <<>>
    /\ todo' = policies
    /\ pc' = "analyze"
    /\ UNCHANGED <<in, policies, at, files, findings, stdout, rendered, code>>

-----------------------------------------------------------------------------
(* Findings, report, exit. *)

policyAppliesToLang(policy) == in.lang \in policy.languages

(* engine.Analyze on the graph of the files parsed. *)
Analyze(parsed, bridge, policy) ==
    LET found == in.found[bridge][policy.id]
    IN  SelectAt(found, {i \in DOMAIN found : found[i].file \in parsed})

AnalyzePolicy ==
    /\ pc = "analyze" /\ todo # <<>>
    /\ findings' = IF policyAppliesToLang(Head(todo))
                   THEN findings \o Analyze(files, bridged, Head(todo))
                   ELSE findings
    /\ todo' = Tail(todo)
    /\ UNCHANGED <<in, pc, policies, at, files, bridged, stdout, rendered, code>>

EndAnalyze ==
    /\ pc = "analyze" /\ todo = <<>>
    /\ pc' = "render"
    /\ UNCHANGED <<in, todo, policies, at, files, bridged, findings, stdout, rendered, code>>

(* The report is given the policies that apply. *)
Checked == SelectAt(policies, {i \in DOMAIN policies : policyAppliesToLang(policies[i])})
Report == Writes(in.format, findings, Checked)
Rendering == pc = "render" /\ Len(stdout) < Len(Report)

(* The renderer writes piece by piece. *)
WriteReport ==
    /\ Rendering
    /\ stdout' = Append(stdout, Report[Len(stdout) + 1])
    /\ UNCHANGED <<in, pc, todo, policies, at, files, bridged, findings, rendered, code>>

(* The format is looked at only here; writing may fail. *)
FailToRender ==
    /\ Rendering \/ (pc = "render" /\ in.format = "other")
    /\ Exit(2)
    /\ UNCHANGED <<in, todo, policies, at, files, bridged, findings, stdout, rendered>>

(* Mutants of Render: the code is that of a report without findings, and   *)
(* a write that failed is not noticed.                                     *)
RenderAndExit ==
    /\ pc = "render" /\ in.format # "other" /\ ~Rendering
    /\ rendered' = TRUE
    /\ IF in.apply THEN pc' = "apply" /\ UNCHANGED code ELSE Exit(0)
    /\ UNCHANGED <<in, todo, policies, at, files, bridged, findings, stdout>>

RenderUnnoticed ==
    /\ pc = "render" /\ in.format # "other"
    /\ rendered' = TRUE
    /\ IF in.apply THEN pc' = "apply" /\ UNCHANGED code
       ELSE Exit(IF findings = <<>> THEN 0 ELSE 1)
    /\ UNCHANGED <<in, todo, policies, at, files, bridged, findings, stdout>>

Render ==
    /\ pc = "render" /\ in.format # "other" /\ ~Rendering
    /\ rendered' = TRUE
    /\ IF in.apply THEN pc' = "apply" /\ UNCHANGED code
       ELSE Exit(IF findings = <<>> THEN 0 ELSE 1)
    /\ UNCHANGED <<in, todo, policies, at, files, bridged, findings, stdout>>

(* applyPatches: 1 when a finding has no patch or a file fails.  Its       *)
(* summary follows the report, whatever the format.                        *)
ApplyPatches ==
    /\ pc = "apply"
    /\ stdout' = Append(stdout, Results("summary", <<>>))
    /\ \/ Exit(1) /\ findings # <<>>
       \/ Exit(0) /\ \A i \in DOMAIN findings : findings[i].patch
    /\ UNCHANGED <<in, todo, policies, at, files, bridged, findings, rendered>>

Next ==
    \/ StartOther \/ Start \/ ReadDir \/ LoadPolicy \/ RefusePolicy \/ EndPolicies
    \/ LoadServiceMap
    \/ UnknownLanguage \/ SkipFile \/ ParseFile \/ FailToParse \/ EndWalk \/ BuildGraph
    \/ dumpGraph \/ ParseNamed \/ EndParse
    \/ AnalyzePolicy \/ EndAnalyze \/ WriteReport \/ FailToRender \/ Render \/ ApplyPatches

Spec == Init /\ [][Next]_vars

-----------------------------------------------------------------------------
(* The editor's analysis of the same directories: defaultAnalyzer.Run. *)
(* Mutant of editorExts: JSX sources are forgotten. *)
editorExtsNoJSX(lang) ==
    CASE lang = "python"     -> {".py"}
      [] lang = "typescript" -> {".ts"}
      [] lang = "go"         -> {".go"}
      [] lang = "java"       -> {".java"}
      [] OTHER               -> {}

editorExts(lang) ==
    CASE lang = "python"     -> {".py"}
      [] lang = "typescript" -> {".ts", ".tsx"}
      [] lang = "go"         -> {".go"}
      [] lang = "java"       -> {".java"}
      [] OTHER               -> {}

EditorFiles == {i \in DOMAIN in.tree : in.tree[i].ext \in editorExts(in.lang)}

(* LoadDir succeeds, every source parses and the language has a front end. *)
EditorSucceeds ==
    /\ \A i \in DOMAIN Listed : Parses(Listed[i])
    /\ \A i, j \in DOMAIN Listed : Listed[i].id = Listed[j].id => i = j
    /\ \A i \in EditorFiles : in.tree[i].readable
    /\ in.lang \in Languages

EditorFindings ==
    FlattenSeq([i \in DOMAIN Listed |->
                   IF in.lang \in Listed[i].languages
                   THEN Analyze(EditorFiles, FALSE, Parse(Listed[i]))
                   ELSE <<>>])

-----------------------------------------------------------------------------
(* No two policies of a run have the same id, wherever they come from:     *)
(* findings, directives and SARIF rules are told apart by it.              *)
UniqueIds == \A i, j \in DOMAIN policies : policies[i].id = policies[j].id => i = j

(* A report is of everything or not written at all: every document named,  *)
(* in order, every edge of the service map, and every source file of the   *)
(* language, of which there is one.                                        *)
AllOrNothing ==
    rendered =>
        LET named == (IF in.dir THEN Listed ELSE <<>>) \o in.files
            sources == {i \in DOMAIN in.tree : in.tree[i].ext \in extForLang(in.lang)}
        IN  /\ policies = [i \in DOMAIN named |-> Parse(named[i])]
            /\ \A map \in in.smap : Loads(map)
            /\ files = sources /\ sources # {}
            /\ \A i \in sources : in.tree[i].readable

(* Continuous integration goes by the exit code: success means a report    *)
(* without findings, or one every finding of which was patched; a          *)
(* configuration error means no complete report; a report of findings      *)
(* never ends in success unless files were to be patched.                  *)
ExitTells ==
    pc = "exited" /\ in.command = "check" =>
        /\ code = 0 => rendered /\ \A i \in DOMAIN findings : in.apply /\ findings[i].patch
        /\ code = 1 /\ rendered => findings # <<>>
        /\ code = 2 => ~rendered

(* Who reads stdout after exit code 0 or 1 of a report reads every finding *)
(* once, in order, and a failed write is never taken for a short report.   *)
(* A program reads one document and nothing else, except after --apply,    *)
(* whose summary comes behind it.                                          *)
ReportReadable ==
    pc = "exited" =>
        /\ rendered => Shown(stdout) = findings
        /\ rendered /\ in.format \in {"json", "sarif"} /\ ~in.apply => Len(stdout) = 1

(* Each result of a SARIF log has exactly one rule, and a policy that was  *)
(* checked has one whether it found anything or not: code scanning closes  *)
(* an alert only when it sees its rule run.                                *)
RulesResolve ==
    rendered /\ in.format = "sarif" =>
        LET rules == stdout[1].rules
        IN  /\ IsInjective(rules)
            /\ {f.policy : f \in Range(findings)} \subseteq Range(rules)
            /\ Range(rules) = {q.id : q \in {q \in Range(policies) : in.lang \in q.languages}}

(* The editor, whose loader and language tables are copies of the          *)
(* command's, shows what the command reports from the same directories.    *)
EditorAgrees ==
    rendered /\ in.dir /\ in.files = <<>> /\ ~bridged =>
        EditorSucceeds /\ EditorFindings = findings

=============================================================================
