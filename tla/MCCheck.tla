------------------------------ MODULE MCCheck ------------------------------
(* Check on families of inputs, each around one good command line, and the *)
(* action on some of them.                                                 *)
EXTENDS GitHubAction

MCId     == {"a", "b", "Bad"}
MCGoodId == {"a", "b"}

One == <<{"calls"}>>

Good(id, langs) ==
    [decodes |-> TRUE, id |-> id, severity |-> "error", languages |-> langs,
     source |-> One, sink |-> One, guard |-> One, message |-> TRUE, fix |-> {}]

GoodFix == [suggestion |-> TRUE, level |-> "", wrap |-> {0}]
A == Good("a", {"python"})
B == Good("b", {"typescript", "python"})
C == Good("b", {"go"})

(* Documents one slip away from a good one. *)
Slips ==
    {[A EXCEPT !.decodes = FALSE], [A EXCEPT !.id = "Bad"], [A EXCEPT !.severity = "other"],
     [A EXCEPT !.languages = {}], [A EXCEPT !.languages = {"python", "other"}],
     [A EXCEPT !.source = <<>>], [A EXCEPT !.sink = <<{}>>],
     [A EXCEPT !.guard = <<{"calls"}, {"calls", "has_decorator"}>>],
     [A EXCEPT !.message = FALSE],
     [A EXCEPT !.fix = {[GoodFix EXCEPT !.suggestion = FALSE]}],
     [A EXCEPT !.fix = {[GoodFix EXCEPT !.level = "other"]}],
     [A EXCEPT !.fix = {[GoodFix EXCEPT !.wrap = {-1}]}]}

Docs == {A, B, C, [A EXCEPT !.fix = {GoodFix}]} \cup Slips

File(doc) == [isDir |-> FALSE, yaml |-> TRUE, doc |-> doc]
UpTo(S, n) == UNION {[1..k -> S] : k \in 0..n}

Hit(id, file, patch) == [policy |-> id, file |-> file, patch |-> patch]
Found(a, b) == [id \in MCGoodId |-> IF id = "a" THEN a ELSE b]

Plain ==
    [command |-> "check", flags |-> TRUE, roots |-> 1, dir |-> TRUE,
     entries |-> <<File(A), File(B)>>, files |-> <<>>, smap |-> {}, lang |-> "python",
     tree |-> <<[ext |-> ".py", readable |-> TRUE], [ext |-> ".py", readable |-> TRUE]>>,
     format |-> "text", apply |-> FALSE,
     found |-> [bridge \in BOOLEAN |->
                   Found(<<Hit("a", 1, TRUE)>>, <<Hit("b", 1, FALSE), Hit("b", 2, TRUE)>>)]]

(* Policies: two entries of the directory and a --policy file. *)
PolicyInputs ==
    {[Plain EXCEPT !.entries = entries, !.files = extra, !.dir = dir] :
        entries \in UpTo({File(doc) : doc \in Docs}
                           \cup {[File(A) EXCEPT !.isDir = TRUE], [File(A) EXCEPT !.yaml = FALSE]}, 2),
        extra \in UpTo({A, B, [A EXCEPT !.message = FALSE]}, 1),
        dir \in BOOLEAN}

(* Sources: trees of two files in three languages. *)
SourceInputs ==
    {[Plain EXCEPT !.lang = lang, !.tree = tree] :
        lang \in {"python", "typescript", "go", "java", "other"},
        tree \in UpTo([ext : Extensions, readable : BOOLEAN], 2)}

(* Service maps: unreadable, empty, broken, and with edges of one end. *)
GoodMap == [opens |-> TRUE, doc |-> "edges", edges |-> <<[from |-> TRUE, to |-> TRUE]>>]

MapInputs ==
    {[Plain EXCEPT !.smap = {map}] :
        map \in [opens : BOOLEAN, doc : {"empty", "edges", "broken"},
                 edges : UpTo([from : BOOLEAN, to : BOOLEAN], 2)]}

(* The other commands, on the same trees. *)
CommandInputs ==
    {[Plain EXCEPT !.command = command, !.roots = roots, !.lang = lang, !.tree = tree] :
        command \in Commands \ {"check"}, roots \in 0..1, lang \in {"python", "other"},
        tree \in UpTo([ext : {".py", "other"}, readable : BOOLEAN], 2)}

(* Reports: findings with and without patches, and the flags. *)
ReportInputs ==
    {[Plain EXCEPT !.flags = flags, !.roots = roots, !.smap = smap, !.format = format,
                   !.apply = apply, !.found = [bridge \in BOOLEAN |->
                                                  IF bridge THEN Found(a, <<Hit("b", 2, TRUE)>>)
                                                  ELSE Found(a, b)]] :
        flags \in BOOLEAN, roots \in 0..2, smap \in {{}, {GoodMap}},
        format \in {"text", "json", "sarif", "markdown", "other"}, apply \in BOOLEAN,
        a \in {<<>>, <<Hit("a", 1, TRUE)>>, <<Hit("a", 2, FALSE)>>},
        b \in {<<>>, <<Hit("b", 1, TRUE), Hit("b", 2, TRUE)>>}}

(* What a pull request may have before: nothing, a person's comment and    *)
(* that of an earlier run behind it, or those of two runs that raced.      *)
Person  == [marked |-> FALSE, body |-> <<>>]
Earlier == [marked |-> TRUE, body |-> <<Results("none", <<>>)>>]

Shell  == [plain |-> TRUE, fail |-> FALSE, comment |-> FALSE, upload |-> FALSE,
           comments |-> <<>>]
MCJobs ==
    {Shell} \cup [plain : {FALSE}, fail : BOOLEAN, comment : BOOLEAN, upload : BOOLEAN,
                  comments : {<<>>, <<Person, Earlier>>, <<Earlier, Person, Earlier>>}]

MCInputs == PolicyInputs \cup SourceInputs \cup ReportInputs \cup MapInputs \cup CommandInputs
=============================================================================
