-------------------------------- MODULE Fix --------------------------------
(***************************************************************************)
(* From a finding to the rewritten file: the structured patch the engine   *)
(* makes from a policy's fix (internal/engine/engine.go, renderFix and     *)
(* buildWrapPatch), handed to `check --apply`.                             *)
(*                                                                         *)
(* A source is the flat sequence the parser sees, one element a token, NL  *)
(* the line feed; a node is its half-open interval [from, to) of it.  A    *)
(* call's argument list is the sequence of its named children.             *)
(***************************************************************************)
EXTENDS ApplyPatches, SequencesExt, FiniteSetsExt, Lists

CONSTANTS
    Tokens,     \* the tokens
    NL,         \* the line feed among them
    Source,     \* file |-> its tokens when the report was made
    Reports,    \* sequences of findings [policy, sink]
    NoCall,     \* a sink that is a field access or has no argument list
    Wildcards,  \* the guards that are patterns and no call's name
    NoWrap      \* a policy's fix without wrap_argument, or no fix

Argument == [kind : {"positional", "keyword", "comment"}, from : Nat, to : Nat]

ASSUME TextsAssumption == Texts \subseteq Seq(Tokens)
(* A node is in its source. *)
ASSUME ArgumentsAssumption ==
    \A report \in Reports : \A i \in DOMAIN report :
        LET sink == report[i].sink
        IN  sink.args # NoCall =>
                /\ sink.args \in Seq(Argument)
                /\ \A k \in DOMAIN sink.args :
                       /\ sink.args[k].from \in 1..sink.args[k].to
                       /\ sink.args[k].to <= Len(Source[sink.path]) + 1

Row(src, at) == Cardinality({k \in 1..(at - 1) : src[k] = NL}) + 1
LineStart(src, at) == Max({0} \cup {k \in 1..(at - 1) : src[k] = NL}) + 1
Column(src, at) == at - LineStart(src, at)

(* strings.Split of the source and lineAt agree on what line l is. *)
LineAt(src, line) == SelectAt(src, {k \in DOMAIN src : src[k] # NL /\ Row(src, k) = line})

Lines(src) == [l \in 1..Row(src, Len(src) + 1) |-> LineAt(src, l)]

(* Mutant of NthPositionalArg: keyword arguments are counted. *)
NthArg(args, index) == IF index + 1 \in DOMAIN args THEN {args[index + 1]} ELSE {}

(* The argument the policy's index names, if there is one.  Everything     *)
(* that is not a keyword argument counts, a comment too.                   *)
NthPositionalArg(args, index) ==
    LET counted == SelectAt(args, {k \in DOMAIN args : args[k].kind # "keyword"})
    IN  IF index + 1 \in DOMAIN counted THEN {counted[index + 1]} ELSE {}

(* The first `calls` predicate of the guard; decorators cannot wrap. *)
FirstGuardCall(guard) ==
    LET calls == SelectSeq(guard, LAMBDA pred : pred.kind = "calls")
    IN  IF calls = <<>> THEN {} ELSE {calls[1].value}

(* The line of the argument, with the argument replaced in it. *)
WrapPatch(path, arg, guard) ==
    LET src  == Source[path]
        old  == LineAt(src, Row(src, arg.from))
        col  == Column(src, arg.from)
        size == arg.to - arg.from
    IN  [path |-> path, line |-> Row(src, arg.from), old |-> old,
         new  |-> SubSeq(old, 1, col) \o <<guard, "(">>
                  \o SubSeq(src, arg.from, arg.to - 1) \o <<")">>
                  \o SubSeq(old, col + size + 1, Len(old))]

(* What the finding's fix asks to wrap, and with which guard. *)
Wrapping(finding) ==
    IF finding.sink.args = NoCall \/ finding.policy.wrap = NoWrap
    THEN {}
    ELSE {w \in NthPositionalArg(finding.sink.args, finding.policy.wrap)
                  \X FirstGuardCall(finding.policy.guard) :
             /\ w[1].from < w[1].to
             /\ Row(Source[finding.sink.path], w[1].from) = Row(Source[finding.sink.path], w[1].to)}

(* buildWrapPatch: no patch for a sink that is no call, an index out of    *)
(* range, a guard without a call, or an argument that is empty, as the     *)
(* parser leaves where one is missing, or of several lines.                *)
RenderFix(finding) ==
    IF Wrapping(finding) = {}
    THEN NoPatch
    ELSE LET w == CHOOSE w \in Wrapping(finding) : TRUE
         IN  WrapPatch(finding.sink.path, w[1], w[2])

Rendered(report) == [i \in DOMAIN report |-> RenderFix(report[i])]

ASSUME SourceAssumption ==
    /\ NL \in Tokens /\ Source \in [Files -> Seq(Tokens)]
    /\ \A f \in Files : Snapshot[f] = Lines(Source[f])
ASSUME ReportsAssumption == Findings = {Rendered(report) : report \in Reports}

-----------------------------------------------------------------------------
(* The call's arguments as the policy's author counts them. *)
IntendedArg(args, index) ==
    SelectAt(args, {k \in DOMAIN args : args[k].kind = "positional"})[index + 1]

HasComment(args) == \E i \in DOMAIN args : args[i].kind = "comment"

(* The source with guard(...) around one argument of it: tokens inserted   *)
(* at two offsets, whatever the lines.                                     *)
Wrapped(src, arg, guard) ==
    SubSeq(src, 1, arg.from - 1) \o <<guard, "(">>
    \o SubSeq(src, arg.from, arg.to - 1) \o <<")">> \o SubSeq(src, arg.to, Len(src))

Joined(text) == Tail(FlattenSeq([l \in DOMAIN text |-> <<NL>> \o text[l]]))

Clean == pc = "done" /\ ~failed /\ edits = 0

(* A file with one finding is rewritten into the same program with the     *)
(* guard around just the argument the policy names, wherever its call's    *)
(* lines begin and end; nothing else in it moves.                          *)
FixWrapsTheArgument ==
    Clean => \A report \in Reports : \A i \in DOMAIN report :
        LET finding == report[i]
            path    == finding.sink.path
        IN  /\ findings = Rendered(report)
            /\ PatchesOf(path) = {i}
            /\ ~HasComment(finding.sink.args)
            => Joined(disk[path]) =
                   Wrapped(Source[path],
                           IntendedArg(finding.sink.args, finding.policy.wrap),
                           CHOOSE g \in FirstGuardCall(finding.policy.guard) : TRUE)

(* After exit code 0 a second check is quiet: each finding's sink now has  *)
(* its guard called in its arguments.  Two things the command does not     *)
(* tell: a patch that lost its line to another, and a guard that is a      *)
(* wildcard, which the patch inserts as it stands.                         *)
ZeroMeansGuarded ==
    Clean /\ code = 0 => \A report \in Reports :
        findings = Rendered(report) =>
            \A i \in DOMAIN report :
                LET path == report[i].sink.path
                IN  /\ findings[i] # NoPatch
                    /\ \/ \E j \in PatchesOf(path) :
                              findings[j].line = findings[i].line /\ findings[j] # findings[i]
                       \/ \E g \in FirstGuardCall(report[i].policy.guard) :
                              \/ g \in Wildcards
                              \/ LET text == disk[path][findings[i].line]
                                 IN  \E k \in 1..Len(text) - 1 :
                                         text[k] = g /\ text[k + 1] = "("
=============================================================================
