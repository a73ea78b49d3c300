---------------------------- MODULE Suppressions ----------------------------
(***************************************************************************)
(* The directives that silence a policy in the comments of a source file   *)
(* (internal/callgraph/suppressions.go).  The text of a comment is the     *)
(* sequence of its words, its markers and its commas among them.           *)
(***************************************************************************)
EXTENDS Naturals, SequencesExt

CatchAll == "*"
Comma == ","

(* One opening marker is taken off, and a closing one. *)
Stripped(text) ==
    LET body == IF text # <<>> /\ Head(text) \in {"//", "/*", "#"} THEN Tail(text) ELSE text
    IN  IF body # <<>> /\ Last(body) = "*/" THEN Front(body) ELSE body

(* What stands between the commas, empty parts left out.  A policy's id is *)
(* one word, so a part of several words names no policy.                   *)
SplitCleanCSV(words) ==
    {SubSeq(words, r[1], r[2]) :
        r \in {r \in (DOMAIN words) \X (DOMAIN words) :
                 /\ r[1] <= r[2]
                 /\ \A k \in r[1]..r[2] : words[k] # Comma
                 /\ r[1] = 1 \/ words[r[1] - 1] = Comma
                 /\ r[2] = Len(words) \/ words[r[2] + 1] = Comma}}

(* Mutant of ParseSuppression: the list of ids ends at the first comma. *)
ParseFirstId(text) ==
    LET body == Stripped(text)
    IN  IF Len(body) > 2 /\ body[1] = "policyguard:" /\ body[2] = "ignore" THEN {<<body[3]>>}
        ELSE IF body = <<"policyguard:", "ignore-all">> THEN {<<CatchAll>>}
        ELSE {}

(* The ids a comment names, none when it is no directive. *)
ParseSuppression(text) ==
    LET body      == Stripped(text)
        directive == Tail(body)
    IN  IF body = <<>> \/ Head(body) # "policyguard:" THEN {}
        ELSE IF directive = <<"ignore-all">> THEN {<<CatchAll>>}
        ELSE IF Len(directive) > 1 /\ directive[1] = "ignore" THEN SplitCleanCSV(Tail(directive))
        ELSE {}
=============================================================================
