----------------------------- MODULE PolicyFile -----------------------------
(***************************************************************************)
(* What the policy loader accepts (internal/policy/policy.go).             *)
(*                                                                         *)
(* A document is the record of a YAML file's fields; "" stands for a       *)
(* string left out and {} for a fix or an index left out.  A predicate is  *)
(* the set of matcher kinds it sets.                                       *)
(***************************************************************************)
EXTENDS Integers, Sequences

CONSTANTS
    Id,         \* policy ids, those the id pattern refuses included
    GoodId      \* the ids it accepts

ASSUME GoodIdAssumption == GoodId \subseteq Id

Severities == {"error", "warning", "info"}
Languages  == {"python", "typescript", "go", "java"}
Kinds      == {"calls", "has_decorator", "field_access"}
Levels     == {"cosmetic", "idiomatic", "semantic"}

Predicate == SUBSET Kinds
Fix == [suggestion : BOOLEAN, level : Levels \cup {"", "other"}, wrap : SUBSET Int]

Document ==
    [decodes   : BOOLEAN,      \* the strict YAML decoder takes it
     id        : Id,
     severity  : Severities \cup {"", "other"},
     languages : SUBSET (Languages \cup {"other"}),
     source    : Seq(Predicate),
     sink      : Seq(Predicate),
     guard     : Seq(Predicate),
     message   : BOOLEAN,      \* it is not empty
     fix       : SUBSET Fix]   \* at most one

-----------------------------------------------------------------------------
validateMatcher(m) ==
    /\ m # <<>>
    /\ \A i \in DOMAIN m : \E kind \in Kinds : m[i] = {kind}

validateFix(fix) ==
    /\ fix.suggestion
    /\ fix.level \in Levels \cup {""}
    /\ \A index \in fix.wrap : index >= 0

Validate(d) ==
    /\ d.id \in GoodId
    /\ d.severity \in Severities
    /\ d.languages # {} /\ d.languages \subseteq Languages
    /\ validateMatcher(d.source)
    /\ validateMatcher(d.sink)
    /\ validateMatcher(d.guard)
    /\ d.message
    /\ \A fix \in d.fix : validateFix(fix)

(* Parse fails, or returns the policy with the level of its fix filled in. *)
Parses(d) == d.decodes /\ Validate(d)

(* Mutant of Parse: the level stays as written. *)
ParseAsWritten(d) == d

Parse(d) ==
    [d EXCEPT !.fix = {IF fix.level = "" THEN [fix EXCEPT !.level = "idiomatic"] ELSE fix :
                           fix \in d.fix}]

(* What the engine is given. *)
Policy == {d \in Document : Parses(d) /\ \A fix \in d.fix : fix.level \in Levels}
=============================================================================
