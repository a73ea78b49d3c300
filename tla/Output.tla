------------------------------- MODULE Output -------------------------------
(***************************************************************************)
(* What the renderers write for a report (internal/output/output.go): a    *)
(* sequence of writes, those of one finding taken together.  The words and *)
(* the layout are left out, and so is the order of the SARIF rules, which  *)
(* a reader looks up by id.                                                *)
(***************************************************************************)
EXTENDS Naturals, SequencesExt, Lists

Results(is, findings) == [is |-> is, findings |-> findings, rules |-> <<>>]

Each(findings) == [i \in DOMAIN findings |-> Results("finding", <<findings[i]>>)]

(* Text ends with the number of findings, markdown begins with it. *)
renderText(findings) ==
    IF findings = <<>> THEN <<Results("none", <<>>)>>
    ELSE Append(Each(findings), Results("count", <<>>))

renderMarkdown(findings) ==
    IF findings = <<>> THEN <<Results("none", <<>>)>>
    ELSE <<Results("count", <<>>)>> \o Each(findings)

renderJSON(findings) == <<Results("document", findings)>>

(* Mutant of buildSARIFRules: a rule for each finding, not for its policy. *)
rulePerFinding(policies, findings) == [i \in DOMAIN findings |-> findings[i].policy]

(* The ids of the policies, and of findings of others, each once. *)
buildSARIFRules(policies, findings) ==
    LET ids == [i \in DOMAIN policies |-> policies[i].id]
               \o [i \in DOMAIN findings |-> findings[i].policy]
    IN  SelectAt(ids, FirstPlaces(ids))

renderSARIF(findings, policies) ==
    <<[Results("document", findings) EXCEPT !.rules = buildSARIFRules(policies, findings)]>>

(* An unknown format is an error: nothing is written. *)
Writes(format, findings, policies) ==
    CASE format = "text"     -> renderText(findings)
      [] format = "markdown" -> renderMarkdown(findings)
      [] format = "json"     -> renderJSON(findings)
      [] format = "sarif"    -> renderSARIF(findings, policies)
      [] OTHER               -> <<>>

(* The findings a reader of these writes sees. *)
Shown(writes) == FlattenSeq([i \in DOMAIN writes |-> writes[i].findings])
=============================================================================
