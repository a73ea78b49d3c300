---------------------------- MODULE CheckProofs ----------------------------
(* The command and the action's job around it, for all inputs: policies    *)
(* have ids of their own, exit codes tell what was reported, a report is   *)
(* complete and readable and is what the editor shows, a green job is a    *)
(* clean one, and the pull request has one comment.                        *)
EXTENDS GitHubAction, Lemmas, FiniteSetTheorems

(* The policies loaded are a sequence, with one policy for each id. *)
LoadedInv ==
    /\ policies \in Seq(Range(policies))
    /\ UniqueIds

LEMMA InitLoaded == Init => LoadedInv
BY EmptySeq DEF Init, LoadedInv, UniqueIds

LEMMA LoadPolicyLoaded ==
    ASSUME LoadedInv, LoadPolicy
    PROVE  LoadedInv'
<1> DEFINE new == Parse(Head(todo))
           S == Range(policies) \cup {new}
<1>1. policies' = Append(policies, new) /\ new.id \notin Ids
  <2>1. policies' = Append(policies, new) /\ Head(todo).id \notin Ids
    BY DEF LoadPolicy
  <2>2. Parses(Head(todo))
    BY DEF LoadPolicy
  <2>3. new.id = Head(todo).id
    BY DEF Parse
  <2> QED BY <2>1, <2>3
<1>2. policies \in Seq(S)
  <2>1. policies \in Seq(Range(policies))
    BY DEF LoadedInv
  <2> HIDE DEF S
  <2>2. Range(policies) \subseteq S
    BY DEF S
  <2> QED BY <2>1, <2>2
<1> HIDE DEF new
<1>3. /\ policies' \in Seq(S)
      /\ Range(policies') = S
      /\ Len(policies') = Len(policies) + 1
      /\ \A i \in 1..Len(policies) : policies'[i] = policies[i]
      /\ policies'[Len(policies) + 1] = new
  BY <1>1, <1>2, AppendProperties, PushProperties
<1>4. /\ Len(policies) \in Nat
      /\ DOMAIN policies = 1..Len(policies)
      /\ DOMAIN policies' = 1..Len(policies) + 1
  BY <1>2, <1>3, LenProperties
<1>5. UniqueIds'
  <2> SUFFICES ASSUME NEW i \in DOMAIN policies', NEW j \in DOMAIN policies',
                      policies'[i].id = policies'[j].id
               PROVE  i = j
    BY DEF UniqueIds
  <2>1. \A k \in 1..Len(policies) : policies[k].id # new.id
    BY <1>1, <1>4 DEF Ids
  <2>2. i \in 1..Len(policies) /\ j \in 1..Len(policies) => i = j
    BY <1>3, <1>4 DEF LoadedInv, UniqueIds
  <2> QED BY <1>3, <1>4, <2>1, <2>2
<1> QED BY <1>3, <1>5 DEF LoadedInv

(* No other step changes the policies loaded. *)
LEMMA NextLoaded == LoadedInv /\ [Next]_vars => LoadedInv'
<1> SUFFICES ASSUME LoadedInv, [Next]_vars PROVE LoadedInv'
  OBVIOUS
<1>1. CASE LoadPolicy
  BY <1>1, LoadPolicyLoaded
<1>2. CASE ~LoadPolicy
  <2>1. policies' = policies
    BY <1>2 DEF Next, vars, StartOther, Start, ReadDir, RefusePolicy, EndPolicies, LoadServiceMap,
                UnknownLanguage, SkipFile, ParseFile, FailToParse, EndWalk, BuildGraph,
                dumpGraph, ParseNamed, EndParse, AnalyzePolicy, EndAnalyze, WriteReport,
                FailToRender, Render, ApplyPatches
  <2> QED BY <2>1 DEF LoadedInv, UniqueIds
<1> QED BY <1>1, <1>2

(* Whatever the directory and the flags name, twice or not, the policies   *)
(* of a run have different ids.                                            *)
THEOREM PoliciesDiffer == Spec => []UniqueIds
<1>1. LoadedInv => UniqueIds
  BY DEF LoadedInv
<1> QED BY <1>1, InitLoaded, NextLoaded, PTL DEF Spec

(* What ExitTells rests on: a report is the last thing but for --apply,    *)
(* and the stages of one command are not reached by another.               *)
ExitInv ==
    /\ rendered => pc \in {"apply", "exited"}
    /\ pc = "apply" => rendered /\ in.apply
    /\ pc = "parse" => in.command = "parse"
    /\ ExitTells

LEMMA InitExit == Init => ExitInv
BY DEF Init, ExitInv, ExitTells

(* The steps before the report neither end the command nor write it. *)
Proceeds ==
    \/ LoadPolicy \/ SkipFile \/ ParseFile \/ BuildGraph \/ ParseNamed
    \/ AnalyzePolicy \/ EndAnalyze \/ WriteReport

LEMMA ProceedsExit == ASSUME ExitInv, Proceeds PROVE ExitInv'
<1>1. /\ pc' # "exited" /\ pc' # "apply"
      /\ rendered' = rendered /\ ~rendered
      /\ in' = in
      /\ pc' = "parse" => pc = "parse"
  BY DEF Proceeds, ExitInv, Loading, Visiting, Rendering, LoadPolicy, SkipFile, ParseFile,
         BuildGraph, ParseNamed, AnalyzePolicy, EndAnalyze, WriteReport
<1> QED BY <1>1 DEF ExitInv, ExitTells

(* Those that may end it before the report, with 1 or 2. *)
Refuses ==
    \/ Start \/ ReadDir \/ RefusePolicy \/ EndPolicies \/ LoadServiceMap
    \/ UnknownLanguage \/ FailToParse \/ EndWalk \/ FailToRender

LEMMA RefusesExit == ASSUME ExitInv, Refuses PROVE ExitInv'
<1>1. /\ rendered' = rendered /\ ~rendered
      /\ in' = in
  BY DEF Refuses, ExitInv, Loading, Visiting, Rendering, Start, ReadDir, RefusePolicy,
         EndPolicies, LoadServiceMap, UnknownLanguage, FailToParse, EndWalk, FailToRender
<1>2. /\ pc' = "exited" => code' \in {1, 2}
      /\ pc' # "apply"
      /\ pc' = "parse" => in.command = "parse"
  BY DEF Refuses, ExitInv, Exit, Loading, Visiting, Rendering, Start, ReadDir, RefusePolicy,
         EndPolicies, LoadServiceMap, UnknownLanguage, FailToParse, EndWalk, FailToRender
<1> QED BY <1>1, <1>2 DEF ExitInv, ExitTells

(* The commands that are not `check`. *)
LEMMA OthersExit == ASSUME ExitInv, StartOther \/ dumpGraph \/ EndParse PROVE ExitInv'
<1>1. /\ rendered' = rendered /\ ~rendered
      /\ in' = in /\ in.command # "check"
      /\ pc' = "exited"
  BY DEF ExitInv, Exit, StartOther, dumpGraph, EndParse
<1> QED BY <1>1 DEF ExitInv, ExitTells

LEMMA RenderExit == ASSUME ExitInv, Render PROVE ExitInv'
<1>1. in' = in /\ findings' = findings /\ rendered' = TRUE /\ pc = "render"
  BY DEF Render
<1>2. CASE in.apply
  <2>1. pc' = "apply"
    BY <1>2 DEF Render
  <2> QED BY <1>1, <1>2, <2>1 DEF ExitInv, ExitTells
<1>3. CASE ~in.apply
  <2>1. pc' = "exited" /\ code' = IF findings = <<>> THEN 0 ELSE 1
    BY <1>3 DEF Render, Exit
  <2>2. ExitTells'
    <3>1. CASE findings = <<>>
      BY <1>1, <2>1, <3>1 DEF ExitTells
    <3>2. CASE findings # <<>>
      BY <1>1, <2>1, <3>2 DEF ExitTells
    <3> QED BY <3>1, <3>2
  <2> QED BY <1>1, <2>1, <2>2 DEF ExitInv
<1> QED BY <1>2, <1>3

LEMMA ApplyExit == ASSUME ExitInv, ApplyPatches PROVE ExitInv'
<1>1. /\ in' = in /\ findings' = findings /\ rendered' = rendered
      /\ pc' = "exited"
      /\ rendered /\ in.apply
  BY DEF ApplyPatches, Exit, ExitInv
<1>2. \/ code' = 1 /\ findings # <<>>
      \/ code' = 0 /\ \A i \in DOMAIN findings : findings[i].patch
  BY DEF ApplyPatches, Exit
<1> QED BY <1>1, <1>2 DEF ExitInv, ExitTells

LEMMA NextExit == ExitInv /\ [Next]_vars => ExitInv'
<1> SUFFICES ASSUME ExitInv, [Next]_vars PROVE ExitInv'
  OBVIOUS
<1>1. CASE UNCHANGED vars
  BY <1>1 DEF vars, ExitInv, ExitTells
<1>2. CASE Next
  BY <1>2, ProceedsExit, RefusesExit, OthersExit, RenderExit, ApplyExit
     DEF Next, Proceeds, Refuses
<1> QED BY <1>1, <1>2

(* The exit code of `check` tells what was reported, for every input and   *)
(* wherever a read, a parse or a write fails.                              *)
THEOREM ExitCodeTells == Spec => []ExitTells
<1>1. ExitInv => ExitTells
  BY DEF ExitInv
<1> QED BY <1>1, InitExit, NextExit, PTL DEF Spec

-----------------------------------------------------------------------------
(* The rest is about what the report says.  The invariant is inductive:    *)
(* each stage of the command keeps what the stages behind it rest on.      *)

(* What the directory and the flags name, and what is made of it. *)
Named == (IF in.dir THEN Listed ELSE <<>>) \o in.files
ParseEach == [d \in Document |-> Parse(d)]

(* Of the documents named, rest is all that is still to be loaded. *)
AllBut(rest, loaded, named) ==
    /\ loaded \o Image(ParseEach, rest) = Image(ParseEach, named)
    /\ \A d \in Range(named) : Parses(d) \/ d \in Range(rest)

(* The stages a `check` passes, and how its policies come about. *)
LoadInv ==
    /\ pc \in {"readdir", "loaddir", "loadfiles", "map", "analyze", "render", "apply"}
           => in.command = "check"
    /\ rendered => in.command = "check" /\ pc \in {"apply", "exited"}
    /\ pc \in {"readdir", "loaddir"} => in.dir
    /\ pc \in {"start", "readdir"} => policies = <<>>
    /\ pc = "loaddir" => AllBut(todo \o in.files, policies, Named)
    /\ pc = "loadfiles" => AllBut(todo, policies, Named)
    /\ in.command = "check" /\ (pc \in {"map", "walk", "build", "analyze", "render", "apply"} \/ rendered)
           => AllBut(<<>>, policies, Named)
    /\ in.command = "check" /\ (pc \in {"walk", "build", "analyze", "render", "apply"} \/ rendered)
           => \A map \in in.smap : Loads(map)

Sources == {i \in DOMAIN in.tree : in.tree[i].ext \in extForLang(in.lang)}

(* The walk has parsed the sources before its place, and all of them when  *)
(* it is over.                                                             *)
WalkInv ==
    /\ pc \in {"start", "readdir", "loaddir", "loadfiles", "map"} => at = 1 /\ files = {}
    /\ pc = "walk" => /\ at \in 1..Len(in.tree) + 1
                      /\ files = {i \in Sources : i < at}
    /\ pc \in {"build", "analyze", "render", "apply"} \/ rendered
           => files = Sources /\ Sources # {}
    /\ \A i \in files : in.tree[i].readable

(* What a policy finds in the files parsed. *)
FoundBy == [q \in Policy |-> IF policyAppliesToLang(q) THEN Analyze(files, bridged, q) ELSE <<>>]

(* found is what by finds for all of qs but rest. *)
AllButFound(rest, found, by, qs) ==
    found \o FlattenSeq(Image(by, rest)) = FlattenSeq(Image(by, qs))

(* The findings are those of the policies analysed, one after the other. *)
FindInv ==
    /\ pc \in {"start", "readdir", "loaddir", "loadfiles", "map", "walk", "build"}
           => findings = <<>>
    /\ pc = "analyze" =>
           /\ todo \in Seq(Policy)
           /\ AllButFound(todo, findings, FoundBy, policies)
    /\ pc \in {"render", "apply"} \/ rendered => findings = FlattenSeq(Image(FoundBy, policies))

(* What stdout holds of the report. *)
WriteInv ==
    /\ pc = "start" => stdout = <<>>
    /\ rendered => in.format # "other"
    /\ in.command = "check" =>
           /\ pc \notin {"render", "apply", "exited"} => stdout = <<>>
           /\ pc \in {"render", "exited"} /\ ~rendered => IsPrefix(stdout, Report)
           /\ pc = "exited" /\ ~rendered => stdout = <<>> \/ Len(stdout) < Len(Report)
           /\ pc = "apply" => rendered /\ in.apply /\ stdout = Report
           /\ pc = "exited" /\ rendered =>
                  stdout = IF in.apply THEN Append(Report, Results("summary", <<>>)) ELSE Report

IInv ==
    /\ TypeOK
    /\ LoadedInv
    /\ ExitInv
    /\ Stamped(in.found)
    /\ LoadInv
    /\ WalkInv
    /\ FindInv
    /\ WriteInv

-----------------------------------------------------------------------------
(* Types of what is computed. *)
LEMMA ParseTypes ==
    ASSUME NEW d \in Document
    PROVE  /\ Parse(d) \in Document
           /\ Parse(d).id = d.id /\ Parse(d).languages = d.languages
           /\ Parses(d) => Parse(d) \in Policy
<1> DEFINE filled == {IF fix.level = "" THEN [fix EXCEPT !.level = "idiomatic"] ELSE fix :
                          fix \in d.fix}
<1>1. Parse(d) = [d EXCEPT !.fix = filled]
  BY DEF Parse
<1>2. ASSUME NEW x \in filled
      PROVE  /\ x \in Fix
             /\ \E fix \in d.fix : /\ x.suggestion = fix.suggestion
                                   /\ x.wrap = fix.wrap
                                   /\ x.level = IF fix.level = "" THEN "idiomatic" ELSE fix.level
  <2>1. PICK fix \in d.fix :
            x = IF fix.level = "" THEN [fix EXCEPT !.level = "idiomatic"] ELSE fix
    BY <1>2
  <2>2. fix \in Fix
    BY DEF Document
  <2> QED BY <2>1, <2>2 DEF Fix, Levels
<1> HIDE DEF filled
<1>3. filled \in SUBSET Fix
  BY <1>2
<1>4. /\ Parse(d) \in Document
      /\ Parse(d).id = d.id /\ Parse(d).languages = d.languages /\ Parse(d).fix = filled
      /\ Parse(d).decodes = d.decodes /\ Parse(d).severity = d.severity
      /\ Parse(d).source = d.source /\ Parse(d).sink = d.sink /\ Parse(d).guard = d.guard
      /\ Parse(d).message = d.message
  BY <1>1, <1>3 DEF Document
<1>5. ASSUME Parses(d) PROVE Parse(d) \in Policy
  <2>1. d.decodes /\ Validate(d)
    BY <1>5 DEF Parses
  <2>2. \A fix \in d.fix : validateFix(fix)
    BY <2>1 DEF Validate
  <2>3. \A x \in filled : validateFix(x) /\ x.level \in Levels
    BY <1>2, <2>2 DEF validateFix, Levels
  <2>4. Parse(d).decodes /\ Validate(Parse(d))
    BY <1>4, <2>1, <2>3 DEF Validate
  <2> QED BY <1>4, <2>3, <2>4 DEF Policy, Parses
<1> QED BY <1>4, <1>5

LEMMA PolicyTypes ==
    ASSUME NEW q \in Policy
    PROVE  q \in Document /\ q.id \in GoodId
BY DEF Policy, Parses, Validate

LEMMA ListedTypes == TypeOK => Listed \in Seq(Document)
<1> SUFFICES ASSUME TypeOK PROVE Listed \in Seq(Document)
  OBVIOUS
<1> DEFINE yamls == {i \in DOMAIN in.entries : ~in.entries[i].isDir /\ in.entries[i].yaml}
           taken == SelectAt(in.entries, yamls)
<1>1. in.entries \in Seq(Entry)
  BY DEF TypeOK, Input
<1>2. taken \in Seq(Entry)
  <2> HIDE DEF yamls
  <2> QED BY <1>1, SelectAtPlaces
<1>3. Listed = [i \in DOMAIN taken |-> taken[i].doc]
  BY DEF Listed
<1> HIDE DEF taken
<1>4. Len(taken) \in Nat /\ DOMAIN taken = 1..Len(taken)
  BY <1>2, LenProperties
<1>5. \A i \in 1..Len(taken) : taken[i].doc \in Document
  <2>1. \A i \in 1..Len(taken) : taken[i] \in Entry
    BY <1>2, ElementOfSeq
  <2> QED BY <2>1 DEF Entry
<1>6. Listed \in [1..Len(taken) -> Document]
  BY <1>3, <1>4, <1>5
<1> QED BY <1>4, <1>6, FunctionIsSeq

LEMMA NamedTypes ==
    TypeOK => Named \in Seq(Document) /\ in.files \in Seq(Document)
<1> SUFFICES ASSUME TypeOK PROVE Named \in Seq(Document) /\ in.files \in Seq(Document)
  OBVIOUS
<1>1. in.files \in Seq(Document)
  BY DEF TypeOK, Input
<1>2. (IF in.dir THEN Listed ELSE <<>>) \in Seq(Document)
  BY ListedTypes, EmptySeq
<1> QED BY <1>1, <1>2, ConcatProperties DEF Named

LEMMA AnalyzeTypes ==
    ASSUME TypeOK, NEW parsed, NEW bridge \in BOOLEAN, NEW q \in Policy
    PROVE  Analyze(parsed, bridge, q) \in Seq(Finding)
<1> DEFINE found == in.found[bridge][q.id]
           kept == {i \in DOMAIN found : found[i].file \in parsed}
<1>1. found \in Seq(Finding)
  BY PolicyTypes DEF TypeOK, Input
<1>2. Analyze(parsed, bridge, q) = SelectAt(found, kept)
  BY DEF Analyze
<1> HIDE DEF found, kept
<1> QED BY <1>1, <1>2, SelectAtPlaces

FoundTyped == FoundBy \in [Policy -> Seq(Finding)]

LEMMA FoundByTypes == TypeOK => FoundTyped
<1> SUFFICES ASSUME TypeOK PROVE FoundTyped
  OBVIOUS
<1>1. bridged \in BOOLEAN /\ <<>> \in Seq(Finding)
  BY EmptySeq DEF TypeOK
<1> QED BY <1>1, AnalyzeTypes DEF FoundBy, FoundTyped

LEMMA FoundByAfter == TypeOK' => FoundTyped'
BY FoundByTypes, PTL

-----------------------------------------------------------------------------
(* What a report is made of, and what its reader sees. *)
LEMMA ResultsTypes ==
    ASSUME NEW is \in {"none", "count", "finding", "document", "graph", "root", "summary"},
           NEW fs \in Seq(Finding)
    PROVE  Results(is, fs) \in Piece /\ Results(is, fs).findings = fs
<1>1. <<>> \in Seq(GoodId)
  BY EmptySeq
<1> QED BY <1>1 DEF Results, Piece

LEMMA OneFinding == ASSUME NEW f \in Finding PROVE <<f>> \in Seq(Finding)
OBVIOUS

LEMMA OnePiece == ASSUME NEW p \in Piece PROVE <<p>> \in Seq(Piece)
OBVIOUS

(* The findings of each write. *)
FindingsIn(writes) == [i \in DOMAIN writes |-> writes[i].findings]

LEMMA FindingsInTypes ==
    ASSUME NEW w \in Seq(Piece)
    PROVE  /\ FindingsIn(w) \in Seq(Seq(Finding)) /\ Len(FindingsIn(w)) = Len(w)
           /\ \A i \in 1..Len(w) : FindingsIn(w)[i] = w[i].findings
<1> DEFINE N == Len(w)
<1>1. N \in Nat /\ DOMAIN w = 1..N /\ \A i \in 1..N : w[i] \in Piece
  BY LenProperties, ElementOfSeq
<1>2. \A i \in 1..N : w[i].findings \in Seq(Finding)
  BY <1>1 DEF Piece
<1>3. FindingsIn(w) \in [1..N -> Seq(Finding)]
  BY <1>1, <1>2 DEF FindingsIn
<1>4. \A i \in 1..N : FindingsIn(w)[i] = w[i].findings
  BY <1>1 DEF FindingsIn
<1>5. FindingsIn(w) \in Seq(Seq(Finding)) /\ Len(FindingsIn(w)) = N
  <2> HIDE DEF N
  <2> QED BY <1>1, <1>3, FunctionIsSeq
<1> QED BY <1>4, <1>5

LEMMA ShownConcat ==
    ASSUME NEW v \in Seq(Piece), NEW w \in Seq(Piece)
    PROVE  Shown(v \o w) = Shown(v) \o Shown(w)
<1> DEFINE u == v \o w
           s == FindingsIn(v)
           t == FindingsIn(w)
           r == FindingsIn(u)
<1>1. /\ Len(v) \in Nat /\ Len(w) \in Nat
      /\ u \in Seq(Piece) /\ Len(u) = Len(v) + Len(w)
      /\ \A i \in 1..Len(v) + Len(w) : u[i] = IF i <= Len(v) THEN v[i] ELSE w[i - Len(v)]
  BY LenProperties, ConcatProperties
<1>2. /\ s \in Seq(Seq(Finding)) /\ Len(s) = Len(v)
      /\ \A i \in 1..Len(v) : s[i] = v[i].findings
  BY FindingsInTypes
<1>3. /\ t \in Seq(Seq(Finding)) /\ Len(t) = Len(w)
      /\ \A i \in 1..Len(w) : t[i] = w[i].findings
  BY FindingsInTypes
<1> HIDE DEF u
<1>4. /\ r \in Seq(Seq(Finding)) /\ Len(r) = Len(u)
      /\ \A i \in 1..Len(u) : r[i] = u[i].findings
  BY <1>1, FindingsInTypes
<1> HIDE DEF s, t, r
<1>5. /\ s \o t \in Seq(Seq(Finding)) /\ Len(s \o t) = Len(s) + Len(t)
      /\ \A i \in 1..Len(s) + Len(t) : (s \o t)[i] = IF i <= Len(s) THEN s[i] ELSE t[i - Len(s)]
  <2>1. s \in Seq(Seq(Finding)) /\ t \in Seq(Seq(Finding))
    BY <1>2, <1>3
  <2> QED BY <2>1, ConcatProperties
<1>6. ASSUME NEW i \in 1..Len(r) PROVE r[i] = (s \o t)[i]
  <2>1. i \in 1..Len(v) + Len(w)
    BY <1>1, <1>4
  <2>2. CASE i <= Len(v)
    <3>1. i \in 1..Len(v)
      BY <1>1, <2>1, <2>2
    <3> QED BY <1>1, <1>2, <1>3, <1>4, <1>5, <2>1, <2>2, <3>1
  <2>3. CASE ~(i <= Len(v))
    <3>1. i - Len(v) \in 1..Len(w)
      BY <1>1, <2>1, <2>3
    <3> QED BY <1>1, <1>2, <1>3, <1>4, <1>5, <2>1, <2>3, <3>1
  <2> QED BY <2>2, <2>3
<1>7. Len(r) = Len(s \o t)
  BY <1>1, <1>2, <1>3, <1>4, <1>5
<1>8. r = s \o t
  BY <1>4, <1>5, <1>6, <1>7, SeqEqual
<1>9. FlattenSeq(s \o t) = FlattenSeq(s) \o FlattenSeq(t)
  BY <1>2, <1>3, FlattenConcat
<1>10. FlattenSeq(r) = FlattenSeq(s) \o FlattenSeq(t)
  BY <1>8, <1>9
<1> QED BY <1>10 DEF r, s, t, u, Shown, FindingsIn

LEMMA ShownOne == ASSUME NEW p \in Piece PROVE Shown(<<p>>) = p.findings
<1> DEFINE w == <<p>>
           r == FindingsIn(w)
           x == p.findings
<1>1. w \in Seq(Piece) /\ Len(w) = 1 /\ w[1] = p
  BY OnePiece
<1>2. x \in Seq(Finding)
  BY DEF Piece
<1> HIDE DEF w
<1>3. r \in Seq(Seq(Finding)) /\ Len(r) = 1 /\ r[1] = x
  BY <1>1, FindingsInTypes
<1> HIDE DEF r
<1>4. <<x>> \in Seq(Seq(Finding)) /\ Len(<<x>>) = 1 /\ <<x>>[1] = x
  <2> HIDE DEF x
  <2> QED BY <1>2
<1>5. r = <<x>>
  <2> HIDE DEF x
  <2>1. \A i \in 1..Len(r) : r[i] = <<x>>[i]
    BY <1>3, <1>4
  <2> QED BY <1>3, <1>4, <2>1, SeqEqual
<1>6. FlattenSeq(<<x>>) = x
  <2> HIDE DEF x
  <2> QED BY <1>2, FlattenOne
<1> QED BY <1>5, <1>6 DEF r, w, Shown, FindingsIn

LEMMA EachShows ==
    ASSUME NEW fs \in Seq(Finding)
    PROVE  Each(fs) \in Seq(Piece) /\ Shown(Each(fs)) = fs
<1> DEFINE N == Len(fs)
           ps == Each(fs)
<1>1. N \in Nat /\ DOMAIN fs = 1..N /\ \A i \in 1..N : fs[i] \in Finding
  BY LenProperties, ElementOfSeq
<1>2. \A i \in 1..N : <<fs[i]>> \in Seq(Finding)
  BY <1>1, OneFinding
<1>3. \A i \in 1..N : /\ Results("finding", <<fs[i]>>) \in Piece
                      /\ Results("finding", <<fs[i]>>).findings = <<fs[i]>>
  BY <1>2, ResultsTypes
<1>4. ps \in [1..N -> Piece] /\ \A i \in 1..N : ps[i].findings = <<fs[i]>>
  <2>1. ps = [i \in 1..N |-> Results("finding", <<fs[i]>>)]
    BY <1>1 DEF Each
  <2> HIDE DEF ps
  <2> QED BY <1>3, <2>1
<1>5. ps \in Seq(Piece) /\ Len(ps) = N
  <2> HIDE DEF N, ps
  <2> QED BY <1>1, <1>4, FunctionIsSeq
<1> HIDE DEF ps
<1>6. /\ FindingsIn(ps) \in Seq(Seq(Finding)) /\ Len(FindingsIn(ps)) = N
      /\ \A i \in 1..N : FindingsIn(ps)[i] = ps[i].findings
  BY <1>5, FindingsInTypes
<1>7. DOMAIN FindingsIn(ps) = DOMAIN fs
  BY <1>1, <1>6, LenProperties
<1>8. \A i \in DOMAIN fs : FindingsIn(ps)[i] = <<fs[i]>>
  BY <1>1, <1>4, <1>6
<1>9. FlattenSeq(FindingsIn(ps)) = fs
  <2> DEFINE ss == FindingsIn(ps)
  <2> HIDE DEF ss
  <2>1. ss \in Seq(Seq(Finding)) /\ DOMAIN ss = DOMAIN fs /\ \A i \in DOMAIN fs : ss[i] = <<fs[i]>>
    BY <1>6, <1>7, <1>8 DEF ss
  <2>2. FlattenSeq(ss) = fs
    BY <2>1, FlattenSingles
  <2> QED BY <2>2 DEF ss
<1> QED BY <1>5, <1>9 DEF ps, Shown, FindingsIn

(* Each policy that was checked and each finding's has one rule. *)
LEMMA RulesProperties ==
    ASSUME NEW ps \in Seq(Policy), NEW fs \in Seq(Finding)
    PROVE  /\ buildSARIFRules(ps, fs) \in Seq(GoodId)
           /\ IsInjective(buildSARIFRules(ps, fs))
           /\ Range(buildSARIFRules(ps, fs)) =
                  {q.id : q \in Range(ps)} \cup {f.policy : f \in Range(fs)}
<1> DEFINE M == Len(ps)
           N == Len(fs)
           one == [i \in DOMAIN ps |-> ps[i].id]
           two == [i \in DOMAIN fs |-> fs[i].policy]
           ids == one \o two
<1>1. /\ M \in Nat /\ DOMAIN ps = 1..M /\ \A i \in 1..M : ps[i] \in Policy
      /\ N \in Nat /\ DOMAIN fs = 1..N /\ \A i \in 1..N : fs[i] \in Finding
  BY LenProperties, ElementOfSeq
<1>2. Range(ps) = {ps[i] : i \in 1..M} /\ Range(fs) = {fs[i] : i \in 1..N}
  BY RangeEquality
<1>3. one \in [1..M -> GoodId] /\ two \in [1..N -> GoodId]
  <2>1. \A i \in 1..M : ps[i].id \in GoodId
    BY <1>1, PolicyTypes
  <2>2. \A i \in 1..N : fs[i].policy \in GoodId
    BY <1>1 DEF Finding
  <2> HIDE DEF M, N
  <2> QED BY <1>1, <2>1, <2>2
<1>4. (\A i \in 1..M : one[i] = ps[i].id) /\ (\A i \in 1..N : two[i] = fs[i].policy)
  <2> HIDE DEF M, N
  <2> QED BY <1>1
<1>5. buildSARIFRules(ps, fs) = SelectAt(ids, FirstPlaces(ids))
  BY DEF buildSARIFRules
<1> HIDE DEF one, two, M, N
<1>6. /\ one \in Seq(GoodId) /\ Len(one) = M
      /\ two \in Seq(GoodId) /\ Len(two) = N
  BY <1>1, <1>3, FunctionIsSeq
<1>7. ids \in Seq(GoodId) /\ Range(ids) = Range(one) \cup Range(two)
  BY <1>6, ConcatProperties, RangeConcatenation
<1>8. Range(one) = {one[i] : i \in 1..M} /\ Range(two) = {two[i] : i \in 1..N}
  BY <1>6, RangeEquality
<1>9. Range(one) = {q.id : q \in Range(ps)} /\ Range(two) = {f.policy : f \in Range(fs)}
  BY <1>2, <1>4, <1>8
<1> HIDE DEF ids
<1>10. /\ SelectAt(ids, FirstPlaces(ids)) \in Seq(GoodId)
       /\ IsInjective(SelectAt(ids, FirstPlaces(ids)))
       /\ Range(SelectAt(ids, FirstPlaces(ids))) = Range(ids)
  BY <1>7, DistinctProperties
<1> QED BY <1>5, <1>7, <1>9, <1>10

SARIFLog(ps, fs) == [Results("document", fs) EXCEPT !.rules = buildSARIFRules(ps, fs)]

LEMMA SARIFTypes ==
    ASSUME NEW ps \in Seq(Policy), NEW fs \in Seq(Finding)
    PROVE  /\ SARIFLog(ps, fs) \in Piece
           /\ SARIFLog(ps, fs).findings = fs
           /\ SARIFLog(ps, fs).rules = buildSARIFRules(ps, fs)
<1>1. buildSARIFRules(ps, fs) \in Seq(GoodId)
  BY RulesProperties
<1> QED BY <1>1 DEF SARIFLog, Results, Piece

Formats == {"text", "markdown", "json", "sarif"}

(* Every format shows its reader the findings. *)
LEMMA WritesShow ==
    ASSUME NEW fs \in Seq(Finding), NEW ps \in Seq(Policy), NEW format \in Formats
    PROVE  Writes(format, fs, ps) \in Seq(Piece) /\ Shown(Writes(format, fs, ps)) = fs
<1>1. <<>> \in Seq(Finding)
  BY EmptySeq
<1>2. Each(fs) \in Seq(Piece) /\ Shown(Each(fs)) = fs
  BY EachShows
<1> DEFINE count == Results("count", <<>>)
           none == Results("none", <<>>)
           doc == Results("document", fs)
<1>3. /\ count \in Piece /\ count.findings = <<>>
      /\ none \in Piece /\ none.findings = <<>>
      /\ doc \in Piece /\ doc.findings = fs
  BY <1>1, ResultsTypes
<1> HIDE DEF count, none, doc
<1>4. /\ <<count>> \in Seq(Piece) /\ Shown(<<count>>) = <<>>
      /\ <<none>> \in Seq(Piece) /\ Shown(<<none>>) = <<>>
      /\ <<doc>> \in Seq(Piece) /\ Shown(<<doc>>) = fs
  BY <1>3, OnePiece, ShownOne
<1>5. CASE format = "text"
  <2>1. Writes(format, fs, ps) = IF fs = <<>> THEN <<none>> ELSE Append(Each(fs), count)
    BY <1>5 DEF Writes, renderText, none, count
  <2>2. Append(Each(fs), count) = Each(fs) \o <<count>>
    BY <1>2, <1>3, AppendIsConcat
  <2>3. /\ Each(fs) \o <<count>> \in Seq(Piece)
        /\ Shown(Each(fs) \o <<count>>) = Shown(Each(fs)) \o Shown(<<count>>)
    BY <1>2, <1>4, ConcatProperties, ShownConcat
  <2>4. fs \o <<>> = fs
    BY ConcatEmptySeq
  <2> QED BY <1>2, <1>4, <2>1, <2>2, <2>3, <2>4
<1>6. CASE format = "markdown"
  <2>1. Writes(format, fs, ps) = IF fs = <<>> THEN <<none>> ELSE <<count>> \o Each(fs)
    BY <1>6 DEF Writes, renderMarkdown, none, count
  <2>2. /\ <<count>> \o Each(fs) \in Seq(Piece)
        /\ Shown(<<count>> \o Each(fs)) = Shown(<<count>>) \o Shown(Each(fs))
    BY <1>2, <1>4, ConcatProperties, ShownConcat
  <2>3. <<>> \o fs = fs
    BY ConcatEmptySeq
  <2> QED BY <1>2, <1>4, <2>1, <2>2, <2>3
<1>7. CASE format = "json"
  <2>1. Writes(format, fs, ps) = <<doc>>
    BY <1>7 DEF Writes, renderJSON, doc
  <2> QED BY <1>4, <2>1
<1>8. CASE format = "sarif"
  <2> DEFINE log == SARIFLog(ps, fs)
  <2>1. Writes(format, fs, ps) = <<log>>
    BY <1>8 DEF Writes, renderSARIF, SARIFLog
  <2>2. log \in Piece /\ log.findings = fs
    BY SARIFTypes
  <2> HIDE DEF log
  <2>3. <<log>> \in Seq(Piece) /\ Shown(<<log>>) = fs
    BY <2>2, OnePiece, ShownOne
  <2> QED BY <2>1, <2>3
<1> QED BY <1>5, <1>6, <1>7, <1>8 DEF Formats

-----------------------------------------------------------------------------
(* The report of the state. *)
ReportTyped ==
    /\ Checked \in Seq(Policy)
    /\ Range(Checked) = {q \in Range(policies) : policyAppliesToLang(q)}
    /\ Report \in Seq(Piece) /\ IsPrefix(<<>>, Report)
    /\ in.format # "other" => Shown(Report) = findings

LEMMA ReportTypes == TypeOK => ReportTyped
<1> SUFFICES ASSUME TypeOK PROVE ReportTyped
  OBVIOUS
<1> DEFINE apply == {i \in DOMAIN policies : policyAppliesToLang(policies[i])}
<1>1. policies \in Seq(Policy) /\ findings \in Seq(Finding)
  BY DEF TypeOK
<1>2. DOMAIN policies = 1..Len(policies) /\ Range(policies) = {policies[i] : i \in 1..Len(policies)}
  BY <1>1, LenProperties, RangeEquality
<1>3. Checked = SelectAt(policies, apply)
  BY DEF Checked
<1> HIDE DEF apply
<1>4. /\ Checked \in Seq(Policy)
      /\ Range(Checked) = {policies[i] : i \in apply \cap 1..Len(policies)}
  BY <1>1, <1>3, SelectAtPlaces, SelectAtRange
<1>5. Range(Checked) = {q \in Range(policies) : policyAppliesToLang(q)}
  BY <1>2, <1>4 DEF apply
<1>6. in.format \in Formats \/ in.format = "other"
  BY DEF TypeOK, Input, Formats
<1>7. in.format \in Formats => Report \in Seq(Piece) /\ Shown(Report) = findings
  BY <1>1, <1>4, WritesShow DEF Report
<1>8. in.format = "other" => Report = <<>>
  BY DEF Report, Writes
<1>9. Report \in Seq(Piece) /\ <<>> \in Seq(Piece) /\ Len(<<>>) = 0
  BY <1>6, <1>7, <1>8, EmptySeq
<1>10. IsPrefix(<<>>, Report)
  BY <1>9, EmptyIsPrefix
<1> QED BY <1>4, <1>5, <1>6, <1>7, <1>9, <1>10 DEF ReportTyped, Formats

LEMMA ReportAfter == TypeOK' => ReportTyped'
BY ReportTypes, PTL

-----------------------------------------------------------------------------
(* One conjunct of the invariant after the other. *)
LEMMA InputsReadOnly == ASSUME [Next]_vars PROVE in' = in
BY DEF Next, vars, StartOther, Start, ReadDir, LoadPolicy, RefusePolicy, EndPolicies, LoadServiceMap,
       UnknownLanguage, SkipFile, ParseFile, FailToParse, EndWalk, BuildGraph, dumpGraph,
       ParseNamed, EndParse, AnalyzePolicy, EndAnalyze, WriteReport, FailToRender, Render,
       ApplyPatches

LEMMA TodoTypes == ASSUME IInv, [Next]_vars PROVE todo' \in Seq(Document)
<1>1. todo \in Seq(Document) /\ policies \in Seq(Policy) /\ in.files \in Seq(Document)
  BY NamedTypes DEF IInv, TypeOK
<1>2. CASE Start
  BY <1>1, <1>2, EmptySeq DEF Start
<1>3. CASE ReadDir
  BY <1>1, <1>3, ListedTypes DEF ReadDir, IInv
<1>4. CASE LoadPolicy \/ AnalyzePolicy
  BY <1>1, <1>4, TailProperties DEF LoadPolicy, AnalyzePolicy
<1>5. CASE EndPolicies
  BY <1>1, <1>5 DEF EndPolicies
<1>6. CASE BuildGraph
  <2>1. todo' = policies
    BY <1>6 DEF BuildGraph
  <2>2. Policy \subseteq Document
    BY PolicyTypes
  <2>3. policies \in Seq(Document)
    BY <1>1, <2>2, SeqMonotonic
  <2> QED BY <2>1, <2>3
<1>7. CASE ~(Start \/ ReadDir \/ LoadPolicy \/ AnalyzePolicy \/ EndPolicies \/ BuildGraph)
  <2>1. todo' = todo
    BY <1>7 DEF Next, vars, StartOther, RefusePolicy, LoadServiceMap, UnknownLanguage, SkipFile,
                ParseFile, FailToParse, EndWalk, dumpGraph, ParseNamed, EndParse, EndAnalyze,
                WriteReport, FailToRender, Render, ApplyPatches
  <2> QED BY <1>1, <2>1
<1> QED BY <1>2, <1>3, <1>4, <1>5, <1>6, <1>7

LEMMA PoliciesTypes == ASSUME IInv, [Next]_vars PROVE policies' \in Seq(Policy)
<1>1. todo \in Seq(Document) /\ policies \in Seq(Policy)
  BY DEF IInv, TypeOK
<1>2. CASE LoadPolicy
  <2>1. todo # <<>> /\ Parses(Head(todo)) /\ policies' = Append(policies, Parse(Head(todo)))
    BY <1>2 DEF LoadPolicy
  <2>2. Head(todo) \in Document
    BY <1>1, <2>1, TailProperties
  <2>3. Parse(Head(todo)) \in Policy
    BY <2>1, <2>2, ParseTypes
  <2> QED BY <1>1, <2>1, <2>3, AppendProperties
<1>3. CASE ~LoadPolicy
  <2>1. policies' = policies
    BY <1>3 DEF Next, vars, StartOther, Start, ReadDir, RefusePolicy, EndPolicies, LoadServiceMap,
                UnknownLanguage, SkipFile, ParseFile, FailToParse, EndWalk, BuildGraph,
                dumpGraph, ParseNamed, EndParse, AnalyzePolicy, EndAnalyze, WriteReport,
                FailToRender, Render, ApplyPatches
  <2> QED BY <1>1, <2>1
<1> QED BY <1>2, <1>3

LEMMA FindingsTypes == ASSUME IInv, [Next]_vars PROVE findings' \in Seq(Finding)
<1>1. findings \in Seq(Finding) /\ bridged \in BOOLEAN
  BY DEF IInv, TypeOK
<1>2. CASE AnalyzePolicy
  <2>1. Head(todo) \in Policy
    BY <1>2, TailProperties DEF AnalyzePolicy, IInv, FindInv
  <2>2. Analyze(files, bridged, Head(todo)) \in Seq(Finding)
    BY <1>1, <2>1, AnalyzeTypes DEF IInv
  <2>3. \/ findings' = findings
        \/ findings' = findings \o Analyze(files, bridged, Head(todo))
    BY <1>2 DEF AnalyzePolicy
  <2> DEFINE more == Analyze(files, bridged, Head(todo))
  <2> HIDE DEF more
  <2>4. findings \o more \in Seq(Finding)
    BY <1>1, <2>2, ConcatProperties DEF more
  <2> QED BY <1>1, <2>3, <2>4 DEF more
<1>3. CASE ~AnalyzePolicy
  <2>1. findings' = findings
    BY <1>3 DEF Next, vars, StartOther, Start, ReadDir, LoadPolicy, RefusePolicy, EndPolicies,
                LoadServiceMap, UnknownLanguage, SkipFile, ParseFile, FailToParse, EndWalk,
                BuildGraph, dumpGraph, ParseNamed, EndParse, EndAnalyze, WriteReport,
                FailToRender, Render, ApplyPatches
  <2> QED BY <1>1, <2>1
<1> QED BY <1>2, <1>3

LEMMA StdoutTypes == ASSUME IInv, [Next]_vars PROVE stdout' \in Seq(Piece)
<1>1. stdout \in Seq(Piece) /\ <<>> \in Seq(Finding)
  BY EmptySeq DEF IInv, TypeOK
<1> DEFINE graph == Results("graph", <<>>)
           root == Results("root", <<>>)
           summary == Results("summary", <<>>)
<1>2. graph \in Piece /\ root \in Piece /\ summary \in Piece
  BY <1>1, ResultsTypes
<1> HIDE DEF graph, root, summary
<1>3. CASE dumpGraph
  <2>1. stdout' = <<graph>>
    BY <1>3 DEF dumpGraph, graph
  <2> QED BY <1>2, <2>1, OnePiece
<1>4. CASE ParseNamed
  <2>1. stdout' = Append(stdout, root)
    BY <1>4 DEF ParseNamed, root
  <2> QED BY <1>1, <1>2, <2>1, AppendProperties
<1>5. CASE WriteReport
  <2>1. Report \in Seq(Piece)
    BY ReportTypes DEF IInv, ReportTyped
  <2>2. Len(stdout) < Len(Report) /\ stdout' = Append(stdout, Report[Len(stdout) + 1])
    BY <1>5 DEF WriteReport, Rendering
  <2>3. Len(stdout) + 1 \in 1..Len(Report)
    BY <1>1, <2>1, <2>2, LenProperties
  <2>4. Report[Len(stdout) + 1] \in Piece
    BY <2>1, <2>3, ElementOfSeq
  <2> QED BY <1>1, <2>2, <2>4, AppendProperties
<1>6. CASE ApplyPatches
  <2>1. stdout' = Append(stdout, summary)
    BY <1>6 DEF ApplyPatches, summary
  <2> QED BY <1>1, <1>2, <2>1, AppendProperties
<1>7. CASE ~(dumpGraph \/ ParseNamed \/ WriteReport \/ ApplyPatches)
  <2>1. stdout' = stdout
    BY <1>7 DEF Next, vars, StartOther, Start, ReadDir, LoadPolicy, RefusePolicy, EndPolicies,
                LoadServiceMap, UnknownLanguage, SkipFile, ParseFile, FailToParse, EndWalk,
                BuildGraph, EndParse, AnalyzePolicy, EndAnalyze, FailToRender, Render
  <2> QED BY <1>1, <2>1
<1> QED BY <1>3, <1>4, <1>5, <1>6, <1>7

LEMMA NextTypes == ASSUME IInv, [Next]_vars PROVE TypeOK'
<1>1. TypeOK
  BY DEF IInv
<1>2. in' \in Input
  BY <1>1, InputsReadOnly DEF TypeOK
<1>3. /\ pc' \in {"start", "readdir", "loaddir", "loadfiles", "map", "walk", "build",
                  "analyze", "render", "apply", "parse", "exited"}
      /\ code' \in {-1, 0, 1, 2}
      /\ rendered' \in BOOLEAN
  BY <1>1 DEF TypeOK, Exit, Next, vars, StartOther, Start, ReadDir, LoadPolicy, RefusePolicy,
       EndPolicies, LoadServiceMap, UnknownLanguage, SkipFile, ParseFile, FailToParse, EndWalk,
       BuildGraph, dumpGraph, ParseNamed, EndParse, AnalyzePolicy, EndAnalyze, WriteReport,
       FailToRender, Render, ApplyPatches
<1>4. at' \in Nat /\ files' \subseteq Nat
  <2>1. (at' = at \/ at' = at + 1) /\ (files' = files \/ files' = files \cup {at})
    BY DEF Next, vars, StartOther, Start, ReadDir, LoadPolicy, RefusePolicy,
       EndPolicies, LoadServiceMap, UnknownLanguage, SkipFile, ParseFile, FailToParse, EndWalk,
       BuildGraph, dumpGraph, ParseNamed, EndParse, AnalyzePolicy, EndAnalyze, WriteReport,
       FailToRender, Render, ApplyPatches
  <2>2. at \in Nat /\ at + 1 \in Nat /\ files \subseteq Nat /\ files \cup {at} \subseteq Nat
    BY <1>1 DEF TypeOK
  <2>3. at' \in Nat
    BY <2>1, <2>2
  <2>4. files' \subseteq Nat
    BY <2>1, <2>2
  <2> QED BY <2>3, <2>4
<1>5. bridged' \in BOOLEAN
  <2>1. CASE BuildGraph
    BY <2>1 DEF BuildGraph
  <2>2. CASE ~BuildGraph
    BY <1>1, <2>2 DEF TypeOK, Next, vars, StartOther, Start, ReadDir, LoadPolicy, RefusePolicy,
         EndPolicies, LoadServiceMap, UnknownLanguage, SkipFile, ParseFile, FailToParse, EndWalk,
         dumpGraph, ParseNamed, EndParse, AnalyzePolicy, EndAnalyze, WriteReport,
         FailToRender, Render, ApplyPatches
  <2> QED BY <2>1, <2>2
<1> QED BY <1>2, <1>3, <1>4, <1>5, TodoTypes, PoliciesTypes, FindingsTypes, StdoutTypes DEF TypeOK

-----------------------------------------------------------------------------
(* Loading. *)
LEMMA ParseEachTypes == ParseEach \in [Document -> Document]
BY ParseTypes DEF ParseEach

LEMMA AllButOne ==
    ASSUME NEW rest \in Seq(Document), NEW loaded \in Seq(Document), NEW named \in Seq(Document),
           rest # <<>>, Parses(Head(rest)), AllBut(rest, loaded, named)
    PROVE  AllBut(Tail(rest), Append(loaded, Parse(Head(rest))), named)
<1> DEFINE x == Parse(Head(rest))
           others == Image(ParseEach, Tail(rest))
<1>1. /\ Head(rest) \in Document /\ Tail(rest) \in Seq(Document)
      /\ Range(rest) = {Head(rest)} \cup Range(Tail(rest))
  BY TailProperties
<1>2. x \in Document /\ ParseEach[Head(rest)] = x
  BY <1>1, ParseTypes DEF ParseEach
<1>3. others \in Seq(Document)
  BY <1>1, ParseEachTypes, ImageProperties DEF IsImage
<1>4. Image(ParseEach, rest) = <<x>> \o others
  <2>1. ImageUnfolds(ParseEach, rest)
    BY ParseEachTypes, ImageOfHead
  <2> QED BY <1>2, <2>1 DEF ImageUnfolds
<1> HIDE DEF x, others
<1>5. Shifts(loaded, x, others)
  BY <1>2, <1>3, ShiftOver
<1>6. Append(loaded, x) \o others = Image(ParseEach, named)
  BY <1>4, <1>5 DEF Shifts, AllBut
<1>7. \A d \in Range(named) : Parses(d) \/ d \in Range(Tail(rest))
  BY <1>1 DEF AllBut
<1> QED BY <1>6, <1>7 DEF AllBut, x, others

LEMMA LoadedSeq == TypeOK => policies \in Seq(Document)
<1> SUFFICES ASSUME TypeOK PROVE policies \in Seq(Document)
  OBVIOUS
<1>1. Policy \subseteq Document
  BY PolicyTypes
<1> QED BY <1>1, SeqMonotonic DEF TypeOK

LEMMA LoadPolicyLoads == ASSUME IInv, LoadPolicy PROVE LoadInv'
<1>1. /\ in' = in /\ pc' = pc /\ rendered' = rendered
      /\ pc \in {"loaddir", "loadfiles"}
      /\ todo # <<>> /\ Parses(Head(todo))
      /\ policies' = Append(policies, Parse(Head(todo)))
      /\ todo' = Tail(todo)
  BY DEF LoadPolicy, Loading
<1>2. todo \in Seq(Document) /\ policies \in Seq(Document)
      /\ in.files \in Seq(Document) /\ Named \in Seq(Document)
  BY LoadedSeq, NamedTypes DEF IInv, TypeOK
<1>3. Named' = Named
  BY <1>1 DEF Named, Listed
<1>4. pc = "loadfiles" => AllBut(todo', policies', Named')
  <2> SUFFICES ASSUME pc = "loadfiles" PROVE AllBut(todo', policies', Named')
    OBVIOUS
  <2>1. AllBut(todo, policies, Named)
    BY DEF IInv, LoadInv
  <2> QED BY <1>1, <1>2, <1>3, <2>1, AllButOne
<1>5. pc = "loaddir" => AllBut(todo' \o in'.files, policies', Named')
  <2> SUFFICES ASSUME pc = "loaddir" PROVE AllBut(todo' \o in'.files, policies', Named')
    OBVIOUS
  <2> DEFINE rest == todo \o in.files
  <2>1. AllBut(rest, policies, Named)
    BY DEF IInv, LoadInv
  <2>2. rest \in Seq(Document)
    BY <1>2, ConcatProperties
  <2>3. rest # <<>> /\ Head(rest) = Head(todo) /\ Tail(rest) = todo' \o in.files
    <3>1. BeginsLeft(todo, in.files)
      BY <1>1, <1>2, HeadOfConcat
    <3> QED BY <1>1, <3>1 DEF BeginsLeft
  <2> HIDE DEF rest
  <2>4. AllBut(Tail(rest), Append(policies, Parse(Head(rest))), Named)
    BY <1>1, <1>2, <2>1, <2>2, <2>3, AllButOne
  <2> QED BY <1>1, <1>3, <2>3, <2>4
<1>6. ~rendered /\ in.command = "check"
  BY <1>1 DEF IInv, LoadInv
<1>7. pc = "loaddir" => in.dir
  BY DEF IInv, LoadInv
<1> QED BY <1>1, <1>4, <1>5, <1>6, <1>7 DEF LoadInv

LEMMA NothingLoaded ==
    ASSUME NEW named \in Seq(Document)
    PROVE  AllBut(named, <<>>, named)
<1> DEFINE all == Image(ParseEach, named)
<1>1. all \in Seq(Document)
  BY ParseEachTypes, ImageProperties DEF IsImage
<1> HIDE DEF all
<1>2. <<>> \o all = all
  BY <1>1, ConcatEmptySeq
<1> QED BY <1>2 DEF AllBut, all

LEMMA StartLoads == ASSUME IInv, Start PROVE LoadInv'
<1>1. /\ in' = in /\ policies' = policies /\ rendered' = rendered /\ pc = "start"
      /\ in.command \in {"check", "callgraph", "parse"}
      /\ todo' = IF in.dir THEN <<>> ELSE in.files
  BY DEF Start
<1>2. /\ pc' \in {"exited", "walk", "parse", "readdir", "loadfiles"}
      /\ pc' \in {"readdir", "loadfiles"} => in.command = "check"
      /\ pc' = "readdir" => in.dir
      /\ pc' = "loadfiles" => ~in.dir
      /\ pc' \in {"walk", "parse"} => in.command # "check"
  BY <1>1 DEF Start, Exit
<1>3. policies = <<>> /\ ~rendered
  BY <1>1 DEF IInv, LoadInv
<1>4. in.files \in Seq(Document)
  BY NamedTypes DEF IInv
<1>5. ASSUME pc' = "loadfiles" PROVE AllBut(todo', policies', Named')
  <2>1. ~in'.dir /\ todo' = in.files
    BY <1>1, <1>2, <1>5
  <2>2. Named' = <<>> \o in.files
    BY <1>1, <2>1 DEF Named
  <2>3. Named' = in.files
    BY <1>4, <2>2, ConcatEmptySeq
  <2>4. AllBut(in.files, <<>>, in.files)
    BY <1>4, NothingLoaded
  <2> QED BY <1>1, <1>3, <2>1, <2>3, <2>4
<1> QED BY <1>1, <1>2, <1>3, <1>5 DEF LoadInv

LEMMA ReadDirLoads == ASSUME IInv, ReadDir PROVE LoadInv'
<1>1. /\ in' = in /\ policies' = policies /\ rendered' = rendered /\ pc = "readdir"
      /\ pc' = "exited" \/ (pc' = "loaddir" /\ todo' = Listed)
  <2>1. /\ in' = in /\ policies' = policies /\ rendered' = rendered /\ pc = "readdir"
        /\ Exit(2) \/ (pc' = "loaddir" /\ todo' = Listed)
    BY Zenon DEF ReadDir
  <2>2. Exit(2) => pc' = "exited"
    BY Zenon DEF Exit
  <2> QED BY <2>1, <2>2
<1>2. policies = <<>> /\ ~rendered /\ in.dir /\ in.command = "check"
  <2>1. LoadInv
    BY Zenon DEF IInv
  <2> QED BY <1>1, <2>1 DEF LoadInv
<1>3. Named' = Listed \o in.files /\ Named' = Named
  <2>1. Listed' = Listed
    BY <1>1, Zenon DEF Listed
  <2>2. Named = Listed \o in.files
    BY <1>2, Zenon DEF Named
  <2>3. Named' = Named
    BY <1>1, <2>1, Zenon DEF Named
  <2> QED BY <2>2, <2>3
<1>4. AllBut(Named, <<>>, Named)
  BY NamedTypes, NothingLoaded DEF IInv
<1>5. pc' = "loaddir" => AllBut(todo' \o in'.files, policies', Named')
  BY <1>1, <1>2, <1>3, <1>4
<1> QED BY <1>1, <1>2, <1>5 DEF LoadInv

LEMMA EndPoliciesLoads == ASSUME IInv, EndPolicies PROVE LoadInv'
<1>1. /\ in' = in /\ policies' = policies /\ rendered' = rendered /\ todo = <<>>
      /\ \/ pc = "loaddir" /\ pc' = "loadfiles" /\ todo' = in.files
         \/ pc = "loadfiles" /\ pc' \in {"exited", "map"}
  BY DEF EndPolicies, Exit, Loading
<1>2. Named' = Named
  BY <1>1 DEF Named, Listed
<1>3. ~rendered /\ in.command = "check"
  BY <1>1 DEF IInv, LoadInv
<1>4. in.files \in Seq(Document)
  BY NamedTypes DEF IInv
<1>5. <<>> \o in.files = in.files
  BY <1>4, ConcatEmptySeq
<1>6. pc' = "loadfiles" => AllBut(todo', policies', Named')
  BY <1>1, <1>2, <1>5 DEF IInv, LoadInv
<1>7. pc' = "map" => AllBut(<<>>, policies', Named')
  BY <1>1, <1>2 DEF IInv, LoadInv
<1> QED BY <1>1, <1>3, <1>6, <1>7 DEF LoadInv

(* The steps behind the loading. *)
LEMMA OthersLoad ==
    ASSUME IInv, [Next]_vars, ~(Start \/ ReadDir \/ LoadPolicy \/ EndPolicies)
    PROVE  LoadInv'
<1>1. in' = in
  BY InputsReadOnly
<1>2. policies' = policies
  BY DEF Next, vars, StartOther, RefusePolicy, LoadServiceMap, UnknownLanguage, SkipFile, ParseFile,
         FailToParse, EndWalk, BuildGraph, dumpGraph, ParseNamed, EndParse, AnalyzePolicy, EndAnalyze,
         WriteReport, FailToRender, Render, ApplyPatches
<1>3. Named' = Named
  BY <1>1 DEF Named, Listed
<1>4. LoadInv
  BY DEF IInv
<1>5. CASE UNCHANGED vars
  BY <1>1, <1>2, <1>3, <1>4, <1>5 DEF LoadInv, vars
<1>6. CASE LoadServiceMap
  <2>1. pc = "map" /\ rendered' = rendered /\ pc' \in {"walk", "exited"}
    BY <1>6 DEF LoadServiceMap, Exit
  <2>2. pc' = "walk" => \A map \in in.smap : Loads(map)
    BY <1>6, <2>1 DEF LoadServiceMap, Exit
  <2> QED BY <1>1, <1>2, <1>3, <1>4, <2>1, <2>2 DEF LoadInv
<1>7. CASE \/ StartOther \/ RefusePolicy \/ UnknownLanguage \/ SkipFile \/ ParseFile \/ FailToParse
           \/ EndWalk \/ dumpGraph \/ ParseNamed \/ EndParse
  <2>1. /\ rendered' = rendered /\ ~rendered
        /\ \/ pc' = pc /\ pc \in {"walk", "parse"}
           \/ pc' = "exited"
           \/ pc = "walk" /\ pc' = "build"
    BY <1>4, <1>7 DEF LoadInv, Exit, Loading, Visiting, StartOther, RefusePolicy, UnknownLanguage,
       SkipFile, ParseFile, FailToParse, EndWalk, dumpGraph, ParseNamed, EndParse
  <2> QED BY <1>1, <1>2, <1>3, <1>4, <2>1 DEF LoadInv
<1>8. CASE BuildGraph \/ AnalyzePolicy \/ EndAnalyze \/ WriteReport \/ FailToRender \/ Render
           \/ ApplyPatches
  <2>1. /\ pc \in {"build", "analyze", "render", "apply"}
        /\ pc = "build" => in.command = "check"
        /\ pc' \in {"analyze", "render", "apply", "exited"}
    BY <1>8 DEF Exit, Rendering, BuildGraph, AnalyzePolicy, EndAnalyze, WriteReport,
       FailToRender, Render, ApplyPatches
  <2>2. rendered' => pc' \in {"apply", "exited"}
    <3>1. rendered => pc = "apply"
      BY <1>4, <2>1 DEF LoadInv
    <3>2. pc = "apply" => pc' = "exited"
      BY <1>8 DEF Exit, Rendering, BuildGraph, AnalyzePolicy, EndAnalyze, WriteReport,
         FailToRender, Render, ApplyPatches
    <3>3. rendered' => rendered \/ pc' \in {"apply", "exited"}
      BY <1>8 DEF Exit, BuildGraph, AnalyzePolicy, EndAnalyze, WriteReport,
         FailToRender, Render, ApplyPatches
    <3> QED BY <3>1, <3>2, <3>3
  <2>3. in.command = "check"
    BY <1>4, <2>1 DEF LoadInv
  <2> QED BY <1>1, <1>2, <1>3, <1>4, <2>1, <2>2, <2>3 DEF LoadInv
<1> QED BY <1>5, <1>6, <1>7, <1>8 DEF Next

LEMMA NextLoads == ASSUME IInv, [Next]_vars PROVE LoadInv'
BY StartLoads, ReadDirLoads, LoadPolicyLoads, EndPoliciesLoads, OthersLoad

-----------------------------------------------------------------------------
(* The walk. *)
LEMMA SourcesArePlaces ==
    TypeOK => /\ Len(in.tree) \in Nat /\ DOMAIN in.tree = 1..Len(in.tree)
              /\ Sources \subseteq 1..Len(in.tree)
<1> SUFFICES ASSUME TypeOK
             PROVE  /\ Len(in.tree) \in Nat /\ DOMAIN in.tree = 1..Len(in.tree)
                    /\ Sources \subseteq 1..Len(in.tree)
  OBVIOUS
<1>1. in.tree \in Seq(SourceFile)
  BY DEF TypeOK, Input
<1>2. Len(in.tree) \in Nat /\ DOMAIN in.tree = 1..Len(in.tree)
  BY <1>1, LenProperties
<1> QED BY <1>2 DEF Sources

LEMMA VisitWalks == ASSUME IInv, SkipFile \/ ParseFile PROVE WalkInv'
<1>1. /\ in' = in /\ pc' = pc /\ rendered' = rendered /\ pc = "walk" /\ at <= Len(in.tree)
      /\ at' = at + 1
      /\ \/ ~Matching /\ files' = files
         \/ Matching /\ in.tree[at].readable /\ files' = files \cup {at}
  BY DEF SkipFile, ParseFile, Visiting
<1>2. Sources' = Sources
  BY <1>1 DEF Sources
<1>3. /\ Len(in.tree) \in Nat /\ DOMAIN in.tree = 1..Len(in.tree)
      /\ Sources \subseteq 1..Len(in.tree)
  BY SourcesArePlaces DEF IInv
<1>4. /\ at \in 1..Len(in.tree) + 1 /\ files = {i \in Sources : i < at}
      /\ \A i \in files : in.tree[i].readable
      /\ ~rendered
  BY <1>1 DEF IInv, WalkInv, LoadInv
<1>5. at \in Sources <=> Matching
  BY <1>1, <1>3, <1>4 DEF Sources, Matching
<1>6. at' \in 1..Len(in.tree) + 1
  BY <1>1, <1>3, <1>4
<1>7. files' = {i \in Sources : i < at'}
  <2>1. \A i \in Sources : i < at + 1 <=> i < at \/ i = at
    BY <1>3, <1>4
  <2> QED BY <1>1, <1>4, <1>5, <2>1
<1>8. \A i \in files' : in.tree[i].readable
  BY <1>1, <1>4
<1> QED BY <1>1, <1>2, <1>4, <1>6, <1>7, <1>8 DEF WalkInv

LEMMA EndWalkWalks == ASSUME IInv, EndWalk PROVE WalkInv'
<1>1. /\ in' = in /\ files' = files /\ rendered' = rendered /\ pc = "walk" /\ at > Len(in.tree)
      /\ pc' = "exited" \/ (pc' = "build" /\ files # {})
  BY DEF EndWalk, Exit
<1>2. Sources' = Sources
  BY <1>1 DEF Sources
<1>3. Len(in.tree) \in Nat /\ Sources \subseteq 1..Len(in.tree)
  BY SourcesArePlaces DEF IInv
<1>4. /\ at \in 1..Len(in.tree) + 1 /\ files = {i \in Sources : i < at}
      /\ \A i \in files : in.tree[i].readable
      /\ ~rendered
  BY <1>1 DEF IInv, WalkInv, LoadInv
<1>5. files = Sources
  <2>1. \A i \in Sources : i < at
    BY <1>1, <1>3, <1>4
  <2> QED BY <1>4, <2>1
<1> QED BY <1>1, <1>2, <1>4, <1>5 DEF WalkInv

(* The walk begins at the first file. *)
LEMMA OthersWalk ==
    ASSUME IInv, [Next]_vars, ~(SkipFile \/ ParseFile \/ EndWalk)
    PROVE  WalkInv'
<1>1. in' = in
  BY InputsReadOnly
<1>2. Sources' = Sources
  BY <1>1 DEF Sources
<1>3. Len(in.tree) \in Nat /\ Sources \subseteq 1..Len(in.tree)
  BY SourcesArePlaces DEF IInv
<1>4. WalkInv /\ (rendered => pc \in {"apply", "exited"})
  BY DEF IInv, LoadInv
<1>5. CASE UNCHANGED vars
  BY <1>1, <1>2, <1>4, <1>5 DEF WalkInv, vars
<1>6. CASE Start \/ LoadServiceMap
  <2>1. /\ at' = at /\ files' = files /\ rendered' = rendered
        /\ pc \in {"start", "map"}
        /\ pc' \in {"exited", "walk", "parse", "readdir", "loadfiles"}
    BY <1>6 DEF Start, LoadServiceMap, Exit
  <2>2. at = 1 /\ files = {} /\ ~rendered
    BY <1>4, <2>1 DEF WalkInv
  <2>3. at \in 1..Len(in.tree) + 1 /\ files = {i \in Sources : i < at}
    <3>1. at \in 1..Len(in.tree) + 1
      BY <1>3, <2>2
    <3>2. \A i \in Sources : ~(i < at)
      BY <1>3, <2>2
    <3> QED BY <2>2, <3>1, <3>2
  <2> QED BY <1>1, <1>2, <2>1, <2>2, <2>3 DEF WalkInv
<1>7. CASE ReadDir \/ LoadPolicy \/ RefusePolicy \/ EndPolicies
  <2>1. /\ at' = at /\ files' = files /\ rendered' = rendered
        /\ pc \in {"readdir", "loaddir", "loadfiles"}
        /\ pc' \in {"loaddir", "loadfiles", "map", "exited"}
    BY <1>7 DEF ReadDir, LoadPolicy, RefusePolicy, EndPolicies, Loading, Exit
  <2>2. at = 1 /\ files = {} /\ ~rendered
    BY <1>4, <2>1 DEF WalkInv
  <2> QED BY <1>1, <1>2, <2>1, <2>2 DEF WalkInv
<1>8. CASE ParseNamed \/ EndParse \/ StartOther \/ UnknownLanguage \/ FailToParse \/ dumpGraph
  <2>1. /\ files' = files /\ rendered' = rendered
        /\ pc \in {"parse", "start", "walk", "build"}
        /\ pc' = "exited" \/ (pc = "parse" /\ pc' = "parse")
    BY <1>8 DEF ParseNamed, EndParse, StartOther, UnknownLanguage, FailToParse, dumpGraph,
                Visiting, Exit
  <2>2. ~rendered
    BY <1>4, <2>1
  <2>3. \A i \in files : in.tree[i].readable
    BY <1>4 DEF WalkInv
  <2> QED BY <1>1, <1>2, <2>1, <2>2, <2>3 DEF WalkInv
<1>9. CASE \/ BuildGraph \/ AnalyzePolicy \/ EndAnalyze \/ WriteReport \/ FailToRender \/ Render
           \/ ApplyPatches
  <2>1. /\ files' = files
        /\ pc \in {"build", "analyze", "render", "apply"}
        /\ pc' \in {"analyze", "render", "apply", "exited"}
    BY <1>9 DEF Exit, Rendering, BuildGraph, AnalyzePolicy, EndAnalyze, WriteReport,
       FailToRender, Render, ApplyPatches
  <2>2. files = Sources /\ Sources # {} /\ \A i \in files : in.tree[i].readable
    BY <1>4, <2>1 DEF WalkInv
  <2> QED BY <1>1, <1>2, <2>1, <2>2 DEF WalkInv
<1> QED BY <1>5, <1>6, <1>7, <1>8, <1>9 DEF Next

LEMMA NextWalks == ASSUME IInv, [Next]_vars PROVE WalkInv'
BY VisitWalks, EndWalkWalks, OthersWalk

-----------------------------------------------------------------------------
(* The analysis. *)
LEMMA FlatTypes ==
    ASSUME NEW by \in [Policy -> Seq(Finding)], NEW qs \in Seq(Policy)
    PROVE  /\ Image(by, qs) \in Seq(Seq(Finding))
           /\ FlattenSeq(Image(by, qs)) \in Seq(Finding)
<1> DEFINE ss == Image(by, qs)
<1>1. ss \in Seq(Seq(Finding))
  BY ImageProperties DEF IsImage
<1> HIDE DEF ss
<1>2. FlattenSeq(ss) \in Seq(Finding)
  BY <1>1, FlattenProperties
<1> QED BY <1>1, <1>2 DEF ss

LEMMA NothingFound ==
    ASSUME NEW by \in [Policy -> Seq(Finding)], NEW qs \in Seq(Policy)
    PROVE  AllButFound(qs, <<>>, by, qs)
<1> DEFINE all == FlattenSeq(Image(by, qs))
<1>1. all \in Seq(Finding)
  BY FlatTypes
<1> HIDE DEF all
<1>2. <<>> \o all = all
  BY <1>1, ConcatEmptySeq
<1> QED BY <1>2 DEF AllButFound, all

LEMMA FoundOne ==
    ASSUME NEW by \in [Policy -> Seq(Finding)], NEW qs \in Seq(Policy), NEW rest \in Seq(Policy),
           NEW found \in Seq(Finding), rest # <<>>, AllButFound(rest, found, by, qs)
    PROVE  AllButFound(Tail(rest), found \o by[Head(rest)], by, qs)
<1> DEFINE x == by[Head(rest)]
           one == <<x>>
           others == Image(by, Tail(rest))
           more == FlattenSeq(others)
<1>1. Head(rest) \in Policy /\ Tail(rest) \in Seq(Policy)
  BY TailProperties
<1>2. x \in Seq(Finding)
  BY <1>1
<1>3. others \in Seq(Seq(Finding)) /\ more \in Seq(Finding)
  BY <1>1, FlatTypes
<1>4. Image(by, rest) = one \o others
  BY ImageOfHead DEF ImageUnfolds
<1> HIDE DEF x
<1>5. one \in Seq(Seq(Finding)) /\ FlattenSeq(one) = x
  BY <1>2, FlattenOne
<1> HIDE DEF one, others
<1>6. FlattenSeq(one \o others) = x \o more
  BY <1>3, <1>5, FlattenConcat
<1> HIDE DEF more
<1>7. Associates(found, x, more)
  BY <1>2, <1>3, ConcatAssociates
<1>8. (found \o x) \o more = FlattenSeq(Image(by, qs))
  BY <1>4, <1>6, <1>7 DEF Associates, AllButFound
<1> QED BY <1>1, <1>8 DEF AllButFound, x, others, more

LEMMA AllFound ==
    ASSUME NEW by \in [Policy -> Seq(Finding)], NEW qs, NEW found \in Seq(Finding),
           AllButFound(<<>>, found, by, qs)
    PROVE  found = FlattenSeq(Image(by, qs))
<1>1. Image(by, <<>>) = <<>>
  BY DEF Image
<1>2. <<>> \in Seq(Seq(Finding))
  BY EmptySeq
<1>3. FlattenSeq(<<>>) = <<>>
  BY <1>2, FlattenProperties
<1>4. found \o <<>> = found
  BY ConcatEmptySeq
<1> QED BY <1>1, <1>3, <1>4 DEF AllButFound

LEMMA FoundByStays ==
    ASSUME in' = in, files' = files, bridged' = bridged
    PROVE  FoundBy' = FoundBy
BY DEF FoundBy, Analyze, policyAppliesToLang

LEMMA BuildFinds == ASSUME IInv, BuildGraph, TypeOK' PROVE FindInv'
<1>1. /\ pc = "build" /\ pc' = "analyze" /\ rendered' = rendered
      /\ findings' = findings /\ policies' = policies /\ todo' = policies
  BY DEF BuildGraph
<1>2. findings = <<>> /\ ~rendered
  BY <1>1 DEF IInv, FindInv, LoadInv
<1>3. FoundBy' \in [Policy -> Seq(Finding)] /\ policies \in Seq(Policy)
  BY FoundByAfter DEF FoundTyped, IInv, TypeOK
<1>4. AllButFound(todo', findings', FoundBy', policies')
  BY <1>1, <1>2, <1>3, NothingFound
<1> QED BY <1>1, <1>2, <1>3, <1>4 DEF FindInv

LEMMA AnalyzeFinds == ASSUME IInv, AnalyzePolicy PROVE FindInv'
<1>1. /\ pc = "analyze" /\ pc' = "analyze" /\ rendered' = rendered /\ todo # <<>>
      /\ policies' = policies /\ todo' = Tail(todo)
      /\ in' = in /\ files' = files /\ bridged' = bridged
      /\ findings' = IF policyAppliesToLang(Head(todo))
                     THEN findings \o Analyze(files, bridged, Head(todo))
                     ELSE findings
  BY DEF AnalyzePolicy
<1>2. /\ todo \in Seq(Policy) /\ AllButFound(todo, findings, FoundBy, policies)
      /\ findings \in Seq(Finding) /\ policies \in Seq(Policy) /\ ~rendered
  BY <1>1 DEF IInv, FindInv, LoadInv, TypeOK
<1>3. FoundBy' = FoundBy /\ FoundBy \in [Policy -> Seq(Finding)]
  BY <1>1, FoundByStays, FoundByTypes DEF FoundTyped, IInv
<1>4. Head(todo) \in Policy /\ Tail(todo) \in Seq(Policy)
  BY <1>1, <1>2, TailProperties
<1>5. findings' = findings \o FoundBy[Head(todo)]
  <2>1. FoundBy[Head(todo)] = IF policyAppliesToLang(Head(todo))
                              THEN Analyze(files, bridged, Head(todo)) ELSE <<>>
    BY <1>4 DEF FoundBy
  <2>2. findings \o <<>> = findings
    BY <1>2, ConcatEmptySeq
  <2> QED BY <1>1, <2>1, <2>2
<1>6. AllButFound(todo', findings', FoundBy', policies')
  BY <1>1, <1>2, <1>3, <1>5, FoundOne
<1> QED BY <1>1, <1>2, <1>4, <1>6 DEF FindInv

LEMMA EndFinds == ASSUME IInv, EndAnalyze PROVE FindInv'
<1>1. /\ pc = "analyze" /\ pc' = "render" /\ todo = <<>>
      /\ policies' = policies /\ findings' = findings
      /\ in' = in /\ files' = files /\ bridged' = bridged
  BY DEF EndAnalyze
<1>2. AllButFound(<<>>, findings, FoundBy, policies) /\ findings \in Seq(Finding)
  BY <1>1 DEF IInv, FindInv, TypeOK
<1>3. FoundBy' = FoundBy /\ FoundBy \in [Policy -> Seq(Finding)]
  BY <1>1, FoundByStays, FoundByTypes DEF FoundTyped, IInv
<1>4. findings = FlattenSeq(Image(FoundBy, policies))
  BY <1>2, <1>3, AllFound
<1> QED BY <1>1, <1>3, <1>4 DEF FindInv

LEMMA OthersFind ==
    ASSUME IInv, [Next]_vars, ~(BuildGraph \/ AnalyzePolicy \/ EndAnalyze)
    PROVE  FindInv'
<1>1. in' = in
  BY InputsReadOnly
<1>2. FindInv /\ (rendered => pc \in {"apply", "exited"})
  BY DEF IInv, LoadInv
<1>3. CASE \/ StartOther \/ Start \/ ReadDir \/ LoadPolicy \/ RefusePolicy \/ EndPolicies
           \/ LoadServiceMap \/ UnknownLanguage \/ SkipFile \/ ParseFile \/ EndWalk
  <2>1. /\ findings' = findings /\ rendered' = rendered
        /\ pc \in {"start", "readdir", "loaddir", "loadfiles", "map", "walk"}
        /\ pc' \notin {"analyze", "render", "apply"}
    BY <1>3 DEF Loading, Visiting, Exit, StartOther, Start, ReadDir, LoadPolicy, RefusePolicy,
       EndPolicies, LoadServiceMap, UnknownLanguage, SkipFile, ParseFile, EndWalk
  <2>2. findings = <<>> /\ ~rendered
    BY <1>2, <2>1 DEF FindInv
  <2> QED BY <2>1, <2>2 DEF FindInv
<1>4. CASE FailToParse \/ dumpGraph \/ ParseNamed \/ EndParse
  <2>1. /\ rendered' = rendered
        /\ pc \in {"walk", "build", "parse"}
        /\ pc' \in {"exited", "parse"}
    BY <1>4 DEF Visiting, Exit, FailToParse, dumpGraph, ParseNamed, EndParse
  <2>2. ~rendered
    BY <1>2, <2>1
  <2> QED BY <2>1, <2>2 DEF FindInv
<1>5. CASE WriteReport \/ FailToRender \/ Render \/ ApplyPatches
  <2>1. /\ findings' = findings /\ policies' = policies /\ files' = files /\ bridged' = bridged
        /\ pc \in {"render", "apply"}
        /\ pc' \in {"render", "apply", "exited"}
    BY <1>5 DEF Rendering, Exit, WriteReport, FailToRender, Render, ApplyPatches
  <2>2. FoundBy' = FoundBy
    BY <1>1, <2>1, FoundByStays
  <2>3. findings = FlattenSeq(Image(FoundBy, policies))
    BY <1>2, <2>1 DEF FindInv
  <2> QED BY <2>1, <2>2, <2>3 DEF FindInv
<1>6. CASE UNCHANGED vars
  <2>1. /\ findings' = findings /\ policies' = policies /\ files' = files /\ bridged' = bridged
        /\ pc' = pc /\ todo' = todo /\ rendered' = rendered
    BY <1>6 DEF vars
  <2>2. FoundBy' = FoundBy
    BY <1>1, <2>1, FoundByStays
  <2> QED BY <1>2, <2>1, <2>2 DEF FindInv
<1> QED BY <1>3, <1>4, <1>5, <1>6 DEF Next

LEMMA NextFinds == ASSUME IInv, [Next]_vars, TypeOK' PROVE FindInv'
BY BuildFinds, AnalyzeFinds, EndFinds, OthersFind

-----------------------------------------------------------------------------
(* The report. *)
LEMMA ReportStays ==
    ASSUME in' = in, findings' = findings, policies' = policies
    PROVE  Report' = Report
BY DEF Report, Checked, policyAppliesToLang

LEMMA BeforeWriting ==
    ASSUME IInv, TypeOK',
           \/ StartOther \/ Start \/ ReadDir \/ LoadPolicy \/ RefusePolicy \/ EndPolicies
           \/ LoadServiceMap \/ UnknownLanguage \/ SkipFile \/ ParseFile \/ FailToParse \/ EndWalk
           \/ BuildGraph \/ EndParse \/ AnalyzePolicy \/ EndAnalyze
    PROVE  WriteInv'
<1>1. /\ in' = in /\ stdout' = stdout /\ rendered' = rendered
      /\ pc \notin {"render", "apply", "exited"}
      /\ pc' \notin {"start", "apply"}
  BY DEF Exit, Loading, Visiting, StartOther, Start, ReadDir, LoadPolicy, RefusePolicy, EndPolicies,
         LoadServiceMap, UnknownLanguage, SkipFile, ParseFile, FailToParse, EndWalk, BuildGraph,
         EndParse, AnalyzePolicy, EndAnalyze
<1>2. ~rendered
  BY <1>1 DEF IInv, LoadInv
<1>3. in.command = "check" => stdout = <<>>
  BY <1>1 DEF IInv, WriteInv
<1>4. IsPrefix(<<>>, Report')
  BY ReportAfter DEF ReportTyped
<1> QED BY <1>1, <1>2, <1>3, <1>4 DEF WriteInv

LEMMA WriteReportWrites == ASSUME IInv, WriteReport PROVE WriteInv'
<1>1. /\ in' = in /\ findings' = findings /\ policies' = policies
      /\ pc = "render" /\ pc' = "render" /\ rendered' = rendered
      /\ Len(stdout) < Len(Report) /\ stdout' = Append(stdout, Report[Len(stdout) + 1])
  BY DEF WriteReport, Rendering
<1>2. Report' = Report
  BY <1>1, ReportStays
<1>3. ~rendered /\ in.command = "check" /\ IsPrefix(stdout, Report)
  BY <1>1 DEF IInv, LoadInv, WriteInv
<1>4. stdout \in Seq(Piece) /\ Report \in Seq(Piece)
  BY ReportTypes DEF IInv, TypeOK, ReportTyped
<1>5. IsPrefix(stdout', Report)
  BY <1>1, <1>3, <1>4, PrefixGrows
<1> QED BY <1>1, <1>2, <1>3, <1>5 DEF WriteInv

LEMMA FailsToRenderWrites == ASSUME IInv, FailToRender PROVE WriteInv'
<1>1. /\ in' = in /\ findings' = findings /\ policies' = policies
      /\ pc = "render" /\ pc' = "exited" /\ rendered' = rendered /\ stdout' = stdout
      /\ Len(stdout) < Len(Report) \/ in.format = "other"
  BY DEF FailToRender, Rendering, Exit
<1>2. Report' = Report
  BY <1>1, ReportStays
<1>3. ~rendered /\ IsPrefix(stdout, Report)
  BY <1>1 DEF IInv, LoadInv, WriteInv
<1>4. stdout \in Seq(Piece) /\ Report \in Seq(Piece)
  BY ReportTypes DEF IInv, TypeOK, ReportTyped
<1>5. stdout = <<>> \/ Len(stdout) < Len(Report)
  <2>1. in.format = "other" => Report = <<>>
    BY DEF Report, Writes
  <2>2. Len(stdout) < Len(Report) \/ stdout = Report
    BY <1>3, <1>4, PrefixGrows
  <2> QED BY <1>1, <2>1, <2>2
<1> QED BY <1>1, <1>2, <1>3, <1>5 DEF WriteInv

LEMMA RenderWrites == ASSUME IInv, Render PROVE WriteInv'
<1>1. /\ in' = in /\ findings' = findings /\ policies' = policies
      /\ pc = "render" /\ rendered' = TRUE /\ stdout' = stdout
      /\ in.format # "other" /\ ~(Len(stdout) < Len(Report))
      /\ IF in.apply THEN pc' = "apply" ELSE pc' = "exited"
  BY DEF Render, Rendering, Exit
<1>2. Report' = Report
  BY <1>1, ReportStays
<1>3. IsPrefix(stdout, Report)
  BY <1>1 DEF IInv, LoadInv, WriteInv
<1>4. stdout \in Seq(Piece) /\ Report \in Seq(Piece)
  BY ReportTypes DEF IInv, TypeOK, ReportTyped
<1>5. stdout = Report
  BY <1>1, <1>3, <1>4, PrefixGrows
<1> QED BY <1>1, <1>2, <1>5 DEF WriteInv

LEMMA ApplyPatchesWrites == ASSUME IInv, ApplyPatches PROVE WriteInv'
<1>1. /\ in' = in /\ findings' = findings /\ policies' = policies
      /\ pc = "apply" /\ pc' = "exited" /\ rendered' = rendered
      /\ stdout' = Append(stdout, Results("summary", <<>>))
  BY DEF ApplyPatches, Exit
<1>2. Report' = Report
  BY <1>1, ReportStays
<1>3. rendered /\ in.apply /\ stdout = Report /\ in.format # "other"
  BY <1>1 DEF IInv, LoadInv, WriteInv
<1> QED BY <1>1, <1>2, <1>3 DEF WriteInv

LEMMA NextWrites == ASSUME IInv, [Next]_vars, TypeOK' PROVE WriteInv'
<1>1. CASE dumpGraph \/ ParseNamed
  <2>1. /\ in' = in /\ rendered' = rendered /\ in.command # "check"
        /\ pc \in {"build", "parse"} /\ pc' # "start"
    BY <1>1 DEF IInv, ExitInv, dumpGraph, ParseNamed, Exit
  <2>2. ~rendered
    BY <2>1 DEF IInv, LoadInv
  <2> QED BY <2>1, <2>2 DEF WriteInv
<1>2. CASE UNCHANGED vars
  <2>1. Report' = Report
    BY <1>2, ReportStays DEF vars
  <2> QED BY <1>2, <2>1 DEF IInv, WriteInv, vars
<1> QED BY <1>1, <1>2, BeforeWriting, WriteReportWrites, FailsToRenderWrites, RenderWrites,
           ApplyPatchesWrites DEF Next

-----------------------------------------------------------------------------
(* The invariant holds at the start of a command, and every step keeps it. *)
Fresh ==
    /\ in \in Input /\ Stamped(in.found)
    /\ pc = "start" /\ todo = <<>> /\ policies = <<>> /\ at = 1 /\ files = {}
    /\ bridged = FALSE /\ findings = <<>> /\ stdout = <<>> /\ rendered = FALSE /\ code = -1

LEMMA FreshInv == Fresh => IInv
<1> SUFFICES ASSUME Fresh PROVE IInv
  OBVIOUS
<1>1. /\ <<>> \in Seq(Document) /\ <<>> \in Seq(Policy) /\ <<>> \in Seq(Finding)
      /\ <<>> \in Seq(Piece) /\ <<>> \in Seq(Range(<<>>))
  BY EmptySeq
<1>2. TypeOK
  BY <1>1 DEF Fresh, TypeOK
<1>3. LoadedInv
  BY <1>1 DEF Fresh, LoadedInv, UniqueIds
<1>4. ExitInv
  BY DEF Fresh, ExitInv, ExitTells
<1>5. LoadInv /\ WalkInv /\ FindInv /\ WriteInv
  BY DEF Fresh, LoadInv, WalkInv, FindInv, WriteInv
<1> QED BY <1>2, <1>3, <1>4, <1>5 DEF IInv, Fresh

LEMMA InitFresh == Init => Fresh
BY InputsAssumption, FoundAssumption DEF Init, Fresh

LEMMA NextInv == IInv /\ [Next]_vars => IInv'
<1> SUFFICES ASSUME IInv, [Next]_vars PROVE IInv'
  OBVIOUS
<1>1. TypeOK'
  BY NextTypes
<1>2. LoadedInv' /\ ExitInv'
  BY NextLoaded, NextExit DEF IInv
<1>3. Stamped(in.found)'
  BY InputsReadOnly DEF IInv, Stamped
<1>4. LoadInv' /\ WalkInv' /\ FindInv' /\ WriteInv'
  BY <1>1, NextLoads, NextWalks, NextFinds, NextWrites
<1> QED BY <1>1, <1>2, <1>3, <1>4 DEF IInv

-----------------------------------------------------------------------------
(* What the invariant means. *)
LEMMA ReportIsWhole == IInv => AllOrNothing
<1> SUFFICES ASSUME IInv, rendered PROVE AllOrNothing
  BY DEF AllOrNothing
<1> DEFINE images == Image(ParseEach, Named)
<1>1. AllBut(<<>>, policies, Named) /\ \A map \in in.smap : Loads(map)
  BY DEF IInv, LoadInv
<1>2. files = Sources /\ Sources # {} /\ \A i \in files : in.tree[i].readable
  BY DEF IInv, WalkInv
<1>3. policies \in Seq(Document) /\ Named \in Seq(Document)
  BY LoadedSeq, NamedTypes DEF IInv
<1>4. policies \o <<>> = policies
  BY <1>3, ConcatEmptySeq
<1>5. Image(ParseEach, <<>>) = <<>>
  BY DEF Image
<1>6. policies = images
  BY <1>1, <1>4, <1>5 DEF AllBut
<1>7. images = [i \in DOMAIN Named |-> Parse(Named[i])]
  <2>1. \A i \in DOMAIN Named : Named[i] \in Document
    BY <1>3, SeqElement
  <2> QED BY <2>1 DEF Image, ParseEach
<1>8. policies = [i \in DOMAIN Named |-> Parse(Named[i])]
  BY <1>6, <1>7
<1> QED BY <1>1, <1>2, <1>8 DEF AllOrNothing, Named, Sources

LEMMA SummaryShowsNothing ==
    ASSUME NEW w \in Seq(Piece)
    PROVE  Shown(Append(w, Results("summary", <<>>))) = Shown(w)
<1> DEFINE p == Results("summary", <<>>)
<1>1. p \in Piece /\ p.findings = <<>>
  BY EmptySeq, ResultsTypes
<1> HIDE DEF p
<1>2. Append(w, p) = w \o <<p>> /\ <<p>> \in Seq(Piece) /\ Shown(<<p>>) = <<>>
  BY <1>1, AppendIsConcat, OnePiece, ShownOne
<1>3. Shown(w \o <<p>>) = Shown(w) \o <<>>
  BY <1>2, ShownConcat
<1>4. Shown(w) \in Seq(Finding)
  <2> DEFINE ss == FindingsIn(w)
  <2>1. ss \in Seq(Seq(Finding))
    BY FindingsInTypes
  <2> HIDE DEF ss
  <2>2. FlattenSeq(ss) \in Seq(Finding)
    BY <2>1, FlattenProperties
  <2> QED BY <2>2 DEF ss, Shown, FindingsIn
<1>5. Shown(w) \o <<>> = Shown(w)
  BY <1>4, ConcatEmptySeq
<1>6. Shown(Append(w, p)) = Shown(w)
  BY <1>2, <1>3, <1>5
<1> QED BY <1>6 DEF p

(* A report that was written is followed by the summary at most. *)
LEMMA StdoutIsReport ==
    ASSUME IInv, rendered
    PROVE  /\ stdout = Report \/ stdout = Append(Report, Results("summary", <<>>))
           /\ ~in.apply => stdout = Report
           /\ in.format # "other"
BY DEF IInv, LoadInv, WriteInv

LEMMA ReportReads == IInv => ReportReadable
<1> SUFFICES ASSUME IInv, rendered PROVE ReportReadable
  BY DEF ReportReadable
<1>1. Report \in Seq(Piece) /\ Shown(Report) = findings
  BY ReportTypes, StdoutIsReport DEF IInv, ReportTyped
<1>2. Shown(Append(Report, Results("summary", <<>>))) = findings
  BY <1>1, SummaryShowsNothing
<1>3. Shown(stdout) = findings
  BY <1>1, <1>2, StdoutIsReport
<1>4. ASSUME in.format \in {"json", "sarif"}, ~in.apply PROVE Len(stdout) = 1
  <2>1. stdout = Report
    BY <1>4, StdoutIsReport
  <2>2. Len(Report) = 1
    <3>1. CASE in.format = "json"
      BY <3>1 DEF Report, Writes, renderJSON
    <3>2. CASE in.format = "sarif"
      BY <3>2 DEF Report, Writes, renderSARIF
    <3> QED BY <1>4, <3>1, <3>2
  <2> QED BY <2>1, <2>2
<1> QED BY <1>3, <1>4 DEF ReportReadable

(* Every finding is of a policy that was checked. *)
LEMMA FoundByChecked ==
    ASSUME IInv, rendered, NEW f \in Range(findings)
    PROVE  \E q \in Range(Checked) : f.policy = q.id
<1> DEFINE its == {g \in Finding : \E q \in Range(Checked) : g.policy = q.id}
           ss == Image(FoundBy, policies)
<1>1. findings = FlattenSeq(ss)
  BY DEF IInv, FindInv
<1>2. policies \in Seq(Policy) /\ FoundBy \in [Policy -> Seq(Finding)] /\ bridged \in BOOLEAN
  BY FoundByTypes DEF IInv, TypeOK, FoundTyped
<1>3. Range(Checked) = {q \in Range(policies) : policyAppliesToLang(q)}
  BY ReportTypes DEF IInv, ReportTyped
<1>4. ASSUME NEW i \in 1..Len(policies) PROVE FoundBy[policies[i]] \in Seq(its)
  <2> DEFINE q == policies[i]
             all == in.found[bridged][q.id]
             places == {j \in DOMAIN all : all[j].file \in files}
             kept == SelectAt(all, places)
  <2>1. q \in Policy /\ q \in Range(policies)
    <3>1. q \in Policy
      BY <1>2, ElementOfSeq
    <3>2. Range(policies) = {policies[j] : j \in 1..Len(policies)}
      BY <1>2, RangeEquality
    <3> QED BY <3>1, <3>2
  <2> HIDE DEF q
  <2>2. q.id \in GoodId /\ all \in Seq(Finding)
    BY <1>2, <2>1, PolicyTypes DEF IInv, TypeOK, Input
  <2>3. FoundBy[q] = IF policyAppliesToLang(q) THEN kept ELSE <<>>
    BY <2>1 DEF FoundBy, Analyze
  <2>4. \A j \in DOMAIN all : all[j].policy = q.id
    BY <1>2, <2>2 DEF IInv, Stamped
  <2> HIDE DEF all
  <2>5. kept \in Seq(Finding) /\ Range(kept) = {all[j] : j \in places \cap 1..Len(all)}
    <3> HIDE DEF places
    <3> QED BY <2>2, SelectAtPlaces, SelectAtRange
  <2> HIDE DEF places
  <2>6. DOMAIN all = 1..Len(all) /\ \A j \in 1..Len(all) : all[j] \in Finding
    BY <2>2, LenProperties, ElementOfSeq
  <2>7. policyAppliesToLang(q) => Range(kept) \subseteq its
    BY <1>3, <2>1, <2>4, <2>5, <2>6
  <2> HIDE DEF kept
  <2>8. kept \in Seq(Range(kept))
    BY <2>5, SeqOfRange
  <2> HIDE DEF its
  <2>9. policyAppliesToLang(q) => kept \in Seq(its)
    BY <2>7, <2>8, SeqMonotonic
  <2>10. <<>> \in Seq(its)
    BY EmptySeq
  <2>11. FoundBy[q] \in Seq(its)
    BY <2>3, <2>9, <2>10
  <2> QED BY <2>11 DEF q
<1> HIDE DEF its
<1>5. ss \in Seq(Seq(its))
  <2>1. /\ Len(policies) \in Nat
        /\ ss \in Seq(Seq(Finding)) /\ Len(ss) = Len(policies)
        /\ \A i \in 1..Len(policies) : ss[i] = FoundBy[policies[i]]
    <3>1. IsImage(ss, Seq(Finding), FoundBy, policies)
      BY <1>2, ImageProperties
    <3>2. Len(policies) \in Nat
      BY <1>2, LenProperties
    <3> HIDE DEF ss
    <3> QED BY <3>1, <3>2 DEF IsImage
  <2> HIDE DEF ss
  <2>2. ss \in [1..Len(policies) -> Seq(its)]
    <3>1. ss \in [1..Len(policies) -> Seq(Finding)]
      BY <2>1, LenProperties
    <3>2. \A i \in 1..Len(policies) : ss[i] \in Seq(its)
      BY <1>4, <2>1
    <3> QED BY <3>1, <3>2
  <2> QED BY <2>1, <2>2, FunctionIsSeq
<1> HIDE DEF ss
<1>6. findings \in Seq(its)
  BY <1>1, <1>5, FlattenProperties
<1>7. f \in its
  <2>1. Range(findings) \in SUBSET its
    BY <1>6, RangeOfSeq
  <2> QED BY <2>1
<1> QED BY <1>7 DEF its

LEMMA EveryResultHasItsRule == IInv => RulesResolve
<1> SUFFICES ASSUME IInv, rendered, in.format = "sarif" PROVE RulesResolve
  BY DEF RulesResolve
<1> DEFINE log == SARIFLog(Checked, findings)
           r == buildSARIFRules(Checked, findings)
           summary == Results("summary", <<>>)
<1>1. Checked \in Seq(Policy) /\ Range(Checked) = {q \in Range(policies) : policyAppliesToLang(q)}
      /\ findings \in Seq(Finding)
  BY ReportTypes DEF IInv, TypeOK, ReportTyped
<1>2. log \in Piece /\ log.rules = r
  BY <1>1, SARIFTypes
<1>3. /\ IsInjective(r)
      /\ Range(r) = {q.id : q \in Range(Checked)} \cup {f.policy : f \in Range(findings)}
  BY <1>1, RulesProperties
<1>4. Report = <<log>>
  BY DEF Report, Writes, renderSARIF, SARIFLog
<1>5. summary \in Piece
  BY EmptySeq, ResultsTypes
<1> HIDE DEF log, r
<1>6. stdout[1] = log
  <2>1. stdout = <<log>> \/ stdout = Append(<<log>>, summary)
    BY <1>4, StdoutIsReport DEF summary
  <2> HIDE DEF summary
  <2>2. Append(<<log>>, summary)[1] = log
    BY <1>2, <1>5
  <2> QED BY <2>1, <2>2
<1>7. {f.policy : f \in Range(findings)} \subseteq {q.id : q \in Range(Checked)}
  BY FoundByChecked
<1>8. Range(r) = {q.id : q \in {q \in Range(policies) : in.lang \in q.languages}}
  BY <1>1, <1>3, <1>7 DEF policyAppliesToLang
<1> QED BY <1>2, <1>3, <1>6, <1>8 DEF RulesResolve

LEMMA EditorShowsTheSame == IInv => EditorAgrees
<1> SUFFICES ASSUME IInv, rendered, in.dir, in.files = <<>>, ~bridged PROVE EditorAgrees
  BY DEF EditorAgrees
<1>1. Listed \in Seq(Document) /\ policies \in Seq(Policy)
  BY ListedTypes DEF IInv, TypeOK
<1>2. Named = Listed
  BY <1>1, ConcatEmptySeq DEF Named
<1>3. /\ policies = [i \in DOMAIN Listed |-> Parse(Listed[i])]
      /\ files = Sources /\ Sources # {}
      /\ \A i \in Sources : in.tree[i].readable
  BY <1>2, ReportIsWhole DEF AllOrNothing, Named, Sources
<1>4. /\ DOMAIN Listed = 1..Len(Listed) /\ Range(Listed) = {Listed[i] : i \in 1..Len(Listed)}
      /\ \A i \in 1..Len(Listed) : Listed[i] \in Document
  BY <1>1, LenProperties, RangeEquality, ElementOfSeq
<1>5. \A i \in DOMAIN Listed : Parses(Listed[i])
  <2>1. AllBut(<<>>, policies, Named)
    BY DEF IInv, LoadInv
  <2>2. Range(<<>>) = {}
    BY DEF Range
  <2> QED BY <1>2, <1>4, <2>1, <2>2 DEF AllBut
<1>6. \A i, j \in DOMAIN Listed : Listed[i].id = Listed[j].id => i = j
  <2>1. UniqueIds
    BY DEF IInv, LoadedInv
  <2>2. \A i \in DOMAIN Listed : policies[i].id = Listed[i].id
    BY <1>3, <1>4, ParseTypes
  <2>3. DOMAIN policies = DOMAIN Listed
    BY <1>3
  <2> QED BY <2>1, <2>2, <2>3 DEF UniqueIds
<1>7. in.lang \in Languages
  BY <1>3 DEF Sources, extForLang, Languages
<1>8. EditorFiles = Sources
  BY DEF EditorFiles, Sources, editorExts, extForLang
<1>9. EditorFindings = findings
  <2>1. findings = FlattenSeq(Image(FoundBy, policies))
    BY DEF IInv, FindInv
  <2>2. bridged = FALSE
    BY DEF IInv, TypeOK
  <2>3. ASSUME NEW i \in DOMAIN Listed
        PROVE  FoundBy[policies[i]] = IF in.lang \in Listed[i].languages
                                      THEN Analyze(EditorFiles, FALSE, Parse(Listed[i]))
                                      ELSE <<>>
    <3>1. /\ policies[i] = Parse(Listed[i]) /\ policies[i] \in Policy
          /\ policies[i].languages = Listed[i].languages
      BY <1>3, <1>4, <1>5, ParseTypes
    <3>2. FoundBy[policies[i]] = IF policyAppliesToLang(policies[i])
                                 THEN Analyze(files, bridged, policies[i]) ELSE <<>>
      BY <3>1 DEF FoundBy
    <3> QED BY <1>3, <1>8, <2>2, <3>1, <3>2 DEF policyAppliesToLang
  <2>4. Image(FoundBy, policies) = [i \in DOMAIN Listed |->
                                       IF in.lang \in Listed[i].languages
                                       THEN Analyze(EditorFiles, FALSE, Parse(Listed[i]))
                                       ELSE <<>>]
    <3>1. DOMAIN policies = DOMAIN Listed
      BY <1>3
    <3> QED BY <2>3, <3>1 DEF Image
  <2> QED BY <2>1, <2>4 DEF EditorFindings
<1> QED BY <1>3, <1>5, <1>6, <1>7, <1>8, <1>9 DEF EditorAgrees, EditorSucceeds

-----------------------------------------------------------------------------
LEMMA AlwaysIInv == Spec => []IInv
BY InitFresh, FreshInv, NextInv, PTL DEF Spec

(* The variables have their types: the policies analysed have all passed   *)
(* validation, and what is on stdout is pieces of a report.                *)
THEOREM TypesHold == Spec => []TypeOK
<1>1. IInv => TypeOK
  BY DEF IInv
<1> QED BY <1>1, AlwaysIInv, PTL

(* A report is of every document named, in order, of the service map and   *)
(* of every source of the language, or it is not written: no error of the  *)
(* loader or the front ends is passed over.                                *)
THEOREM NoPartialReport == Spec => []AllOrNothing
BY ReportIsWhole, AlwaysIInv, PTL

(* Stdout of a command that wrote its report shows its findings, each once *)
(* and in order, in every format, however many pieces they were written in. *)
THEOREM ReadersSeeTheFindings == Spec => []ReportReadable
BY ReportReads, AlwaysIInv, PTL

(* The rules of a SARIF log are those of the policies checked, each once,  *)
(* and every result refers to one of them.                                 *)
THEOREM RulesAreComplete == Spec => []RulesResolve
BY EveryResultHasItsRule, AlwaysIInv, PTL

(* What the editor's analyzer shows for the same directories is what the   *)
(* command reports.                                                        *)
THEOREM EditorAndCommandAgree == Spec => []EditorAgrees
BY EditorShowsTheSame, AlwaysIInv, PTL

-----------------------------------------------------------------------------
(* The action: two commands, and the comments of a pull request. *)

(* The inputs of the two commands of a job. *)
RunInputs ==
    /\ in.command = "check" /\ in.dir /\ in.files = <<>> /\ in.smap = {} /\ ~in.apply
    /\ step = "markdown" => in.format = "markdown"
    /\ step \in {"sarif", "upload"} => in.format = "sarif" /\ job.upload

(* Both commands of a job are to find what the editor would show. *)
RunInv ==
    /\ run.out \in Seq(Line)
    /\ run.code = 0 => run.whole /\ Shown(run.out) = <<>>
    /\ step # "markdown" /\ run.whole => Shown(run.out) = EditorFindings

UploadInv ==
    /\ step = "upload" => pc = "exited"
    /\ step \in {"list", "post", "enforce", "green"} /\ job.upload =>
           rendered /\ Shown(uploaded) = findings /\ findings = EditorFindings

Before == {i \in DOMAIN job.comments : job.comments[i].marked}

(* The pull request, as long as no rival is about. *)
CommentInv ==
    /\ step \in {"markdown", "sarif", "upload", "list", "post"} => comments = job.comments
    /\ step = "post" => existing = FirstMarked
    /\ step \in {"enforce", "green"} /\ job.comment =>
           /\ Cardinality(Before) <= 1 => Cardinality(Marked) = 1
           /\ comments[FirstMarked].body = run.out
           /\ \A i \in DOMAIN job.comments :
                  ~job.comments[i].marked => comments[i] = job.comments[i]

ActionInv ==
    /\ IInv
    /\ JobTypeOK
    /\ job.plain <=> step = "plain"
    /\ ~job.plain => RunInputs /\ ~bridged /\ RunInv /\ UploadInv /\ (rivals = 0 => CommentInv)
    /\ step = "green" /\ job.fail => run.code = 0

LEMMA LineTypes ==
    ASSUME NEW is \in {"none", "count", "finding", "rival"}, NEW fs \in Seq(Finding)
    PROVE  Results(is, fs) \in Line
BY DEF Results, Line

LEMMA OneLine == ASSUME NEW p \in Line PROVE <<p>> \in Seq(Line)
OBVIOUS

LEMMA MarkdownTypes ==
    ASSUME NEW fs \in Seq(Finding)
    PROVE  renderMarkdown(fs) \in Seq(Line)
<1> DEFINE N == Len(fs)
           each == Each(fs)
           count == Results("count", <<>>)
           none == Results("none", <<>>)
<1>1. N \in Nat /\ DOMAIN fs = 1..N /\ \A i \in 1..N : fs[i] \in Finding
  BY LenProperties, ElementOfSeq
<1>2. \A i \in 1..N : <<fs[i]>> \in Seq(Finding)
  BY <1>1, OneFinding
<1>3. \A i \in 1..N : Results("finding", <<fs[i]>>) \in Line
  BY <1>2, LineTypes
<1>4. each \in [1..N -> Line]
  <2> HIDE DEF N
  <2> QED BY <1>1, <1>3 DEF Each
<1>5. each \in Seq(Line)
  <2> HIDE DEF N, each
  <2> QED BY <1>1, <1>4, FunctionIsSeq
<1>6. count \in Line /\ none \in Line
  BY EmptySeq, LineTypes
<1>7. renderMarkdown(fs) = IF fs = <<>> THEN <<none>> ELSE <<count>> \o each
  BY DEF renderMarkdown
<1> HIDE DEF each, count, none
<1>8. <<count>> \in Seq(Line) /\ <<none>> \in Seq(Line)
  BY <1>6, OneLine
<1>9. <<count>> \o each \in Seq(Line)
  BY <1>5, <1>8, ConcatProperties
<1> QED BY <1>7, <1>8, <1>9

(* What the markdown run leaves behind. *)
LEMMA MarkdownRun ==
    ASSUME ActionInv, step = "markdown", pc = "exited"
    PROVE  /\ stdout \in Seq(Line)
           /\ code = 0 => rendered /\ Shown(stdout) = <<>>
           /\ rendered => Shown(stdout) = EditorFindings
<1>1. /\ IInv /\ RunInputs /\ ~bridged /\ in.format = "markdown"
  BY DEF ActionInv, RunInputs
<1>2. findings \in Seq(Finding) /\ stdout \in Seq(Piece)
  BY <1>1 DEF IInv, TypeOK
<1>3. Report \in Seq(Line)
  BY <1>1, <1>2, MarkdownTypes DEF Report, Writes
<1>4. stdout \in Seq(Line)
  <2>1. CASE rendered
    BY <1>1, <1>3, <2>1, StdoutIsReport DEF RunInputs
  <2>2. CASE ~rendered
    <3>1. IsPrefix(stdout, Report)
      BY <1>1, <2>2 DEF IInv, WriteInv, RunInputs
    <3> QED BY <1>2, <1>3, <3>1, PrefixTyped
  <2> QED BY <2>1, <2>2
<1>5. rendered => Shown(stdout) = findings /\ EditorFindings = findings
  BY <1>1, ReportReads, EditorShowsTheSame DEF ReportReadable, EditorAgrees, RunInputs
<1>6. ASSUME code = 0 PROVE rendered /\ findings = <<>>
  <2>1. rendered /\ \A i \in DOMAIN findings : in.apply
    BY <1>1, <1>6 DEF IInv, ExitInv, ExitTells, RunInputs
  <2>2. DOMAIN findings = {}
    BY <1>1, <2>1 DEF RunInputs
  <2>3. Len(findings) = 0
    BY <1>2, <2>2, LenProperties
  <2>4. findings = <<>>
    BY <1>2, <2>3, EmptySeq
  <2> QED BY <2>1, <2>4
<1> QED BY <1>4, <1>5, <1>6

FirstMarkedPlaced ==
    /\ FirstMarked \in 0..Len(comments)
    /\ DOMAIN comments = 1..Len(comments) /\ Len(comments) \in Nat
    /\ FirstMarked = 0 <=> Marked = {}
    /\ Marked # {} => FirstMarked \in Marked

LEMMA FirstMarkedIsPlace == JobTypeOK => FirstMarkedPlaced
<1> SUFFICES ASSUME JobTypeOK PROVE FirstMarkedPlaced
  OBVIOUS
<1>1. comments \in Seq(Comment)
  BY DEF JobTypeOK
<1>2. DOMAIN comments = 1..Len(comments) /\ Len(comments) \in Nat
  BY <1>1, LenProperties
<1>3. Marked \in SUBSET Nat /\ Marked \subseteq 1..Len(comments)
  BY <1>2 DEF Marked
<1>4. ASSUME Marked # {} PROVE FirstMarked \in Marked /\ \A i \in Marked : FirstMarked <= i
  <2>1. FirstMarked = CHOOSE m \in Marked : \A i \in Marked : m <= i
    BY <1>4 DEF FirstMarked, Min
  <2>2. \E m \in Marked : \A i \in Marked : m <= i
    <3> DEFINE M == Marked
    <3>1. M \in SUBSET Nat /\ M # {}
      BY <1>3, <1>4
    <3> HIDE DEF M
    <3>2. \E m \in M : \A i \in M : m <= i
      BY <3>1, LeastNatural
    <3> QED BY <3>2 DEF M
  <2> QED BY <2>1, <2>2
<1>5. Marked = {} => FirstMarked = 0
  BY DEF FirstMarked
<1>6. Marked # {} => FirstMarked \in 1..Len(comments)
  BY <1>3, <1>4
<1>7. FirstMarked \in 0..Len(comments) /\ (FirstMarked = 0 <=> Marked = {})
  <2>1. CASE Marked = {}
    BY <1>2, <1>5, <2>1
  <2>2. CASE Marked # {}
    BY <1>2, <1>6, <2>2
  <2> QED BY <2>1, <2>2
<1> QED BY <1>2, <1>4, <1>7 DEF FirstMarkedPlaced

LEMMA FirstMarkedAfter == JobTypeOK' => FirstMarkedPlaced'
BY FirstMarkedIsPlace, PTL

LEMMA CommentsTyped ==
    ASSUME JobTypeOK, RunInv
    PROVE  /\ FindingsFile \in Comment
           /\ Append(comments, FindingsFile) \in Seq(Comment)
           /\ Len(Append(comments, FindingsFile)) = Len(comments) + 1
           /\ existing # 0 => /\ [comments EXCEPT ![existing] = FindingsFile] \in Seq(Comment)
                              /\ Len([comments EXCEPT ![existing] = FindingsFile]) = Len(comments)
<1>1. FindingsFile \in Comment
  BY DEF RunInv, FindingsFile, Comment
<1>2. comments \in Seq(Comment) /\ existing \in 0..Len(comments)
  BY DEF JobTypeOK
<1> DEFINE its == FindingsFile
<1> HIDE DEF its
<1>3. its \in Comment
  BY <1>1 DEF its
<1>4. Append(comments, its) \in Seq(Comment) /\ Len(Append(comments, its)) = Len(comments) + 1
  BY <1>2, <1>3, AppendProperties
<1>5. ASSUME existing # 0
      PROVE  /\ [comments EXCEPT ![existing] = its] \in Seq(Comment)
             /\ Len([comments EXCEPT ![existing] = its]) = Len(comments)
  <2>1. existing \in 1..Len(comments)
    BY <1>2, <1>5, LenProperties
  <2> QED BY <1>2, <1>3, <2>1, ExceptSeq
<1> QED BY <1>3, <1>4, <1>5 DEF its

(* The comment step, when no rival has been about. *)
LEMMA PostTells ==
    ASSUME JobTypeOK, JobTypeOK', RunInv, comments = job.comments, existing = FirstMarked,
           run' = run, job' = job,
           comments' = IF existing # 0 THEN [comments EXCEPT ![existing] = FindingsFile]
                       ELSE Append(comments, FindingsFile)
    PROVE  /\ Cardinality(Before) <= 1 => Cardinality(Marked') = 1
           /\ comments'[FirstMarked'].body = run.out
           /\ \A i \in DOMAIN job.comments :
                  ~job.comments[i].marked => comments'[i] = job.comments[i]
<1>1. FirstMarkedPlaced /\ FirstMarkedPlaced'
  BY FirstMarkedIsPlace, FirstMarkedAfter
<1>2. /\ Len(comments) \in Nat /\ DOMAIN comments = 1..Len(comments)
      /\ \A i \in Marked : i \in 1..Len(comments) /\ comments[i].marked
      /\ \A i \in 1..Len(comments) : comments[i].marked => i \in Marked
      /\ Before = Marked
  BY <1>1 DEF FirstMarkedPlaced, Marked, Before
<1>3. FindingsFile.marked /\ FindingsFile.body = run.out
  BY DEF FindingsFile
<1>4. CASE existing # 0
  <2>1. existing \in Marked
    BY <1>1, <1>4 DEF FirstMarkedPlaced
  <2>2. /\ DOMAIN comments' = 1..Len(comments)
        /\ comments'[existing] = FindingsFile
        /\ \A i \in 1..Len(comments) : i # existing => comments'[i] = comments[i]
    BY <1>2, <1>4, <2>1
  <2>3. Marked' = Marked
    <3>1. Marked' = {i \in 1..Len(comments) : comments'[i].marked}
      BY <2>2 DEF Marked
    <3>2. \A i \in 1..Len(comments) : comments'[i].marked <=> i \in Marked
      BY <1>2, <1>3, <2>1, <2>2
    <3> QED BY <1>2, <3>1, <3>2
  <2>4. FirstMarked' = FirstMarked
    BY <2>3 DEF FirstMarked
  <2>5. Cardinality(Before) <= 1 => Cardinality(Marked') = 1
    <3> DEFINE M == Marked
    <3>1. M \subseteq 1..Len(comments) /\ M # {}
      BY <1>2, <2>1
    <3> HIDE DEF M
    <3>2. IsFiniteSet(M)
      <4>1. 1 \in Int /\ Len(comments) \in Int
        BY <1>2
      <4>2. IsFiniteSet(1..Len(comments))
        BY <4>1, FS_Interval
      <4> QED BY <3>1, <4>2, FS_Subset
    <3>3. Cardinality(M) \in Nat /\ Cardinality(M) # 0
      BY <3>1, <3>2, FS_CardinalityType, FS_EmptySet
    <3>4. Cardinality(M) <= 1 => Cardinality(M) = 1
      BY <3>3
    <3> QED BY <1>2, <2>3, <3>4 DEF M
  <2>6. ASSUME NEW i \in DOMAIN job.comments, ~job.comments[i].marked
        PROVE  comments'[i] = job.comments[i]
    BY <1>2, <2>1, <2>2, <2>6
  <2> QED BY <1>3, <2>2, <2>4, <2>5, <2>6
<1>5. CASE existing = 0
  <2>1. Marked = {}
    BY <1>1, <1>5 DEF FirstMarkedPlaced
  <2> DEFINE last == Len(comments) + 1
             its == FindingsFile
  <2>2. its \in Comment /\ comments \in Seq(Comment)
    BY CommentsTyped DEF JobTypeOK
  <2> HIDE DEF its
  <2>3. /\ comments' \in Seq(Comment) /\ Len(comments') = last
        /\ \A i \in 1..Len(comments) : comments'[i] = comments[i]
        /\ comments'[last] = its
    BY <1>5, <2>2, AppendProperties DEF its
  <2>4. DOMAIN comments' = 1..last
    BY <2>3, LenProperties
  <2>5. Marked' = {last}
    <3>1. Marked' = {i \in 1..last : comments'[i].marked}
      BY <2>4 DEF Marked
    <3>2. \A i \in 1..last : comments'[i].marked <=> i = last
      BY <1>2, <1>3, <2>1, <2>3 DEF its
    <3>3. last \in 1..last
      BY <1>2
    <3> HIDE DEF last
    <3> QED BY <3>1, <3>2, <3>3
  <2>6. FirstMarked' = last
    BY <1>1, <2>5 DEF FirstMarkedPlaced
  <2>7. Cardinality(Marked') = 1
    BY <2>5, FS_Singleton
  <2> QED BY <1>2, <1>3, <2>3, <2>6, <2>7 DEF its
<1> QED BY <1>4, <1>5

-----------------------------------------------------------------------------
(* Every step of the job keeps its invariant. *)
LEMMA VarsStay ==
    ASSUME IInv, UNCHANGED vars
    PROVE  /\ IInv'
           /\ EditorFindings' = EditorFindings
           /\ in' = in /\ pc' = pc /\ bridged' = bridged /\ rendered' = rendered
           /\ findings' = findings
<1>1. IInv'
  BY NextInv
<1>2. in' = in /\ pc' = pc /\ bridged' = bridged /\ rendered' = rendered /\ findings' = findings
  BY DEF vars
<1>3. EditorFindings' = EditorFindings
  BY <1>2 DEF EditorFindings, Listed, Analyze, EditorFiles
<1> QED BY <1>1, <1>2, <1>3

LEMMA CommandKeeps == ASSUME ActionInv, RunCommand PROVE ActionInv'
<1>1. /\ step \in {"plain", "markdown", "sarif"} /\ Next
      /\ job' = job /\ step' = step /\ run' = run /\ uploaded' = uploaded
      /\ comments' = comments /\ existing' = existing /\ rivals' = rivals
  BY DEF RunCommand, jobVars
<1>2. IInv' /\ in' = in
  BY <1>1, NextInv, InputsReadOnly DEF ActionInv
<1>3. JobTypeOK'
  BY <1>1 DEF ActionInv, JobTypeOK
<1>4. EditorFindings' = EditorFindings
  BY <1>2 DEF EditorFindings, Listed, Analyze, EditorFiles
<1>5. ASSUME ~job.plain
      PROVE  RunInputs' /\ ~bridged' /\ RunInv' /\ UploadInv' /\ (rivals' = 0 => CommentInv')
  <2>1. RunInputs /\ ~bridged /\ RunInv /\ UploadInv /\ (rivals = 0 => CommentInv)
    BY <1>5 DEF ActionInv
  <2>2. RunInputs'
    BY <1>1, <1>2, <2>1 DEF RunInputs
  <2>3. ~bridged'
    <3>1. CASE BuildGraph
      BY <2>1, <3>1 DEF BuildGraph, RunInputs
    <3>2. CASE ~BuildGraph
      <4>1. bridged' = bridged
        BY <1>1, <3>2 DEF Next, StartOther, Start, ReadDir, LoadPolicy, RefusePolicy,
           EndPolicies, LoadServiceMap, UnknownLanguage, SkipFile, ParseFile, FailToParse, EndWalk,
           dumpGraph, ParseNamed, EndParse, AnalyzePolicy, EndAnalyze, WriteReport,
           FailToRender, Render, ApplyPatches
      <4> QED BY <2>1, <4>1
    <3> QED BY <3>1, <3>2
  <2>4. RunInv'
    BY <1>1, <1>4, <2>1 DEF RunInv
  <2>5. UploadInv'
    BY <1>1 DEF UploadInv
  <2>6. rivals' = 0 => CommentInv'
    <3>1. Marked' = Marked /\ Before' = Before
      BY <1>1 DEF Marked, Before
    <3> QED BY <1>1, <2>1, <3>1 DEF CommentInv
  <2> QED BY <2>2, <2>3, <2>4, <2>5, <2>6
<1> QED BY <1>1, <1>2, <1>3, <1>5 DEF ActionInv

LEMMA FreshAfter == Fresh' => IInv'
BY FreshInv, PTL

LEMMA EndMarkdownKeeps == ASSUME ActionInv, EndMarkdown PROVE ActionInv'
<1>1. /\ step = "markdown" /\ pc = "exited"
      /\ run' = [code |-> code, out |-> stdout, whole |-> rendered]
      /\ job' = job /\ uploaded' = uploaded /\ comments' = comments /\ existing' = existing
      /\ rivals' = rivals
  BY DEF EndMarkdown
<1>2. /\ IInv /\ JobTypeOK /\ ~job.plain
      /\ RunInputs /\ ~bridged /\ RunInv /\ (rivals = 0 => CommentInv)
  BY <1>1 DEF ActionInv
<1>3. /\ in' = IF job.upload THEN [in EXCEPT !.format = "sarif"] ELSE in
      /\ step' = IF job.upload THEN "sarif" ELSE AfterRuns
      /\ bridged' = bridged
  <2>1. CASE job.upload
    BY <1>2, <2>1 DEF EndMarkdown, Then, IInv, TypeOK
  <2>2. CASE ~job.upload
    BY <2>2 DEF EndMarkdown, Then, vars
  <2> QED BY <2>1, <2>2
<1>4. in \in Input
  BY <1>2 DEF IInv, TypeOK
<1>5. /\ in' \in Input /\ in'.found = in.found
      /\ in'.command = in.command /\ in'.dir = in.dir /\ in'.files = in.files
      /\ in'.smap = in.smap /\ in'.apply = in.apply /\ in'.entries = in.entries
      /\ in'.tree = in.tree /\ in'.lang = in.lang
      /\ job.upload => in'.format = "sarif"
  <2>1. CASE job.upload
    BY <1>3, <1>4, <2>1 DEF Input
  <2>2. CASE ~job.upload
    BY <1>3, <1>4, <2>2
  <2> QED BY <2>1, <2>2
<1>6. EditorFindings' = EditorFindings
  BY <1>5 DEF EditorFindings, Listed, Analyze, EditorFiles
<1>7. IInv'
  <2>1. CASE job.upload
    <3>1. Stamped(in'.found)
      BY <1>2, <1>5 DEF IInv, Stamped
    <3>2. Fresh'
      BY <1>5, <2>1, <3>1 DEF Fresh, EndMarkdown
    <3> QED BY <3>2, FreshAfter
  <2>2. CASE ~job.upload
    <3>1. UNCHANGED vars
      BY <2>2 DEF EndMarkdown
    <3> QED BY <1>2, <3>1, VarsStay
  <2> QED BY <2>1, <2>2
<1>8. step' \in {"sarif", "list", "enforce"}
  BY <1>3 DEF AfterRuns
<1>9. run'.code = code /\ run'.out = stdout /\ run'.whole = rendered
  BY <1>1
<1>10. JobTypeOK'
  <2>1. code \in {-1, 0, 1, 2}
    BY <1>2 DEF IInv, TypeOK
  <2> QED BY <1>1, <1>2, <1>8, <1>9, <2>1 DEF JobTypeOK
<1>11. RunInputs'
  BY <1>1, <1>2, <1>3, <1>5, <1>8 DEF RunInputs, AfterRuns
<1>12. RunInv'
  BY <1>1, <1>6, <1>9, MarkdownRun DEF RunInv
<1>13. UploadInv'
  BY <1>1, <1>3, <1>8 DEF UploadInv
<1>14. rivals' = 0 => CommentInv'
  BY <1>1, <1>2, <1>3, <1>8 DEF CommentInv, AfterRuns
<1> QED BY <1>1, <1>2, <1>3, <1>7, <1>8, <1>10, <1>11, <1>12, <1>13, <1>14 DEF ActionInv

(* The steps that leave the command, its results and the job alone. *)
LEMMA StepKeeps ==
    ASSUME ActionInv, UNCHANGED <<vars, job, run>>, JobTypeOK', ~job.plain,
           step' \notin {"plain", "markdown", "sarif"},
           step # "markdown",
           step' = "upload" => in.format = "sarif" /\ job.upload,
           UploadInv', rivals' = 0 => CommentInv',
           step' = "green" /\ job.fail => run.code = 0
    PROVE  ActionInv'
<1>1. /\ IInv' /\ EditorFindings' = EditorFindings
      /\ in' = in /\ bridged' = bridged /\ job' = job /\ run' = run
  BY VarsStay DEF ActionInv
<1>2. RunInputs /\ ~bridged /\ RunInv
  BY DEF ActionInv
<1>3. RunInputs' /\ RunInv'
  BY <1>1, <1>2 DEF RunInputs, RunInv
<1> QED BY <1>1, <1>2, <1>3 DEF ActionInv

LEMMA EndSarifKeeps == ASSUME ActionInv, EndSarif PROVE ActionInv'
<1>1. /\ step = "sarif" /\ pc = "exited" /\ step' = "upload"
      /\ UNCHANGED <<vars, job, run, uploaded, comments, existing, rivals>>
  BY DEF EndSarif, Then
<1>2. /\ ~job.plain /\ JobTypeOK /\ RunInputs /\ (rivals = 0 => CommentInv)
  BY <1>1 DEF ActionInv
<1>3. JobTypeOK'
  BY <1>1, <1>2 DEF JobTypeOK
<1>4. UploadInv'
  BY <1>1 DEF UploadInv, vars
<1>5. rivals' = 0 => CommentInv'
  BY <1>1, <1>2 DEF CommentInv
<1>6. in.format = "sarif" /\ job.upload
  BY <1>1, <1>2 DEF RunInputs
<1> QED BY <1>1, <1>2, <1>3, <1>4, <1>5, <1>6, StepKeeps

(* A SARIF run writes all or nothing. *)
LEMMA SarifRun ==
    ASSUME ActionInv, step = "upload", stdout # <<>>
    PROVE  rendered /\ Shown(stdout) = findings /\ findings = EditorFindings
<1>1. /\ IInv /\ ~job.plain /\ RunInputs /\ ~bridged /\ pc = "exited" /\ in.format = "sarif"
  BY DEF ActionInv, JobTypeOK, RunInputs, UploadInv
<1>2. rendered
  <2> SUFFICES ASSUME ~rendered PROVE FALSE
    OBVIOUS
  <2>1. Len(Report) = 1
    BY <1>1 DEF Report, Writes, renderSARIF
  <2>2. Len(stdout) < Len(Report)
    BY <1>1 DEF IInv, WriteInv, RunInputs
  <2>3. stdout \in Seq(Piece)
    BY <1>1 DEF IInv, TypeOK
  <2>4. Len(stdout) \in Nat \ {0}
    BY <2>3, EmptySeq
  <2> QED BY <2>1, <2>2, <2>4
<1> QED BY <1>1, <1>2, ReportReads, EditorShowsTheSame DEF ReportReadable, EditorAgrees, RunInputs

LEMMA UploadKeeps == ASSUME ActionInv, Upload PROVE ActionInv'
<1>1. /\ step = "upload"
      /\ \/ stdout # <<>> /\ uploaded' = stdout /\ step' = AfterRuns
         \/ step' = "red"
      /\ UNCHANGED <<vars, job, run, comments, existing, rivals>>
  BY DEF Upload, Then
<1>2. ~job.plain /\ JobTypeOK /\ RunInputs /\ (rivals = 0 => CommentInv)
  BY <1>1 DEF ActionInv
<1>3. step' \in {"list", "enforce", "red"} /\ (step' = "enforce" => ~job.comment)
  BY <1>1 DEF AfterRuns
<1>4. JobTypeOK'
  BY <1>1, <1>2, <1>3 DEF JobTypeOK
<1>5. UploadInv'
  <2>1. IInv
    BY DEF ActionInv
  <2>2. EditorFindings' = EditorFindings /\ rendered' = rendered /\ findings' = findings
    BY <1>1, <2>1, VarsStay
  <2>3. CASE step' = "red"
    BY <2>3 DEF UploadInv
  <2>4. CASE step' # "red"
    <3>1. stdout # <<>> /\ uploaded' = stdout
      BY <1>1, <2>4
    <3>2. rendered /\ Shown(stdout) = findings /\ findings = EditorFindings
      BY <1>1, <3>1, SarifRun
    <3>3. Shown(uploaded') = findings
      BY <3>1, <3>2
    <3> QED BY <1>3, <2>2, <3>2, <3>3 DEF UploadInv
  <2> QED BY <2>3, <2>4
<1>6. rivals' = 0 => CommentInv'
  BY <1>1, <1>2, <1>3 DEF CommentInv
<1> QED BY <1>1, <1>2, <1>3, <1>4, <1>5, <1>6, StepKeeps

(* Behind the runs, what was uploaded stays. *)
LEMMA UploadStays ==
    ASSUME ActionInv, ~job.plain, UNCHANGED <<vars, job, uploaded>>,
           step \in {"list", "post", "enforce", "green"},
           step' \in {"list", "post", "enforce", "green", "red"}
    PROVE  UploadInv'
<1>1. IInv /\ UploadInv
  BY DEF ActionInv
<1>2. EditorFindings' = EditorFindings /\ rendered' = rendered /\ findings' = findings
  BY <1>1, VarsStay
<1> QED BY <1>1, <1>2 DEF UploadInv

LEMMA ListKeeps == ASSUME ActionInv, ListComments PROVE ActionInv'
<1>1. /\ step = "list"
      /\ \/ existing' = FirstMarked /\ step' = "post"
         \/ existing' = existing /\ step' = "red"
      /\ UNCHANGED <<vars, job, run, uploaded, comments, rivals>>
  BY DEF ListComments, Then
<1>2. ~job.plain /\ JobTypeOK /\ (rivals = 0 => CommentInv)
  BY <1>1 DEF ActionInv
<1>3. JobTypeOK'
  <2>1. FirstMarked \in 0..Len(comments)
    BY <1>2, FirstMarkedIsPlace DEF FirstMarkedPlaced
  <2> QED BY <1>1, <1>2, <2>1 DEF JobTypeOK
<1>4. UploadInv'
  BY <1>1, <1>2, UploadStays
<1>5. rivals' = 0 => CommentInv'
  <2>1. FirstMarked' = FirstMarked
    BY <1>1 DEF FirstMarked, Marked
  <2> QED BY <1>1, <1>2, <2>1 DEF CommentInv
<1> QED BY <1>1, <1>2, <1>3, <1>4, <1>5, StepKeeps

LEMMA PostKeeps == ASSUME ActionInv, PostComment PROVE ActionInv'
<1>1. /\ step = "post"
      /\ \/ /\ comments' = IF existing # 0 THEN [comments EXCEPT ![existing] = FindingsFile]
                           ELSE Append(comments, FindingsFile)
            /\ step' = "enforce"
         \/ step' = "red" /\ comments' = comments
      /\ UNCHANGED <<vars, job, run, uploaded, existing, rivals>>
  BY DEF PostComment, Then
<1>2. ~job.plain /\ JobTypeOK /\ RunInv /\ (rivals = 0 => CommentInv)
  BY <1>1 DEF ActionInv
<1>3. JobTypeOK'
  <2>1. existing \in 0..Len(comments) /\ Len(comments) \in Nat
    BY <1>2, LenProperties DEF JobTypeOK
  <2>2. comments' \in Seq(Comment) /\ Len(comments) <= Len(comments')
    BY <1>1, <1>2, <2>1, CommentsTyped DEF JobTypeOK
  <2>3. existing' \in 0..Len(comments')
    BY <1>1, <2>1, <2>2, LenProperties
  <2> QED BY <1>1, <1>2, <2>2, <2>3 DEF JobTypeOK
<1>4. UploadInv'
  BY <1>1, <1>2, UploadStays
<1>5. rivals' = 0 => CommentInv'
  <2> SUFFICES ASSUME rivals' = 0 PROVE CommentInv'
    OBVIOUS
  <2>1. CASE step' = "red"
    BY <2>1 DEF CommentInv
  <2>2. CASE step' = "enforce"
    <3>1. comments = job.comments /\ existing = FirstMarked
      BY <1>1, <1>2 DEF CommentInv
    <3>2. comments' = IF existing # 0 THEN [comments EXCEPT ![existing] = FindingsFile]
                      ELSE Append(comments, FindingsFile)
      BY <1>1, <2>2
    <3>3. run' = run /\ job' = job
      BY <1>1
    <3>4. /\ Cardinality(Before) <= 1 => Cardinality(Marked') = 1
          /\ comments'[FirstMarked'].body = run.out
          /\ \A i \in DOMAIN job.comments :
                 ~job.comments[i].marked => comments'[i] = job.comments[i]
      BY <1>2, <1>3, <3>1, <3>2, <3>3, PostTells
    <3>5. Before' = Before
      BY <3>3 DEF Before
    <3> QED BY <2>2, <3>3, <3>4, <3>5 DEF CommentInv
  <2> QED BY <1>1, <2>1, <2>2
<1> QED BY <1>1, <1>2, <1>3, <1>4, <1>5, StepKeeps

LEMMA EnforceKeeps == ASSUME ActionInv, Enforce PROVE ActionInv'
<1>1. /\ step = "enforce"
      /\ step' = IF job.fail /\ run.code # 0 THEN "red" ELSE "green"
      /\ UNCHANGED <<vars, job, run, uploaded, comments, existing, rivals>>
  BY DEF Enforce, Then
<1>2. ~job.plain /\ JobTypeOK /\ (rivals = 0 => CommentInv)
  BY <1>1 DEF ActionInv
<1>3. step' \in {"green", "red"} /\ (step' = "green" /\ job.fail => run.code = 0)
  BY <1>1
<1>4. JobTypeOK'
  BY <1>1, <1>2, <1>3 DEF JobTypeOK
<1>5. UploadInv'
  BY <1>1, <1>2, <1>3, UploadStays
<1>6. rivals' = 0 => CommentInv'
  <2>1. FirstMarked' = FirstMarked /\ Marked' = Marked /\ Before' = Before
    BY <1>1 DEF FirstMarked, Marked, Before
  <2> QED BY <1>1, <1>2, <1>3, <2>1 DEF CommentInv
<1> QED BY <1>1, <1>2, <1>3, <1>4, <1>5, <1>6, StepKeeps

LEMMA RivalKeeps == ASSUME ActionInv, RivalPosts PROVE ActionInv'
<1> DEFINE its == [marked |-> TRUE, body |-> <<Results("rival", <<>>)>>]
<1>1. /\ step \notin {"plain", "green", "red"} /\ rivals < MaxRivals /\ rivals' = rivals + 1
      /\ UNCHANGED <<vars, job, step, run, uploaded, existing>>
  BY DEF RivalPosts
<1>2. PICK i \in {0, FirstMarked} :
          comments' = IF i = 0 THEN Append(comments, its) ELSE [comments EXCEPT ![i] = its]
  BY DEF RivalPosts
<1>3. its \in Comment
  <2> DEFINE line == Results("rival", <<>>)
  <2>1. line \in Line
    BY EmptySeq, LineTypes
  <2> HIDE DEF line
  <2>2. <<line>> \in Seq(Line)
    BY <2>1, OneLine
  <2> QED BY <2>2 DEF Comment, line
<1> HIDE DEF its
<1>4. IInv /\ JobTypeOK /\ ~job.plain /\ RunInputs /\ ~bridged /\ RunInv /\ UploadInv
  BY <1>1 DEF ActionInv
<1>5. comments \in Seq(Comment) /\ Len(comments) \in Nat /\ FirstMarked \in 0..Len(comments)
  BY <1>4, LenProperties, FirstMarkedIsPlace DEF JobTypeOK, FirstMarkedPlaced
<1>6. comments' \in Seq(Comment) /\ Len(comments') \in {Len(comments), Len(comments) + 1}
  <2>1. CASE i = 0
    BY <1>2, <1>3, <1>5, <2>1, AppendProperties
  <2>2. CASE i # 0
    <3>1. i \in 1..Len(comments)
      BY <1>5, <2>2
    <3> QED BY <1>2, <1>3, <1>5, <2>2, <3>1, ExceptSeq
  <2> QED BY <2>1, <2>2
<1>7. JobTypeOK'
  <2>1. existing' \in 0..Len(comments')
    BY <1>1, <1>4, <1>5, <1>6 DEF JobTypeOK
  <2>2. rivals' \in 0..MaxRivals /\ rivals' # 0
    BY <1>1, <1>4, JobsAssumption DEF JobTypeOK
  <2> QED BY <1>1, <1>4, <1>6, <2>1, <2>2 DEF JobTypeOK
<1>8. rivals' # 0
  BY <1>1, <1>4, JobsAssumption DEF JobTypeOK
<1>9. /\ IInv' /\ EditorFindings' = EditorFindings
      /\ in' = in /\ pc' = pc /\ bridged' = bridged /\ rendered' = rendered /\ findings' = findings
  BY <1>1, <1>4, VarsStay
<1>10. RunInputs' /\ RunInv' /\ UploadInv'
  BY <1>1, <1>4, <1>9 DEF RunInputs, RunInv, UploadInv
<1> QED BY <1>1, <1>7, <1>8, <1>9, <1>10 DEF ActionInv

LEMMA JobInitInv == JobInit => ActionInv
<1> SUFFICES ASSUME JobInit PROVE ActionInv
  OBVIOUS
<1>1. IInv
  BY InitFresh, FreshInv DEF JobInit
<1>2. /\ job \in Jobs /\ job \in Job /\ (~job.plain => in \in JobInputs)
      /\ step = (IF job.plain THEN "plain" ELSE "markdown")
      /\ run.code = -1 /\ run.out = <<>> /\ comments = job.comments /\ existing = 0 /\ rivals = 0
      /\ bridged = FALSE
  BY JobsAssumption DEF JobInit, Init
<1>3. comments \in Seq(Comment)
  BY <1>2 DEF Job
<1>4. Len(comments) \in Nat
  BY <1>3, LenProperties
<1>5. JobTypeOK
  <2>1. existing \in 0..Len(comments) /\ rivals \in 0..MaxRivals
    BY <1>2, <1>4, JobsAssumption
  <2> QED BY <1>2, <1>3, <2>1 DEF JobTypeOK
<1>6. ASSUME ~job.plain PROVE RunInputs /\ RunInv /\ UploadInv /\ CommentInv
  <2>1. step = "markdown" /\ in \in JobInputs
    BY <1>2, <1>6
  <2>2. RunInputs
    BY <2>1 DEF RunInputs, JobInputs
  <2>3. RunInv
    BY <1>2, <2>1, EmptySeq DEF RunInv
  <2>4. UploadInv /\ CommentInv
    BY <1>2, <2>1 DEF UploadInv, CommentInv
  <2> QED BY <2>2, <2>3, <2>4
<1>7. job.plain <=> step = "plain"
  BY <1>2
<1>8. step # "green"
  BY <1>2
<1> QED BY <1>1, <1>2, <1>5, <1>6, <1>7, <1>8 DEF ActionInv

LEMMA JobNextInv == ActionInv /\ [JobNext]_<<vars, jobVars>> => ActionInv'
<1> SUFFICES ASSUME ActionInv, [JobNext]_<<vars, jobVars>> PROVE ActionInv'
  OBVIOUS
<1>1. CASE UNCHANGED <<vars, jobVars>>
  <2>1. IInv /\ UNCHANGED vars
    BY <1>1 DEF ActionInv
  <2>2. /\ IInv' /\ EditorFindings' = EditorFindings
        /\ in' = in /\ pc' = pc /\ bridged' = bridged /\ rendered' = rendered
        /\ findings' = findings
    BY <2>1, VarsStay
  <2>3. /\ job' = job /\ step' = step /\ run' = run /\ uploaded' = uploaded
        /\ comments' = comments /\ existing' = existing /\ rivals' = rivals
    BY <1>1 DEF jobVars
  <2>4. JobTypeOK'
    BY <2>3 DEF ActionInv, JobTypeOK
  <2>5. RunInputs' = RunInputs /\ RunInv' = RunInv /\ UploadInv' = UploadInv
    BY <2>2, <2>3 DEF RunInputs, RunInv, UploadInv
  <2>6. CommentInv' = CommentInv
    BY <2>3 DEF CommentInv, FirstMarked, Marked, Before
  <2> QED BY <2>2, <2>3, <2>4, <2>5, <2>6 DEF ActionInv
<1>2. CASE JobNext
  BY <1>2, CommandKeeps, EndMarkdownKeeps, EndSarifKeeps, UploadKeeps, ListKeeps, PostKeeps,
     EnforceKeeps, RivalKeeps DEF JobNext, JobStep
<1> QED BY <1>1, <1>2

LEMMA AlwaysActionInv == JobSpec => []ActionInv
BY JobInitInv, JobNextInv, PTL DEF JobSpec

(* What the invariant means for the job. *)
LEMMA JobIsInOrder == ActionInv => JobInv
<1> SUFFICES ASSUME ActionInv PROVE JobInv
  OBVIOUS
<1>1. ASSUME step = "green" PROVE GreenMeansClean
  <2>1. ~job.plain /\ RunInv /\ UploadInv /\ (job.fail => run.code = 0)
    BY <1>1 DEF ActionInv
  <2> QED BY <1>1, <2>1 DEF GreenMeansClean, RunInv, UploadInv
<1> QED BY <1>1 DEF ActionInv, JobInv, GreenMeansClean

LEMMA CommentIsTrue == ActionInv => CommentTells
<1> SUFFICES ASSUME ActionInv, step \in {"enforce", "green"}, job.comment, rivals = 0
             PROVE  CommentTells
  BY DEF CommentTells
<1>1. ~job.plain /\ RunInv /\ UploadInv /\ CommentInv
  BY DEF ActionInv
<1>2. /\ Cardinality(Before) <= 1 => Cardinality(Marked) = 1
      /\ comments[FirstMarked].body = run.out
      /\ \A i \in DOMAIN job.comments : ~job.comments[i].marked => comments[i] = job.comments[i]
  BY <1>1 DEF CommentInv
<1>3. job.upload /\ run.whole => Shown(run.out) = Shown(uploaded)
  BY <1>1 DEF RunInv, UploadInv
<1> QED BY <1>2, <1>3 DEF CommentTells, Before

CommandInv == TypeOK /\ UniqueIds /\ AllOrNothing /\ ExitTells /\ ReportReadable /\ RulesResolve
              /\ EditorAgrees

(* The command has the same properties within a job, whose two runs start  *)
(* from the same variables.                                                *)
THEOREM HoldsInJobs == JobSpec => []CommandInv
<1>1. ActionInv => CommandInv
  BY ReportIsWhole, ReportReads, EveryResultHasItsRule, EditorShowsTheSame
     DEF ActionInv, IInv, LoadedInv, ExitInv, CommandInv
<1> QED BY <1>1, AlwaysActionInv, PTL

(* A green job can be trusted: if it was to fail on findings, its markdown *)
(* run was complete and found nothing; if it uploads, code scanning was    *)
(* given a complete report.  For all inputs, and wherever a run fails.     *)
THEOREM GreenJobsAreClean == JobSpec => []JobInv
BY JobIsInOrder, AlwaysActionInv, PTL

(* Without a rival, the comment step leaves one marked comment, the run's  *)
(* own, and what people wrote as it was; and the comment lists what code   *)
(* scanning was given.                                                     *)
THEOREM OneCommentPerRequest == JobSpec => []CommentTells
BY CommentIsTrue, AlwaysActionInv, PTL
=============================================================================
