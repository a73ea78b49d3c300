---------------------------- MODULE GitHubAction ----------------------------
(***************************************************************************)
(* The composite action (action.yml) around module Check: two runs of      *)
(* `check` on one runner, the SARIF upload, the pull-request comment and   *)
(* the step that enforces.  A step that fails ends the job in red, and the *)
(* steps behind it are skipped.                                            *)
(*                                                                         *)
(* Rivals are other runs of the action on the same pull request, of an     *)
(* earlier push or for another language.                                   *)
(***************************************************************************)
EXTENDS Check

CONSTANTS Jobs,       \* the inputs of the action explored
          MaxRivals   \* how often a rival posts

(* A comment is what a markdown run wrote, or a rival, or a person. *)
Line    == [is : {"none", "count", "finding", "rival"}, findings : Seq(Finding), rules : {<<>>}]
Comment == [marked : BOOLEAN, body : Seq(Line)]

Job == [plain    : BOOLEAN,   \* no job: a command in a shell
        fail     : BOOLEAN,   \* fail-on-findings
        comment  : BOOLEAN,   \* comment-on-pr, and the event is a pull request
        upload   : BOOLEAN,   \* upload-sarif
        comments : Seq(Comment)]

(* The action names one directory of policies and nothing else. *)
JobInputs == {i \in Inputs : /\ i.command = "check" /\ i.flags /\ i.roots = 1
                             /\ i.dir /\ i.files = <<>> /\ i.smap = {}
                             /\ i.format = "markdown" /\ ~i.apply}

ASSUME JobsAssumption == Jobs \subseteq Job /\ MaxRivals \in Nat

VARIABLES
    job,        \* the action's inputs
    step,       \* the step under way
    run,        \* of the markdown run: exit code, output, was it all written
    uploaded,   \* what code scanning has been given
    comments,   \* of the pull request, oldest first
    existing,   \* the marked comment found, 0 for none
    rivals      \* how often a rival has posted

jobVars == <<job, step, run, uploaded, comments, existing, rivals>>

JobTypeOK ==
    /\ job \in Jobs
    /\ step \in {"plain", "markdown", "sarif", "upload", "list", "post", "enforce",
                 "green", "red"}
    /\ run.code \in {-1, 0, 1, 2}
    /\ comments \in Seq(Comment)
    /\ existing \in 0..Len(comments)
    /\ rivals \in 0..MaxRivals

JobInit ==
    /\ Init
    /\ job \in {j \in Jobs : ~j.plain => in \in JobInputs}
    /\ step = IF job.plain THEN "plain" ELSE "markdown"
    /\ run = [code |-> -1, out |-> <<>>, whole |-> FALSE]
    /\ uploaded = <<>>
    /\ comments = job.comments
    /\ existing = 0
    /\ rivals = 0

Then(s) == step' = s

(* The steps behind the two runs. *)
AfterRuns == IF job.comment THEN "list" ELSE "enforce"

(* A command runs within its step. *)
RunCommand ==
    /\ step \in {"plain", "markdown", "sarif"}
    /\ Next
    /\ UNCHANGED jobVars

(* The markdown run's exit code is kept for later and the step succeeds;   *)
(* the SARIF run, if any, is another command on the same directories.      *)
EndMarkdown ==
    /\ step = "markdown" /\ pc = "exited"
    /\ run' = [code |-> code, out |-> stdout, whole |-> rendered]
    /\ IF job.upload
       THEN /\ Then("sarif")
            /\ in' = [in EXCEPT !.format = "sarif"]
            /\ pc' = "start" /\ at' = 1 /\ code' = -1
            /\ todo' = <<>> /\ policies' = <<>> /\ files' = {} /\ findings' = <<>>
            /\ stdout' = <<>>
            /\ bridged' = FALSE /\ rendered' = FALSE
       ELSE Then(AfterRuns) /\ UNCHANGED vars
    /\ UNCHANGED <<job, uploaded, comments, existing, rivals>>

(* The exit code of the SARIF run is dropped. *)
EndSarif ==
    /\ step = "sarif" /\ pc = "exited"
    /\ Then("upload")
    /\ UNCHANGED <<vars, job, run, uploaded, comments, existing, rivals>>

(* An empty file is no SARIF log; an upload may fail besides. *)
Upload ==
    /\ step = "upload"
    /\ \/ stdout # <<>> /\ uploaded' = stdout /\ Then(AfterRuns)
       \/ Then("red") /\ UNCHANGED uploaded
    /\ UNCHANGED <<vars, job, run, comments, existing, rivals>>

Marked == {i \in DOMAIN comments : comments[i].marked}
FirstMarked == IF Marked = {} THEN 0 ELSE Min(Marked)

(* The marker, then what the command printed. *)
FindingsFile == [marked |-> TRUE, body |-> run.out]

(* The two calls of the comment step; each may fail. *)
ListComments ==
    /\ step = "list"
    /\ \/ existing' = FirstMarked /\ Then("post")
       \/ Then("red") /\ UNCHANGED existing
    /\ UNCHANGED <<vars, job, run, uploaded, comments, rivals>>

(* Mutant of PostComment: the comment found is not used. *)
PostAnother ==
    /\ step = "post"
    /\ \/ comments' = Append(comments, FindingsFile) /\ Then("enforce")
       \/ Then("red") /\ UNCHANGED comments
    /\ UNCHANGED <<vars, job, run, uploaded, existing, rivals>>

PostComment ==
    /\ step = "post"
    /\ \/ /\ comments' = IF existing # 0
                         THEN [comments EXCEPT ![existing] = FindingsFile]
                         ELSE Append(comments, FindingsFile)
          /\ Then("enforce")
       \/ Then("red") /\ UNCHANGED comments
    /\ UNCHANGED <<vars, job, run, uploaded, existing, rivals>>

(* Mutant of Enforce: only the code of findings fails the job. *)
EnforceFindings ==
    /\ step = "enforce"
    /\ Then(IF job.fail /\ run.code = 1 THEN "red" ELSE "green")
    /\ UNCHANGED <<vars, job, run, uploaded, comments, existing, rivals>>

Enforce ==
    /\ step = "enforce"
    /\ Then(IF job.fail /\ run.code # 0 THEN "red" ELSE "green")
    /\ UNCHANGED <<vars, job, run, uploaded, comments, existing, rivals>>

(* A rival's comment step, its listing as fresh or as stale as may be. *)
RivalPosts ==
    /\ job.comment /\ step \notin {"plain", "green", "red"}
    /\ rivals < MaxRivals
    /\ \E i \in {0, FirstMarked} :
           LET its == [marked |-> TRUE, body |-> <<Results("rival", <<>>)>>]
           IN  comments' = IF i = 0 THEN Append(comments, its)
                           ELSE [comments EXCEPT ![i] = its]
    /\ rivals' = rivals + 1
    /\ UNCHANGED <<vars, job, step, run, uploaded, existing>>

JobStep ==
    \/ EndMarkdown \/ EndSarif \/ Upload \/ ListComments \/ PostComment \/ Enforce

JobNext == RunCommand \/ JobStep \/ RivalPosts

JobSpec == JobInit /\ [][JobNext]_<<vars, jobVars>>

-----------------------------------------------------------------------------
(* A green job that was to fail on findings looked at every source and     *)
(* found nothing; one that was not, but uploads, at least completed its    *)
(* report for code scanning.  Neither hides a configuration error.         *)
GreenMeansClean ==
    step = "green" =>
        /\ job.fail => run.whole /\ Shown(run.out) = <<>>
        /\ job.upload => rendered /\ Shown(uploaded) = findings

(* The job's state is in order, and its color can be trusted. *)
JobInv == JobTypeOK /\ GreenMeansClean

(* Once the comment step is over, with no rival about, the pull request    *)
(* has exactly one marked comment if it had one at most, however many runs *)
(* there were before; what people wrote is as it was; and the comment      *)
(* lists what code scanning was given, if the command that wrote it        *)
(* completed.  (If it did not, the comment is whatever had been written,   *)
(* often the bare marker.)                                                 *)
CommentTells ==
    step \in {"enforce", "green"} /\ job.comment /\ rivals = 0 =>
        /\ Cardinality({i \in DOMAIN job.comments : job.comments[i].marked}) <= 1
               => Cardinality(Marked) = 1
        /\ comments[FirstMarked].body = run.out
        /\ \A i \in DOMAIN job.comments :
               ~job.comments[i].marked => comments[i] = job.comments[i]
        /\ job.upload /\ run.whole => Shown(run.out) = Shown(uploaded)
=============================================================================
