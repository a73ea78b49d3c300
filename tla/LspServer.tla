----------------------------- MODULE LspServer -----------------------------
(***************************************************************************)
(* policyguard-lsp (internal/lsp/server.go): the server's message loop,    *)
(* the editor it talks to over stdin and stdout, and the files of the      *)
(* workspace, which the editor and other tools change at any time.         *)
(*                                                                         *)
(* The server handles one message at a time.  An analysis reads the files  *)
(* one by one while they may be changing, fails at the first that cannot   *)
(* be read, and then publishes one notification for each file with         *)
(* findings, in the order of a Go map, and one that clears the saved file  *)
(* when it has none.  Both pipes keep order and lose nothing, until the    *)
(* editor dies: then a message may be cut short and no reply is read.  A   *)
(* message may also be malformed; the length its header gives is that of   *)
(* its body.                                                               *)
(***************************************************************************)
EXTENDS Naturals, Sequences, FiniteSets, SequencesExt, Lists

CONSTANTS
    Files,          \* the source files, ranks in the order WalkDir visits
    Contents,       \* what a file may hold
    Findings(_),    \* the analysis: files' contents |-> each file's findings
    Respelled,      \* files whose URI the editor escapes otherwise than Go does
    RequestIds,     \* ids of requests whose method the server does not know
    MaxClientSteps  \* bounds the editor's messages and writes

ASSUME FilesAssumption ==
    Files \subseteq Nat /\ IsFiniteSet(Files) /\ Respelled \subseteq Files
ASSUME IdsAssumption == {"initialize", "shutdown"} \cap RequestIds = {}
ASSUME BoundAssumption == MaxClientSteps \in Nat

VARIABLES
    disk,        \* what each file holds
    inbox,       \* messages on their way to the server
    outbox,      \* messages on their way to the editor
    root,        \* whether the server knows the workspace root
    shutdown,    \* whether shutdown was asked for
    server,      \* "idle", "reading", "publishing" or "stopped"
    focus,       \* the file of the didOpen or didSave being handled
    unread,      \* the files the analysis has not read yet
    seen,        \* what the analysis read
    unpublished, \* the files whose findings are still to be published
    failed,      \* whether the last analysis ended in an error
    shown,       \* the diagnostics the editor displays for each file
    answered,    \* the ids of the replies the editor received, in order
    sent,        \* the ids of the requests the editor sent, in order
    unsaid,      \* files written since the server was last told of them
    lastSaved,   \* the file the editor last sent didOpen or didSave for
    told,        \* which of "exit" and "malformed" the editor sent so far
    closed,      \* whether the editor closed the server's stdin
    gone,        \* whether the editor died and reads nothing any more
    clientSteps  \* how many steps the editor took

serverVars == <<root, shutdown, server, focus, unread, seen, unpublished, failed>>
editorVars == <<shown, answered, sent, unsaid, lastSaved, told, closed, gone,
                clientSteps>>
vars == <<disk, inbox, outbox, serverVars, editorVars>>

NoFile == 0

Request(id)       == [kind |-> "request", id |-> id]
Notification(f)   == [kind |-> "didOpenOrSave", file |-> f]
Ignored           == [kind |-> "ignored"]
Exit              == [kind |-> "exit"]
Malformed         == [kind |-> "malformed"]
Cut               == [kind |-> "cut"]
Reply(id)         == [kind |-> "reply", id |-> id]
Publish(f, found) == [kind |-> "publish", file |-> f, findings |-> found]

Init ==
    /\ disk \in [Files -> Contents]
    /\ inbox = <<>> /\ outbox = <<>>
    /\ root = FALSE
    /\ shutdown = FALSE
    /\ server = "idle"
    /\ focus = NoFile
    /\ unread = {}
    /\ seen = disk
    /\ unpublished = {}
    /\ failed = FALSE
    /\ shown = [f \in Files |-> {}]
    /\ answered = <<>> /\ sent = <<>>
    /\ unsaid = {}
    /\ lastSaved = NoFile
    /\ told = {}
    /\ closed = FALSE /\ gone = FALSE
    /\ clientSteps = 0

-----------------------------------------------------------------------------
(* The editor.                                                             *)
Step == clientSteps < MaxClientSteps /\ ~closed /\ clientSteps' = clientSteps + 1

SendRequest(id) ==
    /\ Step
    /\ id \notin Range(sent)
    /\ (sent = <<>>) = (id = "initialize")    \* initialize is the first request
    /\ sent' = Append(sent, id)
    /\ inbox' = Append(inbox, Request(id))
    /\ UNCHANGED <<disk, outbox, serverVars, shown, answered, unsaid, lastSaved, told,
                   closed, gone>>

(* A write by the editor on its way to a save, or by another tool. *)
WriteFile(f, content) ==
    /\ Step
    /\ disk[f] # content
    /\ disk' = [disk EXCEPT ![f] = content]
    /\ unsaid' = unsaid \cup {f}
    /\ UNCHANGED <<inbox, outbox, serverVars, shown, answered, sent, lastSaved, told,
                   closed, gone>>

(* An editor opens no file before it has initialized the server. *)
OpenOrSave(f) ==
    /\ Step
    /\ "initialize" \in Range(sent)
    /\ inbox' = Append(inbox, Notification(f))
    /\ unsaid' = unsaid \ {f}
    /\ lastSaved' = f
    /\ UNCHANGED <<disk, outbox, serverVars, shown, answered, sent, told, closed, gone>>

(* didChange, initialized and unknown notifications. *)
SendIgnored ==
    /\ Step
    /\ inbox' = Append(inbox, Ignored)
    /\ UNCHANGED <<disk, outbox, serverVars, shown, answered, sent, unsaid, lastSaved, told,
                   closed, gone>>

SendExit ==
    /\ Step
    /\ inbox' = Append(inbox, Exit)
    /\ told' = told \cup {"exit"}
    /\ UNCHANGED <<disk, outbox, serverVars, shown, answered, sent, unsaid, lastSaved,
                   closed, gone>>

(* A header without a usable Content-Length, or a body that is no JSON.    *)
SendMalformed ==
    /\ Step
    /\ inbox' = Append(inbox, Malformed)
    /\ told' = told \cup {"malformed"}
    /\ UNCHANGED <<disk, outbox, serverVars, shown, answered, sent, unsaid, lastSaved,
                   closed, gone>>

Close ==
    /\ ~closed
    /\ closed' = TRUE
    /\ UNCHANGED <<disk, inbox, outbox, serverVars, shown, answered, sent, unsaid,
                   lastSaved, told, gone, clientSteps>>

(* The editor dies, perhaps while it writes a message: what it wrote stays *)
(* in the server's stdin, the rest never comes, and nothing reads stdout.  *)
Crash ==
    /\ ~closed
    /\ closed' = TRUE /\ gone' = TRUE
    /\ UNCHANGED inbox \/ inbox' = Append(inbox, Cut)
    /\ outbox' = <<>>
    /\ UNCHANGED <<disk, serverVars, shown, answered, sent, unsaid, lastSaved, told,
                   clientSteps>>

Receive ==
    /\ outbox # <<>>
    /\ outbox' = Tail(outbox)
    /\ LET msg == Head(outbox)
       IN  IF msg.kind = "reply"
           THEN answered' = Append(answered, msg.id) /\ UNCHANGED shown
           ELSE shown' = [shown EXCEPT ![msg.file] = msg.findings] /\ UNCHANGED answered
    /\ UNCHANGED <<disk, inbox, serverVars, sent, unsaid, lastSaved, told, closed, gone,
                   clientSteps>>

-----------------------------------------------------------------------------
(* The server.                                                             *)
Reading(kind) == server = "idle" /\ inbox # <<>> /\ Head(inbox).kind = kind

(* send, and the state the server is in afterwards.  With nobody left to   *)
(* read, the write fails: the runtime ends a process whose stdout is a     *)
(* broken pipe; any other error is logged and the handler gives up.        *)
Send(messages, next) ==
    /\ outbox' = IF gone THEN outbox ELSE outbox \o messages
    /\ server' \in IF gone /\ messages # <<>> THEN {"idle", "stopped"} ELSE {next}

(* Mutant of HandleRequest: an unknown method is ignored like an unknown   *)
(* notification.                                                           *)
HandleKnownRequest ==
    /\ Reading("request")
    /\ inbox' = Tail(inbox)
    /\ LET id == Head(inbox).id
       IN  /\ Send(IF id \in RequestIds THEN <<>> ELSE <<Reply(id)>>, "idle")
           /\ IF id = "initialize" THEN root' \in BOOLEAN ELSE UNCHANGED root
           /\ shutdown' = (shutdown \/ id = "shutdown")
    /\ UNCHANGED <<disk, focus, unread, seen, unpublished, failed, editorVars>>

(* Every request is answered: initialize and shutdown with a result, any   *)
(* other with "method not found".  initialize may carry no root.           *)
HandleRequest ==
    /\ Reading("request")
    /\ inbox' = Tail(inbox)
    /\ LET id == Head(inbox).id
       IN  /\ Send(<<Reply(id)>>, "idle")
           /\ IF id = "initialize" THEN root' \in BOOLEAN ELSE UNCHANGED root
           /\ shutdown' = (shutdown \/ id = "shutdown")
    /\ UNCHANGED <<disk, focus, unread, seen, unpublished, failed, editorVars>>

HandleIgnored ==
    /\ Reading("ignored")
    /\ inbox' = Tail(inbox)
    /\ UNCHANGED <<disk, outbox, serverVars, editorVars>>

(* exit ends the loop only after shutdown. *)
HandleExit ==
    /\ Reading("exit")
    /\ inbox' = Tail(inbox)
    /\ server' = IF shutdown THEN "stopped" ELSE "idle"
    /\ UNCHANGED <<disk, outbox, root, shutdown, focus, unread, seen, unpublished, failed,
                   editorVars>>

(* Mutant of HandleEOF: the end of the input is one more failed message.   *)
RetryEOF ==
    /\ server = "idle"
    /\ inbox = <<>>
    /\ closed
    /\ UNCHANGED vars

HandleEOF ==
    /\ server = "idle"
    /\ inbox = <<>>
    /\ closed
    /\ server' = "stopped"
    /\ UNCHANGED <<disk, inbox, outbox, root, shutdown, focus, unread, seen, unpublished,
                   failed, editorVars>>

(* readMessage fails: the input ends within a header or a body, or the     *)
(* message is malformed.  Run returns, whether or not more input is queued *)
(* or still to come; it does not skip to the next message.                 *)
HandleUnreadable ==
    /\ Reading("cut") \/ Reading("malformed")
    /\ inbox' = Tail(inbox)
    /\ server' = "stopped"
    /\ UNCHANGED <<disk, outbox, root, shutdown, focus, unread, seen, unpublished, failed,
                   editorVars>>

(* onDidOpenOrSave returns at once while the root is unknown. *)
HandleOpenOrSave ==
    /\ Reading("didOpenOrSave")
    /\ inbox' = Tail(inbox)
    /\ IF root
       THEN server' = "reading" /\ focus' = Head(inbox).file /\ unread' = Files
       ELSE UNCHANGED <<server, focus, unread>>
    /\ UNCHANGED <<disk, outbox, root, shutdown, seen, unpublished, failed, editorVars>>

(* loadSourceTree reads the next file. *)
ReadFile ==
    /\ server = "reading"
    /\ \E f \in unread :
           /\ \A h \in unread : f <= h
           /\ seen' = [seen EXCEPT ![f] = disk[f]]
           /\ unread' = unread \ {f}
    /\ UNCHANGED <<disk, inbox, outbox, root, shutdown, server, focus, unpublished, failed,
                   editorVars>>

(* Mutants of FailAnalysis: the error ends the loop; it is never returned. *)
StopOnError ==
    /\ server = "reading"
    /\ server' = "stopped"
    /\ failed' = TRUE
    /\ UNCHANGED <<disk, inbox, outbox, root, shutdown, focus, unread, seen, unpublished,
                   editorVars>>

HangOnError ==
    /\ server = "reading"
    /\ server' = "hung"
    /\ failed' = TRUE
    /\ UNCHANGED <<disk, inbox, outbox, root, shutdown, focus, unread, seen, unpublished,
                   editorVars>>

(* A file or the policy directory cannot be loaded: the error is logged.   *)
FailAnalysis ==
    /\ server = "reading"
    /\ server' = "idle"
    /\ failed' = TRUE
    /\ UNCHANGED <<disk, inbox, outbox, root, shutdown, focus, unread, seen, unpublished,
                   editorVars>>

(* Findings are grouped by the URI of their file. *)
FindingsToDiagnostics(found) == {f \in Files : found[f] # {}}

(* Mutant of FinishAnalysis: only the file in focus is reported on. *)
FinishWithFocus ==
    /\ server = "reading"
    /\ unread = {}
    /\ server' = "publishing"
    /\ failed' = FALSE
    /\ unpublished' = FindingsToDiagnostics(Findings(seen)) \cap {focus}
    /\ UNCHANGED <<disk, inbox, outbox, root, shutdown, focus, unread, seen, editorVars>>

FinishAnalysis ==
    /\ server = "reading"
    /\ unread = {}
    /\ server' = "publishing"
    /\ failed' = FALSE
    /\ unpublished' = FindingsToDiagnostics(Findings(seen))
    /\ UNCHANGED <<disk, inbox, outbox, root, shutdown, focus, unread, seen, editorVars>>

PublishFindings(f) ==
    /\ server = "publishing"
    /\ f \in unpublished
    /\ Send(<<Publish(f, Findings(seen)[f])>>, "publishing")
    /\ unpublished' = unpublished \ {f}
    /\ UNCHANGED <<disk, inbox, root, shutdown, focus, unread, seen, failed, editorVars>>

(* Mutant of ClearFocus: nothing is cleared. *)
ClearNothing ==
    /\ server = "publishing"
    /\ unpublished = {}
    /\ server' = "idle"
    /\ UNCHANGED <<disk, inbox, outbox, root, shutdown, focus, unread, seen, unpublished,
                   failed, editorVars>>

(* The group is found again only under the URI pathToURI spells. *)
GroupOf(uri) == FindingsToDiagnostics(Findings(seen)) \cap ({uri} \ Respelled)

(* The file in focus is cleared when no group of findings has the URI the  *)
(* editor gave.                                                            *)
ClearFocus ==
    /\ server = "publishing"
    /\ unpublished = {}
    /\ Send(IF GroupOf(focus) = {} THEN <<Publish(focus, {})>> ELSE <<>>, "idle")
    /\ UNCHANGED <<disk, inbox, root, shutdown, focus, unread, seen, unpublished, failed,
                   editorVars>>

Editor ==
    \/ \E id \in RequestIds \cup {"initialize", "shutdown"} : SendRequest(id)
    \/ \E f \in Files : OpenOrSave(f) \/ \E content \in Contents : WriteFile(f, content)
    \/ SendIgnored \/ SendExit \/ SendMalformed
    \/ Close \/ Crash

Server ==
    \/ HandleRequest \/ HandleIgnored \/ HandleExit \/ HandleEOF \/ HandleUnreadable
    \/ HandleOpenOrSave \/ ReadFile \/ FailAnalysis \/ FinishAnalysis \/ ClearFocus
    \/ \E f \in Files : PublishFindings(f)

Next == Editor \/ Receive \/ Server

(* The server's loop runs whenever it has a message, and the editor reads  *)
(* what it is sent; the editor need never send or close anything.          *)
Spec == Init /\ [][Next]_vars /\ WF_vars(Server) /\ WF_vars(Receive)

-----------------------------------------------------------------------------
TypeOK ==
    /\ disk \in [Files -> Contents] /\ seen \in [Files -> Contents]
    /\ root \in BOOLEAN /\ shutdown \in BOOLEAN /\ failed \in BOOLEAN /\ closed \in BOOLEAN
    /\ gone \in BOOLEAN /\ (gone => closed)
    /\ server \in {"idle", "reading", "publishing", "stopped"}
    /\ {focus, lastSaved} \subseteq Files \cup {NoFile}
    /\ unread \subseteq Files /\ unpublished \subseteq Files /\ unsaid \subseteq Files
    /\ told \subseteq {"exit", "malformed"}
    /\ server \in {"reading", "publishing"} => root /\ focus \in Files
    /\ clientSteps \in 0..MaxClientSteps

(* All messages are handled, the editor lives and told the server of every *)
(* write, and the server's last analysis succeeded.                        *)
Settled ==
    /\ server = "idle" /\ inbox = <<>> /\ outbox = <<>>
    /\ root /\ ~failed /\ ~gone
    /\ unsaid = {} /\ lastSaved # NoFile

(* A file that has findings shows exactly those, in whatever order writes, *)
(* saves, reads and publications interleaved: no finding is missed in a    *)
(* file other than the one saved, and none survives from an older version. *)
(* The one exception is the saved file when its URI is spelled otherwise:  *)
(* it is cleared after its findings were published.                        *)
FindingsShown ==
    Settled => \A f \in Files \ (Respelled \cap {lastSaved}) :
                   Findings(disk)[f] # {} => shown[f] = Findings(disk)[f]

(* The file saved last shows its findings, and none when it has none.      *)
SavedFileFresh ==
    Settled => shown[lastSaved] = IF lastSaved \in Respelled THEN {} ELSE Findings(disk)[lastSaved]

(* Saving refreshes the report: every file shows what the analysis finds.  *)
ReportFresh == Settled => \A f \in Files : shown[f] = Findings(disk)[f]

(* Each request is answered once, and replies come back in request order:  *)
(* none is lost or overtaken by the analyses between them.                 *)
IdsOf(messages, kind) ==
    LET chosen == SelectAt(messages, {i \in DOMAIN messages : messages[i].kind = kind})
    IN  [i \in DOMAIN chosen |-> chosen[i].id]

AnsweredInOrder ==
    /\ IsPrefix(answered \o IdsOf(outbox, "reply"), sent)
    /\ server # "stopped" /\ ~gone =>
           answered \o IdsOf(outbox, "reply") \o IdsOf(inbox, "request") = sent

(* The server stops for three reasons only: the editor closed its input or *)
(* died, sent a message that cannot be read, or sent both shutdown and     *)
(* exit.  In particular no analysis that fails takes it down, and neither  *)
(* does a request or notification it does not know.                        *)
StopsWhenTold ==
    server = "stopped" => closed \/ "malformed" \in told \/ (shutdown /\ "exit" \in told)

(* However many analyses are queued before it, and whether they fail or    *)
(* not, a request gets its reply unless the server was told to stop.       *)
EveryRequestAnswered ==
    \A id \in RequestIds \cup {"initialize", "shutdown"} :
        id \in Range(sent) ~> id \in Range(answered) \/ server = "stopped"

(* A server whose editor closed its input or died ends, whatever is still  *)
(* queued, cut short or being analysed: no process is left behind.         *)
NoOrphan == closed ~> server = "stopped"
=============================================================================
