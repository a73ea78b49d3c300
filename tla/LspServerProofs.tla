-------------------------- MODULE LspServerProofs --------------------------
(* The language server keeps its types, stops only when it was told to,    *)
(* answers in order and shows fresh findings, for every workspace, editor  *)
(* and analysis.                                                           *)
EXTENDS LspServer, Lemmas

(* What an editor that lives sends, and what is left of one that died. *)
Ids   == RequestIds \cup {"initialize", "shutdown"}
Whole == [kind : {"request"}, id : Ids] \cup [kind : {"didOpenOrSave"}, file : Files]
             \cup {Ignored, Exit, Malformed}

SendOther == SendIgnored \/ SendExit \/ SendMalformed

(* A message is cut short only when no other will follow, and what ends    *)
(* the loop was sent.                                                      *)
InboxInv ==
    /\ inbox \in Seq(Whole \cup {Cut})
    /\ ~closed => inbox \in Seq(Whole)
    /\ Exit \in Range(inbox) => "exit" \in told
    /\ Malformed \in Range(inbox) => "malformed" \in told

IInv == TypeOK /\ InboxInv /\ StopsWhenTold

LEMMA InitInv == Init => IInv
<1> SUFFICES ASSUME Init PROVE IInv
  OBVIOUS
<1>1. TypeOK
  <2>1. clientSteps \in 0..MaxClientSteps
    BY BoundAssumption DEF Init
  <2> QED BY <2>1 DEF Init, TypeOK
<1>2. InboxInv
  <2>1. Range(<<>>) = {}
    BY DEF Range
  <2> QED BY <2>1, EmptySeq DEF Init, InboxInv
<1> QED BY <1>1, <1>2 DEF IInv, Init, StopsWhenTold

(* Sending a whole message keeps the inbox as it should be. *)
LEMMA SendInbox ==
    ASSUME InboxInv, NEW msg \in Whole, inbox' = Append(inbox, msg), closed' = closed,
           told \subseteq told', msg = Exit => "exit" \in told',
           msg = Malformed => "malformed" \in told'
    PROVE  InboxInv'
<1>1. Range(inbox') = Range(inbox) \cup {msg}
  BY PushProperties DEF InboxInv
<1>2. /\ inbox' \in Seq(Whole \cup {Cut})
      /\ ~closed => inbox' \in Seq(Whole)
  BY AppendProperties DEF InboxInv
<1> QED BY <1>1, <1>2 DEF InboxInv

(* So does taking the first message off. *)
LEMMA TakeInbox ==
    ASSUME InboxInv, inbox # <<>>, inbox' = Tail(inbox), closed' = closed, told' = told
    PROVE  InboxInv'
<1>1. Range(inbox) = {Head(inbox)} \cup Range(inbox')
  BY TailProperties DEF InboxInv
<1>2. /\ inbox' \in Seq(Whole \cup {Cut})
      /\ ~closed => inbox' \in Seq(Whole)
  BY HeadTailProperties DEF InboxInv
<1> QED BY <1>1, <1>2 DEF InboxInv

(* The kinds of message tell them apart, and each that ends the loop was   *)
(* sent.                                                                   *)
LEMMA FirstMessage ==
    ASSUME InboxInv, inbox # <<>>
    PROVE  /\ Head(inbox).kind = "cut" => closed
           /\ Head(inbox).kind = "exit" => "exit" \in told
           /\ Head(inbox).kind = "malformed" => "malformed" \in told
           /\ Head(inbox).kind = "didOpenOrSave" => Head(inbox).file \in Files
<1>1. /\ Head(inbox) \in Whole \cup {Cut}
      /\ ~closed => Head(inbox) \in Whole
  BY HeadTailProperties DEF InboxInv
<1>2. Head(inbox) \in Range(inbox)
  BY TailProperties DEF InboxInv
<1>3. \A msg \in Whole : msg.kind # "cut"
  BY DEF Whole, Ignored, Exit, Malformed
<1>4. \A msg \in Whole \cup {Cut} :
          /\ msg.kind = "didOpenOrSave" => msg.file \in Files
          /\ msg.kind = "exit" => msg = Exit
          /\ msg.kind = "malformed" => msg = Malformed
  BY DEF Whole, Ignored, Exit, Malformed, Cut
<1>5. /\ Exit \in Range(inbox) => "exit" \in told
      /\ Malformed \in Range(inbox) => "malformed" \in told
  BY DEF InboxInv
<1> DEFINE first == Head(inbox)
<1> HIDE DEF first
<1>6. /\ first \in Whole \cup {Cut} /\ first \in Range(inbox)
      /\ ~closed => first \in Whole
  BY <1>1, <1>2 DEF first
<1>7. first.kind = "exit" => first = Exit
  BY <1>4, <1>6
<1>8. first.kind = "malformed" => first = Malformed
  BY <1>4, <1>6
<1>9. /\ first.kind = "cut" => closed
      /\ first.kind = "didOpenOrSave" => first.file \in Files
  BY <1>3, <1>4, <1>6
<1> QED BY <1>5, <1>6, <1>7, <1>8, <1>9 DEF first

(* The editor's steps. *)
LEMMA EditorInv == ASSUME IInv, Editor PROVE IInv'
<1> USE DEF IInv
<1>1. StopsWhenTold'
  <2>1. server' = server /\ shutdown' = shutdown /\ (closed => closed') /\ told \subseteq told'
    BY DEF Editor, SendRequest, OpenOrSave, WriteFile, SendIgnored, SendExit, SendMalformed, Close,
           Crash, Step, serverVars
  <2> QED BY <2>1 DEF StopsWhenTold
<1>2. TypeOK'
  <2>1. CASE \E id \in Ids : SendRequest(id)
    BY <2>1, BoundAssumption DEF TypeOK, SendRequest, Step, serverVars
  <2>2. CASE \E f \in Files : OpenOrSave(f)
    BY <2>2, BoundAssumption DEF TypeOK, OpenOrSave, Step, serverVars
  <2>3. CASE \E f \in Files, content \in Contents : WriteFile(f, content)
    BY <2>3, BoundAssumption DEF TypeOK, WriteFile, Step, serverVars
  <2>4. CASE SendOther
    <3>1. CASE SendIgnored
      BY <3>1, BoundAssumption DEF TypeOK, SendIgnored, Step, serverVars
    <3>2. CASE SendExit
      BY <3>2, BoundAssumption DEF TypeOK, SendExit, Step, serverVars
    <3>3. CASE SendMalformed
      BY <3>3, BoundAssumption DEF TypeOK, SendMalformed, Step, serverVars
    <3> QED BY <2>4, <3>1, <3>2, <3>3 DEF SendOther
  <2>5. CASE Close
    BY <2>5 DEF TypeOK, Close, serverVars
  <2>6. CASE Crash
    BY <2>6 DEF TypeOK, Crash, serverVars
  <2> QED BY <2>1, <2>2, <2>3, <2>4, <2>5, <2>6 DEF Editor, SendOther, Ids
<1>3. InboxInv'
  <2>1. CASE \E id \in Ids : SendRequest(id)
    <3>1. PICK id \in Ids : SendRequest(id)
      BY <2>1
    <3>2. Request(id) \in Whole /\ Request(id) \notin {Exit, Malformed}
      BY DEF Whole, Request, Exit, Malformed
    <3> QED BY <3>1, <3>2, SendInbox DEF SendRequest
  <2>2. CASE \E f \in Files : OpenOrSave(f)
    <3>1. PICK f \in Files : OpenOrSave(f)
      BY <2>2
    <3>2. Notification(f) \in Whole /\ Notification(f) \notin {Exit, Malformed}
      BY DEF Whole, Notification, Exit, Malformed
    <3> QED BY <3>1, <3>2, SendInbox DEF OpenOrSave
  <2>3. CASE \E f \in Files, content \in Contents : WriteFile(f, content)
    BY <2>3 DEF WriteFile, InboxInv
  <2>4. CASE SendOther
    <3>1. /\ {Ignored, Exit, Malformed} \subseteq Whole
          /\ Ignored \notin {Exit, Malformed} /\ Exit # Malformed
      BY DEF Whole, Ignored, Exit, Malformed
    <3> QED BY <2>4, <3>1, SendInbox DEF SendOther, SendIgnored, SendExit, SendMalformed
  <2>5. CASE Close
    BY <2>5 DEF Close, InboxInv
  <2>6. CASE Crash
    <3>1. Cut \in Whole \cup {Cut} /\ Cut \notin {Exit, Malformed}
      BY DEF Cut, Exit, Malformed
    <3>2. /\ closed' /\ told' = told
          /\ inbox' = inbox \/ inbox' = Append(inbox, Cut)
      BY <2>6 DEF Crash
    <3>3. CASE inbox' = Append(inbox, Cut)
      <4>1. inbox' \in Seq(Whole \cup {Cut}) /\ Range(inbox') = Range(inbox) \cup {Cut}
        BY <3>1, <3>3, PushProperties DEF InboxInv
      <4> QED BY <3>1, <3>2, <4>1 DEF InboxInv
    <3> QED BY <3>2, <3>3 DEF InboxInv
  <2> QED BY <2>1, <2>2, <2>3, <2>4, <2>5, <2>6 DEF Editor, SendOther, Ids
<1> QED BY <1>1, <1>2, <1>3

(* A write ends the server only when nobody is there to read it. *)
LEMMA SendServer ==
    ASSUME TypeOK, NEW messages, NEW next \in {"idle", "publishing"}, Send(messages, next)
    PROVE  server' \in {next, "idle", "stopped"} /\ (server' = "stopped" => closed)
BY DEF Send, TypeOK

(* The server's steps that handle a message. *)
LEMMA HandleInv ==
    ASSUME IInv,
           HandleRequest \/ HandleIgnored \/ HandleExit \/ HandleEOF \/ HandleUnreadable
               \/ HandleOpenOrSave
    PROVE  IInv'
<1> USE DEF IInv
<1>1. CASE HandleRequest
  <2> DEFINE msg == Head(inbox)
  <2>1. /\ inbox # <<>> /\ inbox' = Tail(inbox)
        /\ Send(<<Reply(msg.id)>>, "idle")
        /\ root' \in BOOLEAN \/ root' = root
        /\ shutdown' = (shutdown \/ msg.id = "shutdown")
        /\ UNCHANGED <<disk, focus, unread, seen, unpublished, failed, editorVars>>
    BY <1>1 DEF HandleRequest, Reading
  <2> HIDE DEF msg
  <2>2. server' \in {"idle", "stopped"} /\ (server' = "stopped" => closed)
    BY <2>1, SendServer
  <2>3. InboxInv'
    BY <2>1, TakeInbox DEF editorVars
  <2>4. TypeOK'
    BY <2>1, <2>2 DEF TypeOK, editorVars
  <2> QED BY <2>1, <2>2, <2>3, <2>4 DEF StopsWhenTold, editorVars
<1>2. CASE HandleIgnored
  <2>1. InboxInv'
    BY <1>2, TakeInbox DEF HandleIgnored, Reading, editorVars
  <2> QED BY <1>2, <2>1 DEF HandleIgnored, TypeOK, StopsWhenTold, serverVars, editorVars
<1>3. CASE HandleExit
  <2>1. InboxInv'
    BY <1>3, TakeInbox DEF HandleExit, Reading, editorVars
  <2>2. TypeOK'
    BY <1>3 DEF HandleExit, Reading, TypeOK, editorVars
  <2>3. "exit" \in told
    BY <1>3, FirstMessage DEF HandleExit, Reading
  <2> QED BY <1>3, <2>1, <2>2, <2>3 DEF HandleExit, StopsWhenTold, editorVars
<1>4. CASE HandleEOF
  BY <1>4 DEF HandleEOF, TypeOK, InboxInv, StopsWhenTold, editorVars
<1>5. CASE HandleUnreadable
  <2>1. inbox # <<>> /\ (closed \/ "malformed" \in told)
    BY <1>5, FirstMessage DEF HandleUnreadable, Reading
  <2>2. InboxInv'
    BY <1>5, <2>1, TakeInbox DEF HandleUnreadable, editorVars
  <2>3. TypeOK'
    BY <1>5 DEF HandleUnreadable, TypeOK, editorVars
  <2> QED BY <1>5, <2>1, <2>2, <2>3 DEF HandleUnreadable, StopsWhenTold, editorVars
<1>6. CASE HandleOpenOrSave
  <2>1. inbox # <<>> /\ Head(inbox).file \in Files
    BY <1>6, FirstMessage DEF HandleOpenOrSave, Reading
  <2>2. InboxInv'
    BY <1>6, <2>1, TakeInbox DEF HandleOpenOrSave, editorVars
  <2>3. TypeOK'
    BY <1>6, <2>1 DEF HandleOpenOrSave, TypeOK, editorVars
  <2> QED BY <1>6, <2>2, <2>3 DEF HandleOpenOrSave, Reading, StopsWhenTold, editorVars
<1> QED BY <1>1, <1>2, <1>3, <1>4, <1>5, <1>6

(* Those of an analysis. *)
LEMMA AnalysisInv ==
    ASSUME IInv,
           ReadFile \/ FailAnalysis \/ FinishAnalysis \/ ClearFocus
               \/ \E f \in Files : PublishFindings(f)
    PROVE  IInv'
<1> USE DEF IInv
<1>1. InboxInv'
  BY DEF ReadFile, FailAnalysis, FinishAnalysis, ClearFocus, PublishFindings, InboxInv, editorVars
<1>2. CASE ReadFile
  BY <1>1, <1>2 DEF ReadFile, TypeOK, StopsWhenTold, editorVars
<1>3. CASE FailAnalysis
  BY <1>1, <1>3 DEF FailAnalysis, TypeOK, StopsWhenTold, editorVars
<1>4. CASE FinishAnalysis
  BY <1>1, <1>4 DEF FinishAnalysis, FindingsToDiagnostics, TypeOK, StopsWhenTold, editorVars
<1>5. CASE ClearFocus
  <2>1. PICK messages : Send(messages, "idle")
    BY <1>5 DEF ClearFocus
  <2>2. server' \in {"idle", "stopped"} /\ (server' = "stopped" => closed)
    BY <2>1, SendServer
  <2> QED BY <1>1, <1>5, <2>2 DEF ClearFocus, TypeOK, StopsWhenTold, editorVars
<1>6. CASE \E f \in Files : PublishFindings(f)
  <2>1. PICK f \in Files : PublishFindings(f)
    BY <1>6
  <2>2. PICK messages : Send(messages, "publishing")
    BY <2>1 DEF PublishFindings
  <2>3. server' \in {"publishing", "idle", "stopped"} /\ (server' = "stopped" => closed)
    BY <2>2, SendServer
  <2> QED BY <1>1, <2>1, <2>3 DEF PublishFindings, TypeOK, StopsWhenTold, editorVars
<1> QED BY <1>2, <1>3, <1>4, <1>5, <1>6

LEMMA NextInv == IInv /\ [Next]_vars => IInv'
<1> SUFFICES ASSUME IInv, [Next]_vars PROVE IInv'
  OBVIOUS
<1>1. CASE Receive
  BY <1>1 DEF IInv, Receive, TypeOK, InboxInv, StopsWhenTold, serverVars
<1>2. CASE UNCHANGED vars
  BY <1>2 DEF IInv, vars, TypeOK, InboxInv, StopsWhenTold, serverVars, editorVars
<1> QED BY <1>1, <1>2, EditorInv, HandleInv, AnalysisInv DEF Next, Server

(* The server's state keeps its type, with any editor. *)
THEOREM ServerTypes == Spec => []TypeOK
<1>1. IInv => TypeOK
  BY DEF IInv
<1> QED BY <1>1, InitInv, NextInv, PTL DEF Spec

(* The server stops only after its editor closed its input or died, sent a *)
(* message that cannot be read, or sent both shutdown and exit: no failing *)
(* analysis takes it down.                                                 *)
THEOREM ServerStopsWhenTold == Spec => []StopsWhenTold
<1>1. IInv => StopsWhenTold
  BY DEF IInv
<1> QED BY <1>1, InitInv, NextInv, PTL DEF Spec

-----------------------------------------------------------------------------
(* The ids of the messages of a kind, in their order.                      *)
HasIds(M, kind) == \A msg \in M : msg.kind = kind => msg.id \in Ids

Chosen(messages, kind) ==
    SelectAt(messages, {i \in DOMAIN messages : messages[i].kind = kind})

LEMMA IdsOfTypes ==
    ASSUME NEW M, NEW s \in Seq(M), NEW kind, HasIds(M, kind)
    PROVE  /\ Chosen(s, kind) \in Seq(M)
           /\ IdsOf(s, kind) \in Seq(Ids)
           /\ Len(IdsOf(s, kind)) = Len(Chosen(s, kind))
           /\ \A i \in 1..Len(Chosen(s, kind)) : IdsOf(s, kind)[i] = Chosen(s, kind)[i].id
<1> DEFINE places == {i \in DOMAIN s : s[i].kind = kind}
           c == SelectAt(s, places)
           N == Len(c)
           ids == [i \in 1..N |-> c[i].id]
<1>1. c \in Seq(M) /\ Range(c) = {s[i] : i \in places \cap 1..Len(s)}
  <2> HIDE DEF places
  <2> QED BY SelectAtPlaces, SelectAtRange
<1>2. Len(s) \in Nat /\ DOMAIN s = 1..Len(s) /\ \A i \in 1..Len(s) : s[i] \in M
  BY LenProperties, ElementOfSeq
<1>3. \A msg \in Range(c) : msg \in M /\ msg.kind = kind
  <2> HIDE DEF c
  <2> QED BY <1>1, <1>2
<1> HIDE DEF c
<1>4. N \in Nat /\ DOMAIN c = 1..N /\ Range(c) = {c[i] : i \in 1..N}
  BY <1>1, LenProperties, RangeOfSeq, RangeEquality
<1>5. \A i \in 1..N : c[i].id \in Ids
  BY <1>3, <1>4 DEF HasIds
<1>6. ids \in [1..N -> Ids]
  BY <1>5
<1>7. ids \in Seq(Ids) /\ Len(ids) = N
  <2> HIDE DEF ids, N
  <2>1. N \in Nat
    BY <1>4
  <2> QED BY <1>6, <2>1, FunctionIsSeq
<1>8. IdsOf(s, kind) = ids
  BY <1>4 DEF IdsOf, c
<1>9. Chosen(s, kind) = c
  BY DEF Chosen, c
<1> QED BY <1>1, <1>7, <1>8, <1>9

(* A message adds its id when it is of the kind. *)
LEMMA IdsOfFew ==
    ASSUME NEW M, NEW msg \in M, NEW kind, HasIds(M, kind)
    PROVE  /\ IdsOf(<<>>, kind) = <<>>
           /\ IdsOf(<<msg>>, kind) = IF msg.kind = kind THEN <<msg.id>> ELSE <<>>
<1>1. /\ <<>> \in Seq(M) /\ Len(<<>>) = 0 /\ DOMAIN <<msg>> = 1..1
      /\ <<msg>>[1] = msg /\ <<msg>> \in Seq(M)
  BY EmptySeq
<1>2. Chosen(<<>>, kind) = <<>>
  BY <1>1, SelectAtFew DEF Chosen
<1>3. Chosen(<<msg>>, kind) = IF msg.kind = kind THEN <<msg>> ELSE <<>>
  <2> DEFINE places == {i \in DOMAIN <<msg>> : <<msg>>[i].kind = kind}
  <2>1. 1 \in places <=> msg.kind = kind
    BY <1>1
  <2>2. Chosen(<<msg>>, kind) = SelectAt(<<msg>>, places)
    BY DEF Chosen
  <2> HIDE DEF places
  <2> QED BY <2>1, <2>2, SelectAtFew
<1>4. ASSUME NEW s \in Seq(M), Chosen(s, kind) = <<>>
      PROVE  IdsOf(s, kind) = <<>>
  <2>1. IdsOf(s, kind) \in Seq(Ids) /\ Len(IdsOf(s, kind)) = 0
    BY <1>1, <1>4, IdsOfTypes
  <2> QED BY <2>1, EmptySeq
<1>5. ASSUME msg.kind = kind
      PROVE  IdsOf(<<msg>>, kind) = <<msg.id>>
  <2> DEFINE ids == IdsOf(<<msg>>, kind)
             one == <<msg.id>>
  <2>1. ids \in Seq(Ids) /\ Len(ids) = 1 /\ ids[1] = msg.id
    <3>1. Chosen(<<msg>>, kind) = <<msg>> /\ Len(<<msg>>) = 1
      BY <1>3, <1>5
    <3>2. /\ ids \in Seq(Ids)
          /\ Len(ids) = Len(Chosen(<<msg>>, kind))
          /\ \A i \in 1..Len(Chosen(<<msg>>, kind)) : ids[i] = Chosen(<<msg>>, kind)[i].id
      <4> DEFINE q == <<msg>>
      <4>1. q \in Seq(M)
        BY <1>1
      <4> HIDE DEF q, ids
      <4>2. /\ IdsOf(q, kind) \in Seq(Ids)
            /\ Len(IdsOf(q, kind)) = Len(Chosen(q, kind))
            /\ \A i \in 1..Len(Chosen(q, kind)) : IdsOf(q, kind)[i] = Chosen(q, kind)[i].id
        BY <4>1, IdsOfTypes
      <4> QED BY <4>2, Zenon DEF q, ids
    <3>3. <<msg>>[1] = msg
      OBVIOUS
    <3>4. Len(ids) = Len(<<msg>>) /\ \A i \in 1..1 : ids[i] = <<msg>>[i].id
      <4> HIDE DEF ids
      <4> QED BY <3>1, <3>2
    <3> HIDE DEF ids
    <3> QED BY <3>1, <3>2, <3>3, <3>4
  <2>2. one \in Seq(Ids) /\ Len(one) = 1 /\ one[1] = msg.id
    BY <1>5 DEF HasIds
  <2> HIDE DEF ids, one
  <2>3. ids = one
    BY <2>1, <2>2, SeqEqual
  <2> QED BY <2>3 DEF ids, one
<1> QED BY <1>1, <1>2, <1>3, <1>4, <1>5

IdsJoin(s, t, kind) == IdsOf(s \o t, kind) = IdsOf(s, kind) \o IdsOf(t, kind)

LEMMA IdsOfConcat ==
    ASSUME NEW M, NEW s \in Seq(M), NEW t \in Seq(M), NEW kind, HasIds(M, kind)
    PROVE  IdsJoin(s, t, kind)
<1> DEFINE both == s \o t
           c == Chosen(s, kind)
           d == Chosen(t, kind)
           e == Chosen(both, kind)
           onLeft == {i \in DOMAIN s : s[i].kind = kind}
           onRight == {i \in DOMAIN t : t[i].kind = kind}
           places == {i \in DOMAIN both : both[i].kind = kind}
<1>1. /\ both \in Seq(M) /\ Len(both) = Len(s) + Len(t)
      /\ Len(s) \in Nat /\ Len(t) \in Nat
      /\ \A i \in 1..Len(s) + Len(t) : both[i] = IF i <= Len(s) THEN s[i] ELSE t[i - Len(s)]
  BY ConcatProperties, LenProperties
<1>2. DOMAIN both = 1..Len(s) + Len(t) /\ DOMAIN s = 1..Len(s) /\ DOMAIN t = 1..Len(t)
  <2> HIDE DEF both
  <2> QED BY <1>1, LenProperties
<1> HIDE DEF both
<1>3. onLeft \cap 1..Len(s) = places \cap 1..Len(s)
  BY <1>1, <1>2
<1>4. \A i \in 1..Len(t) : i \in onRight <=> Len(s) + i \in places
  <2> TAKE i \in 1..Len(t)
  <2>0. Len(s) \in Nat /\ Len(t) \in Nat
    BY <1>1
  <2>1. Len(s) + i \in 1..Len(s) + Len(t) /\ ~(Len(s) + i <= Len(s)) /\ Len(s) + i - Len(s) = i
    BY <2>0
  <2>2. both[Len(s) + i] = t[i]
    BY <1>1, <2>1
  <2>3. Len(s) + i \in DOMAIN both /\ i \in DOMAIN t
    BY <1>2, <2>1
  <2> QED BY <2>2, <2>3
<1>5. c = SelectAt(s, onLeft) /\ d = SelectAt(t, onRight) /\ e = SelectAt(both, places)
  BY DEF Chosen
<1>6. e = c \o d
  <2> HIDE DEF onLeft, onRight, places, c, d, e
  <2>1. PlacesApart(s, t, places, onLeft, onRight)
    BY <1>3, <1>4 DEF PlacesApart
  <2>2. SelectsApart(s, t, places, onLeft, onRight)
    BY <2>1, SelectAtConcat
  <2> QED BY <1>5, <2>2 DEF SelectsApart, both
<1> DEFINE ids == IdsOf(both, kind)
           left == IdsOf(s, kind)
           right == IdsOf(t, kind)
<1>7. /\ c \in Seq(M) /\ left \in Seq(Ids) /\ Len(left) = Len(c)
      /\ \A i \in 1..Len(c) : left[i] = c[i].id
  BY IdsOfTypes
<1>8. /\ d \in Seq(M) /\ right \in Seq(Ids) /\ Len(right) = Len(d)
      /\ \A i \in 1..Len(d) : right[i] = d[i].id
  BY IdsOfTypes
<1>9. /\ ids \in Seq(Ids) /\ Len(ids) = Len(e)
      /\ \A i \in 1..Len(e) : ids[i] = e[i].id
  BY <1>1, IdsOfTypes
<1> HIDE DEF c, d, e, ids, left, right
<1>10. /\ Len(e) = Len(c) + Len(d) /\ Len(c) \in Nat /\ Len(d) \in Nat
       /\ \A i \in 1..Len(c) + Len(d) : e[i] = IF i <= Len(c) THEN c[i] ELSE d[i - Len(c)]
  BY <1>6, <1>7, <1>8, ConcatProperties, LenProperties
<1>11. /\ left \o right \in Seq(Ids)
       /\ Len(left \o right) = Len(c) + Len(d)
       /\ \A i \in 1..Len(c) + Len(d) :
              (left \o right)[i] = IF i <= Len(c) THEN left[i] ELSE right[i - Len(c)]
  <2>1. left \in Seq(Ids) /\ right \in Seq(Ids)
    BY <1>7, <1>8
  <2>2. /\ left \o right \in Seq(Ids)
        /\ Len(left \o right) = Len(left) + Len(right)
        /\ \A i \in 1..Len(left) + Len(right) :
               (left \o right)[i] = IF i <= Len(left) THEN left[i] ELSE right[i - Len(left)]
    BY <2>1, ConcatProperties
  <2>3. Len(left) = Len(c) /\ Len(right) = Len(d)
    BY <1>7, <1>8
  <2> QED BY <2>2, <2>3
<1>12. \A i \in 1..Len(c) + Len(d) : ids[i] = (left \o right)[i]
  <2> TAKE i \in 1..Len(c) + Len(d)
  <2>1. CASE i <= Len(c)
    <3>1. i \in 1..Len(c) /\ i \in 1..Len(e)
      BY <1>10, <2>1
    <3> QED BY <1>7, <1>9, <1>10, <1>11, <2>1, <3>1
  <2>2. CASE ~(i <= Len(c))
    <3>1. i - Len(c) \in 1..Len(d) /\ i \in 1..Len(e)
      BY <1>10, <2>2
    <3> QED BY <1>8, <1>9, <1>10, <1>11, <2>2, <3>1
  <2> QED BY <2>1, <2>2
<1>13. ids = left \o right
  <2> DEFINE r == left \o right
  <2>1. r \in Seq(Ids) /\ Len(ids) = Len(r) /\ \A i \in 1..Len(ids) : ids[i] = r[i]
    BY <1>9, <1>10, <1>11, <1>12
  <2> HIDE DEF r
  <2>2. ids = r
    BY <1>9, <2>1, SeqEqual
  <2> QED BY <2>2 DEF r
<1> QED BY <1>13 DEF IdsJoin, ids, left, right, both

(* A message more at the end, and the first message taken off. *)
IdsGrow(s, msg, kind) ==
    IdsOf(Append(s, msg), kind) =
        IF msg.kind = kind THEN Append(IdsOf(s, kind), msg.id) ELSE IdsOf(s, kind)

LEMMA IdsOfAppend ==
    ASSUME NEW M, NEW s \in Seq(M), NEW msg \in M, NEW kind, HasIds(M, kind)
    PROVE  IdsGrow(s, msg, kind)
<1> DEFINE one == <<msg>>
           ids == IdsOf(s, kind)
<1>1. one \in Seq(M) /\ Append(s, msg) = s \o one
  BY AppendIsConcat
<1>2. ids \in Seq(Ids)
  BY IdsOfTypes
<1>3. IdsOf(one, kind) = IF msg.kind = kind THEN <<msg.id>> ELSE <<>>
  BY IdsOfFew
<1> HIDE DEF one, ids
<1>4. IdsJoin(s, one, kind)
  BY <1>1, IdsOfConcat
<1>5. IdsOf(Append(s, msg), kind) = ids \o IdsOf(one, kind)
  BY <1>1, <1>4 DEF IdsJoin, ids
<1>6. CASE msg.kind = kind
  <2>1. msg.id \in Ids
    BY <1>6 DEF HasIds
  <2>2. ids \o <<msg.id>> = Append(ids, msg.id)
    BY <1>2, <2>1, AppendIsConcat
  <2> QED BY <1>3, <1>5, <1>6, <2>2 DEF IdsGrow, ids
<1>7. CASE msg.kind # kind
  <2>1. ids \o <<>> = ids
    BY <1>2, ConcatEmptySeq
  <2> QED BY <1>3, <1>5, <1>7, <2>1 DEF IdsGrow, ids
<1> QED BY <1>6, <1>7

IdsUnfold(s, kind) ==
    IdsOf(s, kind) =
        IF Head(s).kind = kind THEN <<Head(s).id>> \o IdsOf(Tail(s), kind)
        ELSE IdsOf(Tail(s), kind)

LEMMA IdsOfHead ==
    ASSUME NEW M, NEW s \in Seq(M), s # <<>>, NEW kind, HasIds(M, kind)
    PROVE  IdsUnfold(s, kind)
<1> DEFINE msg == Head(s)
           one == <<msg>>
           rest == Tail(s)
           ids == IdsOf(rest, kind)
<1>1. msg \in M /\ rest \in Seq(M)
  BY HeadTailProperties
<1>2. s = one \o rest
  BY HeadBeforeTail DEF HeadFirst
<1> HIDE DEF msg, rest
<1>3. one \in Seq(M)
  BY <1>1
<1>4. IdsOf(one, kind) = IF msg.kind = kind THEN <<msg.id>> ELSE <<>>
  BY <1>1, IdsOfFew
<1>5. ids \in Seq(Ids)
  BY <1>1, IdsOfTypes
<1> HIDE DEF one, ids
<1>6. IdsJoin(one, rest, kind)
  BY <1>1, <1>3, IdsOfConcat
<1>7. IdsOf(s, kind) = IdsOf(one, kind) \o ids
  BY <1>2, <1>6 DEF IdsJoin, ids
<1>8. <<>> \o ids = ids
  BY <1>5, ConcatEmptySeq
<1> QED BY <1>4, <1>7, <1>8 DEF IdsUnfold, ids, msg, rest

-----------------------------------------------------------------------------
(* Requests and replies.  While the server runs and the editor lives, the  *)
(* ids received, on their way back and still on their way there make up    *)
(* the ids sent; once either has ended only the order is left.             *)
Reports  == {Findings(files)[f] : files \in [Files -> Contents], f \in Files} \cup {{}}
Outgoing == [kind : {"reply"}, id : Ids]
                \cup [kind : {"publish"}, file : Files, findings : Reports]

OrderInv ==
    /\ outbox \in Seq(Outgoing)
    /\ answered \in Seq(Ids) /\ sent \in Seq(Ids)
    /\ AnsweredInOrder

Answers == answered \o IdsOf(outbox, "reply")
Asked   == IdsOf(inbox, "request")
Live    == server # "stopped" /\ ~gone

LEMMA MessagesHaveIds ==
    HasIds(Outgoing, "reply") /\ HasIds(Whole \cup {Cut}, "request")
BY DEF HasIds, Outgoing, Whole, Ignored, Exit, Malformed, Cut

LEMMA OrderForm ==
    AnsweredInOrder <=> IsPrefix(Answers, sent) /\ (Live => Answers \o Asked = sent)
BY DEF AnsweredInOrder, Answers, Asked, Live

(* A step that moves no id and revives nobody. *)
LEMMA OrderKept ==
    ASSUME AnsweredInOrder, UNCHANGED <<Answers, Asked, sent>>, Live' => Live
    PROVE  AnsweredInOrder'
<1>1. IsPrefix(Answers, sent) /\ (Live => Answers \o Asked = sent)
  BY OrderForm
<1>2. IsPrefix(Answers', sent') /\ (Live' => Answers' \o Asked' = sent')
  BY <1>1
<1> QED BY <1>2 DEF AnsweredInOrder, Answers, Asked, Live

LEMMA NoIds == IdsOf(<<>>, "reply") = <<>> /\ IdsOf(<<>>, "request") = <<>>
<1> DEFINE msg == [kind |-> "reply", id |-> "initialize"]
<1>1. msg \in Outgoing /\ Cut \in Whole \cup {Cut}
  BY DEF Outgoing, Ids
<1> HIDE DEF msg
<1>2. IdsOf(<<>>, "reply") = <<>>
  BY <1>1, MessagesHaveIds, IdsOfFew
<1>3. IdsOf(<<>>, "request") = <<>>
  BY <1>1, MessagesHaveIds, IdsOfFew
<1> QED BY <1>2, <1>3

LEMMA InitOrder == Init => OrderInv
<1> SUFFICES ASSUME Init PROVE OrderInv
  OBVIOUS
<1>1. /\ outbox \in Seq(Outgoing) /\ answered \in Seq(Ids) /\ sent \in Seq(Ids)
      /\ inbox = <<>> /\ outbox = <<>> /\ answered = <<>> /\ sent = <<>>
  BY EmptySeq DEF Init
<1>3. <<>> \o <<>> = <<>>
  BY EmptySeq, ConcatEmptySeq
<1>4. IsPrefix(<<>>, sent)
  BY <1>1, EmptyIsPrefix
<1>5. Answers = <<>> /\ Asked = <<>>
  BY <1>1, <1>3, NoIds DEF Answers, Asked
<1>6. IsPrefix(Answers, sent) /\ (Live => Answers \o Asked = sent)
  BY <1>1, <1>3, <1>4, <1>5
<1> QED BY <1>1, <1>6, OrderForm DEF OrderInv

(* What the editor puts into the server's input. *)
LEMMA EditorOrder == ASSUME IInv, OrderInv, Editor PROVE OrderInv'
<1>1. /\ inbox \in Seq(Whole \cup {Cut}) /\ outbox \in Seq(Outgoing)
      /\ answered \in Seq(Ids) /\ sent \in Seq(Ids) /\ AnsweredInOrder
      /\ gone => closed
  BY DEF IInv, InboxInv, OrderInv, TypeOK
<1>2. ASSUME NEW msg \in Whole \cup {Cut}, inbox' = Append(inbox, msg)
      PROVE  Asked' = IF msg.kind = "request" THEN Append(Asked, msg.id) ELSE Asked
  <2>1. IdsGrow(inbox, msg, "request")
    BY <1>1, MessagesHaveIds, IdsOfAppend
  <2> QED BY <1>2, <2>1 DEF IdsGrow, Asked
<1>3. CASE \E id \in Ids : SendRequest(id)
  <2>1. PICK id \in Ids : SendRequest(id)
    BY <1>3
  <2>2. /\ sent' = Append(sent, id) /\ inbox' = Append(inbox, Request(id))
        /\ UNCHANGED <<outbox, server, answered, gone>>
    BY <2>1 DEF SendRequest, serverVars
  <2>3. Request(id) \in Whole \cup {Cut} /\ Request(id).kind = "request" /\ Request(id).id = id
    BY DEF Whole, Request
  <2>4. Asked' = Append(Asked, id)
    BY <1>2, <2>2, <2>3
  <2>5. Answers' = Answers /\ (Live' <=> Live)
    BY <2>2 DEF Answers, Live
  <2>6. Answers \in Seq(Ids) /\ Asked \in Seq(Ids)
    <3>1. IdsOf(outbox, "reply") \in Seq(Ids)
      BY <1>1, MessagesHaveIds, IdsOfTypes
    <3>2. IdsOf(inbox, "request") \in Seq(Ids)
      BY <1>1, MessagesHaveIds, IdsOfTypes
    <3> QED BY <1>1, <3>1, <3>2, ConcatProperties DEF Answers, Asked
  <2>7. IsPrefix(Answers', sent')
    <3>1. IsPrefix(Answers, sent)
      BY <1>1, OrderForm
    <3> QED BY <1>1, <2>2, <2>5, <2>6, <3>1, PrefixOfLonger
  <2>8. Live' => Answers' \o Asked' = sent'
    <3>1. Live => Answers \o Asked = sent
      BY <1>1, OrderForm
    <3>2. AppendsRight(Answers, Asked, id)
      BY <2>6, AppendToConcat
    <3> QED BY <2>2, <2>4, <2>5, <3>1, <3>2 DEF AppendsRight
  <2>9. AnsweredInOrder'
    BY <2>7, <2>8 DEF AnsweredInOrder, Answers, Asked, Live
  <2>10. sent' \in Seq(Ids)
    BY <1>1, <2>2, AppendProperties
  <2> QED BY <1>1, <2>2, <2>9, <2>10 DEF OrderInv
<1>4. ASSUME UNCHANGED <<outbox, server, answered, sent, gone>>,
             UNCHANGED inbox \/ \E msg \in Whole \cup {Cut} : /\ msg.kind # "request"
                                                              /\ inbox' = Append(inbox, msg)
      PROVE  OrderInv'
  <2>1. Asked' = Asked
    <3>1. CASE UNCHANGED inbox
      BY <3>1 DEF Asked
    <3>2. CASE \E msg \in Whole \cup {Cut} : /\ msg.kind # "request"
                                             /\ inbox' = Append(inbox, msg)
      BY <1>2, <3>2
    <3> QED BY <1>4, <3>1, <3>2
  <2>2. UNCHANGED <<Answers, Asked, sent>> /\ (Live' => Live)
    BY <1>4, <2>1 DEF Answers, Live
  <2>3. AnsweredInOrder'
    BY <1>1, <2>2, OrderKept
  <2> QED BY <1>1, <1>4, <2>3 DEF OrderInv
<1>5. CASE \E f \in Files : OpenOrSave(f)
  <2>1. PICK f \in Files : OpenOrSave(f)
    BY <1>5
  <2>2. Notification(f) \in Whole \cup {Cut} /\ Notification(f).kind # "request"
    BY DEF Whole, Notification
  <2> QED BY <1>4, <2>1, <2>2 DEF OpenOrSave, serverVars
<1>6. CASE \E f \in Files, content \in Contents : WriteFile(f, content)
  BY <1>4, <1>6 DEF WriteFile, serverVars
<1>7. CASE SendOther
  <2>1. \A msg \in {Ignored, Exit, Malformed} : msg \in Whole \cup {Cut} /\ msg.kind # "request"
    BY DEF Whole, Ignored, Exit, Malformed
  <2> QED BY <1>4, <1>7, <2>1 DEF SendOther, SendIgnored, SendExit, SendMalformed, serverVars
<1>8. CASE Close
  BY <1>4, <1>8 DEF Close, serverVars
<1>9. CASE Crash
  <2>1. outbox' = <<>> /\ gone' /\ UNCHANGED <<answered, sent>>
    BY <1>9 DEF Crash
  <2>2. IsPrefix(Answers, sent) /\ IdsOf(outbox, "reply") \in Seq(Ids)
    BY <1>1, OrderForm, MessagesHaveIds, IdsOfTypes
  <2>3. IsPrefix(answered, sent)
    BY <1>1, <2>2, PrefixOfConcat DEF Answers
  <2>4. Answers' = answered
    BY <1>1, <2>1, NoIds, ConcatEmptySeq DEF Answers
  <2>5. AnsweredInOrder'
    BY <2>1, <2>3, <2>4 DEF AnsweredInOrder, Answers
  <2> QED BY <1>1, <2>1, <2>5, EmptySeq DEF OrderInv
<1> QED BY <1>3, <1>5, <1>6, <1>7, <1>8, <1>9 DEF Editor, SendOther, Ids

(* What the server takes from its input, and what it writes. *)
LEMMA TakenIds ==
    ASSUME IInv, inbox # <<>>, inbox' = Tail(inbox)
    PROVE  /\ Head(inbox).kind # "request" => Asked' = Asked
           /\ Head(inbox).kind = "request" =>
                  Head(inbox).id \in Ids /\ Asked = <<Head(inbox).id>> \o Asked'
<1>1. inbox \in Seq(Whole \cup {Cut})
  BY DEF IInv, InboxInv
<1>2. IdsUnfold(inbox, "request")
  BY <1>1, MessagesHaveIds, IdsOfHead
<1>3. Head(inbox) \in Whole \cup {Cut}
  BY <1>1, HeadTailProperties
<1> QED BY <1>2, <1>3, MessagesHaveIds DEF IdsUnfold, Asked, HasIds

LEMMA WrittenIds ==
    ASSUME OrderInv, NEW msg \in Outgoing, outbox' = outbox \o <<msg>>, answered' = answered
    PROVE  /\ outbox' \in Seq(Outgoing)
           /\ Answers \in Seq(Ids)
           /\ Answers' = IF msg.kind = "reply" THEN Append(Answers, msg.id) ELSE Answers
<1>1. outbox \in Seq(Outgoing) /\ answered \in Seq(Ids)
  BY DEF OrderInv
<1>2. outbox' = Append(outbox, msg)
  BY <1>1, AppendIsConcat
<1>3. IdsGrow(outbox, msg, "reply")
  BY <1>1, MessagesHaveIds, IdsOfAppend
<1>4. IdsOf(outbox, "reply") \in Seq(Ids)
  BY <1>1, MessagesHaveIds, IdsOfTypes
<1>5. ASSUME msg.kind = "reply" PROVE Answers' = Append(Answers, msg.id)
  <2>1. msg.id \in Ids
    BY <1>5, MessagesHaveIds DEF HasIds
  <2>2. AppendsRight(answered, IdsOf(outbox, "reply"), msg.id)
    BY <1>1, <1>4, <2>1, AppendToConcat
  <2> QED BY <1>2, <1>3, <1>5, <2>2 DEF IdsGrow, AppendsRight, Answers
<1>6. ASSUME msg.kind # "reply" PROVE Answers' = Answers
  BY <1>2, <1>3, <1>6 DEF IdsGrow, Answers
<1>7. outbox' \in Seq(Outgoing)
  BY <1>1, <1>2, AppendProperties
<1>8. Answers \in Seq(Ids)
  BY <1>1, <1>4, ConcatProperties DEF Answers
<1> QED BY <1>5, <1>6, <1>7, <1>8

(* Writing notifications moves no id. *)
LEMMA PublishOrder ==
    ASSUME OrderInv, NEW messages, NEW next \in {"idle", "publishing"}, Send(messages, next),
           \/ messages = <<>>
           \/ \E msg \in Outgoing : msg.kind # "reply" /\ messages = <<msg>>,
           server # "stopped", UNCHANGED <<inbox, answered, sent, gone>>
    PROVE  OrderInv'
<1>1. /\ outbox \in Seq(Outgoing) /\ answered \in Seq(Ids) /\ sent \in Seq(Ids)
      /\ AnsweredInOrder
  BY DEF OrderInv
<1>2. outbox' \in Seq(Outgoing) /\ Answers' = Answers
  <2>1. CASE outbox' = outbox
    BY <1>1, <2>1 DEF Answers
  <2>2. CASE outbox' = outbox \o messages
    <3>1. CASE messages = <<>>
      <4>1. outbox' = outbox
        BY <1>1, <2>2, <3>1, ConcatEmptySeq
      <4> QED BY <2>1, <4>1
    <3>2. CASE \E msg \in Outgoing : msg.kind # "reply" /\ messages = <<msg>>
      BY <2>2, <3>2, WrittenIds
    <3> QED BY <3>1, <3>2
  <2> QED BY <2>1, <2>2 DEF Send
<1>3. UNCHANGED <<Answers, Asked, sent>> /\ (Live' => Live)
  BY <1>2 DEF Asked, Live
<1>4. AnsweredInOrder'
  BY <1>1, <1>3, OrderKept
<1> QED BY <1>1, <1>2, <1>4 DEF OrderInv

LEMMA ServerOrder == ASSUME IInv, OrderInv, Server PROVE OrderInv'
<1>1. /\ outbox \in Seq(Outgoing) /\ answered \in Seq(Ids) /\ sent \in Seq(Ids)
      /\ AnsweredInOrder
  BY DEF OrderInv
<1>2. ASSUME UNCHANGED <<outbox, answered, sent, gone>>, server # "stopped",
             Asked' = Asked
      PROVE  OrderInv'
  <2>1. UNCHANGED <<Answers, Asked, sent>> /\ (Live' => Live)
    BY <1>2 DEF Answers, Live
  <2>2. AnsweredInOrder'
    BY <1>1, <2>1, OrderKept
  <2> QED BY <1>1, <1>2, <2>2 DEF OrderInv
<1>3. ASSUME NEW kind, kind # "request", Reading(kind), inbox' = Tail(inbox)
      PROVE  Asked' = Asked
  BY <1>3, TakenIds DEF Reading
<1>4. CASE HandleRequest
  <2> DEFINE id == Head(inbox).id
             msg == Reply(id)
  <2>1. /\ inbox # <<>> /\ inbox' = Tail(inbox) /\ Head(inbox).kind = "request"
        /\ server = "idle" /\ Send(<<msg>>, "idle")
        /\ UNCHANGED <<answered, sent, gone>>
    BY <1>4 DEF HandleRequest, Reading, editorVars
  <2>2. id \in Ids /\ Asked = <<id>> \o Asked'
    BY <2>1, TakenIds
  <2>3. Asked' \in Seq(Ids)
    <3>1. inbox' \in Seq(Whole \cup {Cut})
      BY <2>1, HeadTailProperties DEF IInv, InboxInv
    <3> QED BY <3>1, MessagesHaveIds, IdsOfTypes DEF Asked
  <2>4. IsPrefix(Answers, sent) /\ (Live => Answers \o Asked = sent)
    BY <1>1, OrderForm
  <2>5. CASE gone
    <3>1. outbox' = outbox /\ ~Live'
      BY <2>1, <2>5 DEF Send, Live
    <3>2. Answers' = Answers
      BY <2>1, <3>1 DEF Answers
    <3>3. AnsweredInOrder'
      BY <2>1, <2>4, <3>1, <3>2 DEF AnsweredInOrder, Answers, Live
    <3> QED BY <1>1, <2>1, <3>1, <3>3 DEF OrderInv
  <2>6. CASE ~gone
    <3>1. outbox' = outbox \o <<msg>>
      BY <2>1, <2>6 DEF Send
    <3>2. msg \in Outgoing /\ msg.kind = "reply" /\ msg.id = id
      BY <2>2 DEF Outgoing, Reply
    <3> HIDE DEF msg
    <3>3. /\ outbox' \in Seq(Outgoing) /\ Answers \in Seq(Ids)
          /\ Answers' = Append(Answers, id)
      BY <2>1, <3>1, <3>2, WrittenIds
    <3> HIDE DEF id
    <3>4. Answers \o Asked = sent
      BY <2>1, <2>4, <2>6 DEF Live
    <3>5. Shifts(Answers, id, Asked')
      BY <2>2, <2>3, <3>3, ShiftOver
    <3>6. Answers' \o Asked' = sent'
      BY <2>1, <2>2, <3>3, <3>4, <3>5 DEF Shifts
    <3>7. Answers' \in Seq(Ids) /\ sent' \in Seq(Ids)
      BY <1>1, <2>1, <2>2, <3>3, AppendProperties
    <3>8. IsPrefix(Answers', sent')
      <4> DEFINE a == Answers'
                 b == Asked'
                 t == sent'
      <4>1. a \in Seq(Ids) /\ b \in Seq(Ids) /\ t \in Seq(Ids) /\ a \o b = t
        BY <2>3, <3>6, <3>7
      <4> HIDE DEF a, b, t
      <4>2. IsPrefix(a \o b, t)
        BY <4>1, PrefixOfItself
      <4>3. IsPrefix(a, t)
        BY <4>1, <4>2, PrefixOfConcat
      <4> QED BY <4>3 DEF a, t
    <3>9. AnsweredInOrder'
      BY <3>6, <3>8 DEF AnsweredInOrder, Answers, Asked
    <3> QED BY <1>1, <2>1, <3>3, <3>9 DEF OrderInv
  <2> QED BY <2>5, <2>6
<1>5. CASE HandleIgnored
  BY <1>2, <1>3, <1>5 DEF HandleIgnored, Reading, editorVars
<1>6. CASE HandleExit
  BY <1>2, <1>3, <1>6 DEF HandleExit, Reading, editorVars
<1>7. CASE HandleEOF
  BY <1>2, <1>7 DEF HandleEOF, Asked, editorVars
<1>8. CASE HandleUnreadable
  BY <1>2, <1>3, <1>8 DEF HandleUnreadable, Reading, editorVars
<1>9. CASE HandleOpenOrSave
  BY <1>2, <1>3, <1>9 DEF HandleOpenOrSave, Reading, editorVars
<1>10. CASE ReadFile \/ FailAnalysis \/ FinishAnalysis
  <2>1. UNCHANGED <<inbox, outbox, answered, sent, gone>> /\ server # "stopped"
    BY <1>10 DEF ReadFile, FailAnalysis, FinishAnalysis, editorVars
  <2> QED BY <1>2, <2>1 DEF Asked
<1>11. CASE ClearFocus
  <2>1. focus \in Files
    BY <1>11 DEF ClearFocus, IInv, TypeOK
  <2>2. Publish(focus, {}) \in Outgoing /\ Publish(focus, {}).kind # "reply"
    BY <2>1 DEF Outgoing, Publish, Reports
  <2>3. PICK messages : /\ Send(messages, "idle")
                        /\ messages \in {<<>>, <<Publish(focus, {})>>}
    BY <1>11 DEF ClearFocus
  <2>4. server # "stopped" /\ UNCHANGED <<inbox, answered, sent, gone>>
    BY <1>11 DEF ClearFocus, editorVars
  <2>5. \/ messages = <<>>
        \/ \E msg \in Outgoing : msg.kind # "reply" /\ messages = <<msg>>
    BY <2>2, <2>3
  <2> QED BY <2>3, <2>4, <2>5, PublishOrder
<1>12. CASE \E f \in Files : PublishFindings(f)
  <2>1. PICK f \in Files : PublishFindings(f)
    BY <1>12
  <2> DEFINE msg == Publish(f, Findings(seen)[f])
  <2>2. Findings(seen)[f] \in Reports
    BY DEF Reports, IInv, TypeOK
  <2>3. msg \in Outgoing /\ msg.kind # "reply"
    BY <2>2 DEF Outgoing, Publish
  <2>4. /\ Send(<<msg>>, "publishing")
        /\ server # "stopped" /\ UNCHANGED <<inbox, answered, sent, gone>>
    BY <2>1 DEF PublishFindings, editorVars
  <2> HIDE DEF msg
  <2> DEFINE messages == <<msg>>
  <2>5. \E m \in Outgoing : m.kind # "reply" /\ messages = <<m>>
    BY <2>3
  <2>6. Send(messages, "publishing")
    BY <2>4
  <2> HIDE DEF messages
  <2> QED BY <2>4, <2>5, <2>6, PublishOrder
<1> QED BY <1>4, <1>5, <1>6, <1>7, <1>8, <1>9, <1>10, <1>11, <1>12 DEF Server

(* What the editor reads. *)
LEMMA ReceiveOrder == ASSUME OrderInv, Receive PROVE OrderInv'
<1>1. /\ outbox \in Seq(Outgoing) /\ answered \in Seq(Ids) /\ sent \in Seq(Ids)
      /\ AnsweredInOrder
  BY DEF OrderInv
<1>2. /\ outbox # <<>> /\ outbox' = Tail(outbox)
      /\ UNCHANGED <<inbox, server, sent, gone>>
  BY DEF Receive, serverVars
<1> DEFINE msg == Head(outbox)
           rest == IdsOf(outbox', "reply")
<1>3. msg \in Outgoing /\ outbox' \in Seq(Outgoing)
  BY <1>1, <1>2, HeadTailProperties
<1>4. IdsUnfold(outbox, "reply")
  BY <1>1, <1>2, MessagesHaveIds, IdsOfHead
<1>5. rest \in Seq(Ids)
  BY <1>3, MessagesHaveIds, IdsOfTypes
<1>6. answered' \in Seq(Ids) /\ Answers' = Answers
  <2>1. CASE msg.kind = "reply"
    <3>1. answered' = Append(answered, msg.id) /\ msg.id \in Ids
      BY <1>3, <2>1, MessagesHaveIds DEF Receive, HasIds
    <3>2. IdsOf(outbox, "reply") = <<msg.id>> \o rest
      BY <1>2, <1>4, <2>1 DEF IdsUnfold
    <3> HIDE DEF msg, rest
    <3>3. Shifts(answered, msg.id, rest)
      BY <1>1, <1>5, <3>1, ShiftOver
    <3>4. Answers = Append(answered, msg.id) \o rest
      BY <3>2, <3>3 DEF Shifts, Answers
    <3> QED BY <1>1, <3>1, <3>4, AppendProperties DEF Answers, rest
  <2>2. CASE msg.kind # "reply"
    <3>1. answered' = answered
      BY <2>2 DEF Receive
    <3>2. IdsOf(outbox, "reply") = rest
      BY <1>2, <1>4, <2>2 DEF IdsUnfold
    <3> QED BY <1>1, <3>1, <3>2 DEF Answers
  <2> QED BY <2>1, <2>2
<1>7. UNCHANGED <<Answers, Asked, sent>> /\ (Live' => Live)
  BY <1>2, <1>6 DEF Asked, Live
<1>8. AnsweredInOrder'
  BY <1>1, <1>7, OrderKept
<1> QED BY <1>1, <1>2, <1>3, <1>6, <1>8 DEF OrderInv

LEMMA NextOrder == IInv /\ OrderInv /\ [Next]_vars => OrderInv'
<1> SUFFICES ASSUME IInv, OrderInv, [Next]_vars PROVE OrderInv'
  OBVIOUS
<1>1. CASE UNCHANGED vars
  <2>1. UNCHANGED <<inbox, outbox, answered, sent, server, gone>>
    BY <1>1 DEF vars, serverVars, editorVars
  <2> QED BY <2>1 DEF OrderInv, AnsweredInOrder
<1> QED BY <1>1, EditorOrder, ServerOrder, ReceiveOrder DEF Next

(* Each request is answered once and the replies come in the order of the  *)
(* requests, whatever the analyses between them write; a request is lost   *)
(* only when the server has stopped or the editor has died.                *)
THEOREM RepliesInOrder == Spec => []AnsweredInOrder
<1>1. OrderInv => AnsweredInOrder
  BY DEF OrderInv
<1> QED BY <1>1, InitInv, NextInv, InitOrder, NextOrder, PTL DEF Spec

-----------------------------------------------------------------------------
(* The last message of a kind.  Ends says that the last element of q that  *)
(* is in K is last, and that first is last when there is none.             *)
Ends(q, K, first, last) ==
    LET places == {i \in DOMAIN q : q[i] \in K}
    IN  /\ places = {} => first = last
        /\ \A i \in places : (\A j \in places : j <= i) => q[i] = last

LEMMA EndsEmpty == ASSUME NEW K, NEW first, NEW last, Ends(<<>>, K, first, last) PROVE first = last
BY DEF Ends

LEMMA EndsAppend ==
    ASSUME NEW S, NEW q \in Seq(S), NEW m \in S, NEW K, NEW first, NEW last,
           IF m \in K THEN m = last ELSE Ends(q, K, first, last)
    PROVE  Ends(Append(q, m), K, first, last)
<1> DEFINE r == Append(q, m)
           N == Len(q)
<1>1. /\ N \in Nat /\ r \in Seq(S) /\ Len(r) = N + 1
      /\ \A i \in 1..N : r[i] = q[i]
      /\ r[N + 1] = m
  BY AppendProperties, LenProperties
<1> HIDE DEF r
<1>2. DOMAIN q = 1..N /\ DOMAIN r = 1..N + 1
  BY <1>1, LenProperties
<1> HIDE DEF N
<1> DEFINE P == {i \in DOMAIN q : q[i] \in K}
           R == {i \in DOMAIN r : r[i] \in K}
<1>3. CASE m \in K
  <2>1. N + 1 \in R /\ \A i \in R : N + 1 <= i => i = N + 1
    BY <1>1, <1>2, <1>3
  <2>2. \A i \in R : (\A j \in R : j <= i) => r[i] = last
    BY <1>1, <1>3, <2>1
  <2>3. Ends(r, K, first, last)
    BY <2>1, <2>2 DEF Ends
  <2> QED BY <2>3 DEF r
<1>4. CASE m \notin K
  <2>1. R = P
    BY <1>1, <1>2, <1>4
  <2>2. \A i \in P : r[i] = q[i]
    BY <1>1, <1>2
  <2>3. /\ P = {} => first = last
        /\ \A i \in P : (\A j \in P : j <= i) => q[i] = last
    BY <1>4 DEF Ends
  <2>4. Ends(r, K, first, last)
    BY <2>1, <2>2, <2>3 DEF Ends
  <2> QED BY <2>4 DEF r
<1> QED BY <1>3, <1>4

LEMMA EndsTail ==
    ASSUME NEW S, NEW q \in Seq(S), q # <<>>, NEW K, NEW first, NEW last,
           Ends(q, K, first, last),
           NEW next, next = IF Head(q) \in K THEN Head(q) ELSE first
    PROVE  Ends(Tail(q), K, next, last)
<1> DEFINE r == Tail(q)
           N == Len(q)
           m == Head(q)
           P == {i \in DOMAIN q : q[i] \in K}
           R == {i \in DOMAIN r : r[i] \in K}
<1>1. /\ N \in Nat /\ N >= 1 /\ r \in Seq(S) /\ Len(r) = N - 1
      /\ m = q[1]
      /\ \A i \in 1..N - 1 : r[i] = q[i + 1]
  <2>1. /\ r \in Seq(S) /\ Len(r) = N - 1 /\ m = q[1]
        /\ \A i \in 1..Len(r) : r[i] = q[i + 1]
    BY HeadTailProperties
  <2>2. N \in Nat /\ N # 0
    BY LenProperties, EmptySeq
  <2> HIDE DEF r, N, m
  <2> QED BY <2>1, <2>2
<1> HIDE DEF r
<1>2. DOMAIN q = 1..N /\ DOMAIN r = 1..N - 1
  BY <1>1, LenProperties
<1> HIDE DEF N, m
<1>3. \A i \in R : i \in Nat /\ i + 1 \in P /\ r[i] = q[i + 1]
  BY <1>1, <1>2
<1>4. \A i \in P : i \in Nat /\ (i = 1 \/ (i - 1 \in R /\ i = (i - 1) + 1))
  BY <1>1, <1>2
<1>5. /\ P = {} => first = last
      /\ \A i \in P : (\A j \in P : j <= i) => q[i] = last
  BY DEF Ends
<1>6. 1 \in P <=> m \in K
  BY <1>1, <1>2
<1>7. ASSUME R = {} PROVE next = last
  <2>1. \A i \in P : i = 1
    BY <1>4, <1>7
  <2>2. CASE m \in K
    <3>1. 1 \in P /\ \A j \in P : j <= 1
      BY <1>6, <2>1, <2>2
    <3> QED BY <1>1, <1>5, <2>2, <3>1 DEF m
  <2>3. CASE m \notin K
    <3>1. P = {}
      BY <1>6, <2>1, <2>3
    <3> QED BY <1>5, <2>3, <3>1 DEF m
  <2> QED BY <2>2, <2>3
<1>8. ASSUME NEW i \in R, \A j \in R : j <= i PROVE r[i] = last
  <2>1. i + 1 \in P /\ r[i] = q[i + 1] /\ i \in Nat
    BY <1>3
  <2>2. \A j \in P : j <= i + 1
    <3> TAKE j \in P
    <3>1. CASE j = 1
      BY <2>1, <3>1
    <3>2. CASE j - 1 \in R
      <4>1. j - 1 <= i /\ j \in Nat
        BY <1>4, <1>8, <3>2
      <4> QED BY <2>1, <4>1
    <3> QED BY <1>4, <3>1, <3>2
  <2> QED BY <1>5, <2>1, <2>2
<1>9. Ends(r, K, next, last)
  BY <1>7, <1>8 DEF Ends
<1> QED BY <1>9 DEF r

-----------------------------------------------------------------------------
(* The reports.  Once the editor has told the server of every write, the   *)
(* last analysis to succeed has read every file as it is now: a file that  *)
(* it read too early has been written since, and either the editor has yet *)
(* to say so or the message that says so is still to be handled.           *)
Notes == [kind : {"didOpenOrSave"}, file : Files]
Begin == Request("initialize")

(* The server will hear of a write. *)
Told == Range(inbox) \cap Notes # {}

(* initialize has come and named no root: the server analyses nothing. *)
Deaf == ~root /\ "initialize" \in Range(sent) /\ Begin \notin Range(inbox)

BeginsFirst(q) == \A i, j \in DOMAIN q : q[i] = Begin /\ q[j] \in Notes => i < j

StartInv ==
    /\ Told => "initialize" \in Range(sent)
    /\ BeginsFirst(inbox)

FreshInv ==
    \A f \in Files :
        \/ seen[f] = disk[f]
        \/ f \in unsaid
        \/ Told
        \/ Deaf
        \/ server = "reading" /\ f \in unread
        \/ server # "reading" /\ failed

(* The last file told of is in focus once its message is handled. *)
LastInv == Deaf \/ Ends(inbox, Notes, Notification(focus), Notification(lastSaved))

LEMMA BeginsFirstAppend ==
    ASSUME NEW S, NEW q \in Seq(S), NEW m \in S, BeginsFirst(q),
           m = Begin => Range(q) \cap Notes = {}
    PROVE  BeginsFirst(Append(q, m))
<1> DEFINE r == Append(q, m)
           N == Len(q)
<1>1. /\ N \in Nat /\ r \in Seq(S) /\ Len(r) = N + 1
      /\ \A i \in 1..N : r[i] = q[i]
      /\ r[N + 1] = m
  BY AppendProperties, LenProperties
<1> HIDE DEF r
<1>2. DOMAIN q = 1..N /\ DOMAIN r = 1..N + 1
  BY <1>1, LenProperties
<1>3. Begin \notin Notes
  BY DEF Begin, Notes, Request
<1>4. m = Begin => \A j \in 1..N : q[j] \notin Notes
  <2>1. Range(q) = {q[j] : j \in 1..N}
    BY <1>2 DEF Range
  <2> QED BY <2>1
<1> HIDE DEF N
<1>5. ASSUME NEW i \in DOMAIN r, NEW j \in DOMAIN r, r[i] = Begin, r[j] \in Notes
      PROVE  i < j
  <2>1. i \in Nat /\ j \in Nat /\ i <= N + 1 /\ j <= N + 1 /\ i # j
    BY <1>1, <1>2, <1>3, <1>5
  <2>2. CASE j = N + 1
    BY <1>1, <2>1, <2>2
  <2>3. CASE j # N + 1
    <3>1. j \in 1..N /\ q[j] \in Notes
      BY <1>1, <1>2, <1>5, <2>3
    <3>2. i \in 1..N /\ q[i] = Begin
      BY <1>1, <1>2, <1>4, <1>5, <3>1
    <3> QED BY <1>2, <3>1, <3>2 DEF BeginsFirst
  <2> QED BY <2>2, <2>3
<1>6. BeginsFirst(r)
  BY <1>5 DEF BeginsFirst
<1> QED BY <1>6 DEF r

LEMMA BeginsFirstTail ==
    ASSUME NEW S, NEW q \in Seq(S), q # <<>>, BeginsFirst(q)
    PROVE  /\ BeginsFirst(Tail(q))
           /\ Head(q) \in Notes => Begin \notin Range(Tail(q))
<1> DEFINE r == Tail(q)
           N == Len(q)
           m == Head(q)
<1>1. /\ N \in Nat /\ N >= 1 /\ r \in Seq(S) /\ Len(r) = N - 1
      /\ m = q[1]
      /\ \A i \in 1..N - 1 : r[i] = q[i + 1]
  <2>1. /\ r \in Seq(S) /\ Len(r) = N - 1 /\ m = q[1]
        /\ \A i \in 1..Len(r) : r[i] = q[i + 1]
    BY HeadTailProperties
  <2>2. N \in Nat /\ N # 0
    BY LenProperties, EmptySeq
  <2> HIDE DEF r, N, m
  <2> QED BY <2>1, <2>2
<1> HIDE DEF r
<1>2. DOMAIN q = 1..N /\ DOMAIN r = 1..N - 1
  BY <1>1, LenProperties
<1> HIDE DEF N, m
<1>3. \A i \in DOMAIN r : i \in Nat /\ i + 1 \in DOMAIN q /\ 1 \in DOMAIN q /\ r[i] = q[i + 1]
  BY <1>1, <1>2
<1>4. ASSUME NEW i \in DOMAIN r, NEW j \in DOMAIN r, r[i] = Begin, r[j] \in Notes
      PROVE  i < j
  <2>1. i + 1 < j + 1 /\ i \in Nat /\ j \in Nat
    BY <1>3, <1>4 DEF BeginsFirst
  <2> QED BY <2>1
<1>5. ASSUME m \in Notes, NEW i \in DOMAIN r PROVE r[i] # Begin
  <2>1. r[i] = Begin => i + 1 < 1
    BY <1>1, <1>3, <1>5 DEF BeginsFirst
  <2> QED BY <1>3, <2>1
<1>6. BeginsFirst(r) /\ (m \in Notes => Begin \notin Range(r))
  BY <1>4, <1>5 DEF BeginsFirst, Range
<1> QED BY <1>6 DEF r, m

(* What the messages are and what a step does to the queue of them. *)
LEMMA NoteForms ==
    /\ Begin \notin Notes
    /\ \A msg \in Whole \cup {Cut} :
           /\ msg.kind = "request" => msg = Request(msg.id) /\ msg.id \in Ids
           /\ msg.kind = "didOpenOrSave" <=> msg \in Notes
           /\ msg = Begin <=> msg.kind = "request" /\ msg.id = "initialize"
           /\ msg \in Notes => msg = Notification(msg.file) /\ msg.file \in Files
BY DEF Begin, Notes, Request, Notification, Whole, Cut, Malformed, Ignored, Exit

LEMMA EditorSends ==
    ASSUME Editor
    PROVE  /\ UNCHANGED <<root, server, focus, seen, unread, failed>>
           /\ \/ /\ UNCHANGED <<inbox, sent, lastSaved>>
                 /\ \/ UNCHANGED <<disk, unsaid>>
                    \/ \E f \in Files, content \in Contents :
                           disk' = [disk EXCEPT ![f] = content] /\ unsaid' = unsaid \cup {f}
              \/ \E id \in Ids : /\ sent' = Append(sent, id) /\ inbox' = Append(inbox, Request(id))
                                 /\ id \notin Range(sent) /\ UNCHANGED <<disk, unsaid, lastSaved>>
              \/ \E f \in Files : /\ inbox' = Append(inbox, Notification(f))
                                  /\ "initialize" \in Range(sent) /\ lastSaved' = f
                                  /\ UNCHANGED <<disk, sent>>
              \/ \E msg \in {Ignored, Exit, Malformed, Cut} :
                     inbox' = Append(inbox, msg) /\ UNCHANGED <<disk, sent, unsaid, lastSaved>>
<1>1. UNCHANGED <<root, server, focus, seen, unread, failed>>
  BY DEF Editor, SendRequest, OpenOrSave, WriteFile, SendIgnored, SendExit, SendMalformed, Close, Crash,
         serverVars
<1>2. CASE \E id \in Ids : SendRequest(id)
  BY <1>1, <1>2 DEF SendRequest
<1>3. CASE \E f \in Files : OpenOrSave(f)
  BY <1>1, <1>3 DEF OpenOrSave
<1>4. CASE \E f \in Files, content \in Contents : WriteFile(f, content)
  BY <1>1, <1>4 DEF WriteFile
<1>5. CASE SendOther
  BY <1>1, <1>5 DEF SendOther, SendIgnored, SendExit, SendMalformed
<1>6. CASE Close
  BY <1>1, <1>6 DEF Close
<1>7. CASE Crash
  BY <1>1, <1>7 DEF Crash
<1> QED BY <1>2, <1>3, <1>4, <1>5, <1>6, <1>7 DEF Editor, SendOther, Ids

LEMMA ServerTakes ==
    ASSUME Server
    PROVE  /\ UNCHANGED <<disk, unsaid, sent, lastSaved, shown, gone>>
           /\ \/ inbox' = inbox /\ root' = root
              \/ /\ inbox # <<>> /\ inbox' = Tail(inbox) /\ server = "idle"
                 /\ \/ root' = root
                    \/ Head(inbox).kind = "request" /\ Head(inbox).id = "initialize"
<1>1. CASE HandleRequest
  BY <1>1 DEF HandleRequest, Reading, editorVars
<1>2. CASE HandleIgnored \/ HandleExit \/ HandleUnreadable \/ HandleOpenOrSave
  BY <1>2 DEF HandleIgnored, HandleExit, HandleUnreadable, HandleOpenOrSave, Reading, serverVars,
              editorVars
<1>3. CASE HandleEOF \/ ReadFile \/ FailAnalysis \/ FinishAnalysis
  BY <1>3 DEF HandleEOF, ReadFile, FailAnalysis, FinishAnalysis, editorVars
<1>4. CASE ClearFocus \/ \E f \in Files : PublishFindings(f)
  BY <1>4 DEF ClearFocus, PublishFindings, editorVars
<1> QED BY <1>1, <1>2, <1>3, <1>4 DEF Server

LEMMA QueueGrows ==
    ASSUME IInv, NEW msg \in Whole \cup {Cut}, inbox' = Append(inbox, msg)
    PROVE  Range(inbox') = Range(inbox) \cup {msg}
BY PushProperties DEF IInv, InboxInv

LEMMA QueueShrinks ==
    ASSUME IInv, inbox # <<>>, inbox' = Tail(inbox)
    PROVE  Head(inbox) \in Whole \cup {Cut} /\ Range(inbox) = {Head(inbox)} \cup Range(inbox')
BY TailProperties DEF IInv, InboxInv

LEMMA WhatIsSent ==
    /\ \A id \in Ids : Request(id) \in Whole
    /\ \A f \in Files : Notification(f) \in Whole
    /\ {Ignored, Exit, Malformed, Cut} \subseteq Whole \cup {Cut}
    /\ \A msg \in {Ignored, Exit, Malformed, Cut} : msg \notin Notes /\ msg # Begin
    /\ \A id \in Ids : Request(id) \notin Notes
    /\ \A f \in Files : Notification(f) \in Notes
    /\ \A id : Request(id) = Begin => id = "initialize"
BY DEF Whole, Request, Notification, Ignored, Exit, Malformed, Cut, Notes, Begin

LEMMA InitStart == Init => StartInv
<1> SUFFICES ASSUME Init PROVE StartInv
  OBVIOUS
<1>1. inbox = <<>> /\ DOMAIN <<>> = {}
  BY DEF Init
<1>2. DOMAIN inbox = {}
  BY <1>1
<1> QED BY <1>2 DEF StartInv, Told, BeginsFirst, Range

LEMMA NextStart == IInv /\ OrderInv /\ StartInv /\ [Next]_vars => StartInv'
<1> SUFFICES ASSUME IInv, OrderInv, StartInv, [Next]_vars PROVE StartInv'
  OBVIOUS
<1>1. inbox \in Seq(Whole \cup {Cut}) /\ sent \in Seq(Ids) /\ BeginsFirst(inbox)
  BY DEF IInv, InboxInv, OrderInv, StartInv
<1>2. ASSUME inbox' = inbox, sent' = sent PROVE StartInv'
  BY <1>2 DEF StartInv, Told
<1>3. ASSUME inbox # <<>>, inbox' = Tail(inbox), sent' = sent PROVE StartInv'
  <2>1. Range(inbox') \subseteq Range(inbox)
    BY <1>3, QueueShrinks
  <2>2. BeginsFirst(inbox')
    BY <1>1, <1>3, BeginsFirstTail
  <2> QED BY <1>3, <2>1, <2>2 DEF StartInv, Told
<1>4. ASSUME NEW msg \in Whole \cup {Cut}, inbox' = Append(inbox, msg),
             Range(sent) \subseteq Range(sent'),
             msg = Begin => Range(inbox) \cap Notes = {},
             msg \in Notes => "initialize" \in Range(sent)
      PROVE  StartInv'
  <2>1. Range(inbox') = Range(inbox) \cup {msg}
    BY <1>4, QueueGrows
  <2>2. BeginsFirst(inbox')
    BY <1>1, <1>4, BeginsFirstAppend
  <2>3. Told' => "initialize" \in Range(sent')
    BY <1>4, <2>1 DEF StartInv, Told
  <2> QED BY <2>2, <2>3 DEF StartInv
<1>5. CASE Editor
  <2>1. CASE UNCHANGED <<inbox, sent>>
    BY <1>2, <2>1
  <2>2. CASE \E id \in Ids : /\ sent' = Append(sent, id) /\ inbox' = Append(inbox, Request(id))
                             /\ id \notin Range(sent)
    <3>1. PICK id \in Ids : /\ sent' = Append(sent, id) /\ inbox' = Append(inbox, Request(id))
                            /\ id \notin Range(sent)
      BY <2>2
    <3>2. Range(sent') = Range(sent) \cup {id}
      BY <1>1, <3>1, PushProperties
    <3>3. Request(id) = Begin => Range(inbox) \cap Notes = {}
      BY <3>1, WhatIsSent DEF StartInv, Told
    <3> QED BY <1>4, <3>1, <3>2, <3>3, WhatIsSent
  <2>3. CASE \E f \in Files : /\ inbox' = Append(inbox, Notification(f))
                              /\ "initialize" \in Range(sent) /\ sent' = sent
    BY <1>4, <2>3, WhatIsSent, NoteForms
  <2>4. CASE \E msg \in {Ignored, Exit, Malformed, Cut} : inbox' = Append(inbox, msg) /\ sent' = sent
    BY <1>4, <2>4, WhatIsSent
  <2> QED BY <1>5, <2>1, <2>2, <2>3, <2>4, EditorSends
<1>6. CASE Server
  BY <1>2, <1>3, <1>6, ServerTakes
<1>7. CASE Receive
  BY <1>2, <1>7 DEF Receive
<1>8. CASE UNCHANGED vars
  BY <1>2, <1>8 DEF vars, editorVars
<1> QED BY <1>5, <1>6, <1>7, <1>8 DEF Next

(* A server that has no root gets none any more. *)
LEMMA DeafStays == ASSUME IInv, OrderInv, StartInv, [Next]_vars, Deaf PROVE Deaf'
<1>1. sent \in Seq(Ids) /\ ~root /\ "initialize" \in Range(sent) /\ Begin \notin Range(inbox)
  BY DEF OrderInv, Deaf
<1>2. ASSUME UNCHANGED <<root, inbox, sent>> PROVE Deaf'
  BY <1>1, <1>2 DEF Deaf
<1>3. ASSUME NEW msg \in Whole \cup {Cut}, msg # Begin, inbox' = Append(inbox, msg),
             UNCHANGED <<root, sent>>
      PROVE  Deaf'
  BY <1>1, <1>3, QueueGrows DEF Deaf
<1>4. CASE Editor
  <2>1. CASE UNCHANGED <<root, inbox, sent>>
    BY <1>2, <2>1
  <2>2. CASE \E id \in Ids : /\ sent' = Append(sent, id) /\ inbox' = Append(inbox, Request(id))
                             /\ id \notin Range(sent) /\ root' = root
    <3>1. PICK id \in Ids : /\ sent' = Append(sent, id) /\ inbox' = Append(inbox, Request(id))
                            /\ id \notin Range(sent) /\ root' = root
      BY <2>2
    <3>2. Range(sent') = Range(sent) \cup {id}
      BY <1>1, <3>1, PushProperties
    <3>3. Request(id) \in Whole \cup {Cut} /\ Request(id) # Begin
      BY <1>1, <3>1, WhatIsSent
    <3>4. Range(inbox') = Range(inbox) \cup {Request(id)}
      BY <3>1, <3>3, QueueGrows
    <3> QED BY <1>1, <3>1, <3>2, <3>3, <3>4 DEF Deaf
  <2>3. CASE \E f \in Files : inbox' = Append(inbox, Notification(f)) /\ UNCHANGED <<root, sent>>
    BY <1>3, <2>3, WhatIsSent, NoteForms
  <2>4. CASE \E msg \in {Ignored, Exit, Malformed, Cut} :
                inbox' = Append(inbox, msg) /\ UNCHANGED <<root, sent>>
    BY <1>3, <2>4, WhatIsSent
  <2> QED BY <1>4, <2>1, <2>2, <2>3, <2>4, EditorSends
<1>5. CASE Server
  <2>1. CASE inbox' = inbox /\ root' = root
    BY <1>2, <1>5, <2>1, ServerTakes
  <2>2. CASE inbox # <<>> /\ inbox' = Tail(inbox)
    <3>1. Head(inbox) \in Whole \cup {Cut} /\ Range(inbox) = {Head(inbox)} \cup Range(inbox')
      BY <2>2, QueueShrinks
    <3>2. Head(inbox) # Begin
      BY <1>1, <3>1
    <3>3. ~(Head(inbox).kind = "request" /\ Head(inbox).id = "initialize")
      BY <3>1, <3>2, NoteForms
    <3>4. root' = root /\ sent' = sent
      BY <1>5, <3>3, ServerTakes
    <3> QED BY <1>1, <3>1, <3>4 DEF Deaf
  <2> QED BY <1>5, <2>1, <2>2, ServerTakes
<1>6. CASE Receive
  BY <1>2, <1>6 DEF Receive, serverVars
<1>7. CASE UNCHANGED vars
  BY <1>2, <1>7 DEF vars, serverVars, editorVars
<1> QED BY <1>4, <1>5, <1>6, <1>7 DEF Next

(* A file that may be stale stays accounted for. *)
LEMMA NextFresh == IInv /\ OrderInv /\ StartInv /\ FreshInv /\ [Next]_vars => FreshInv'
<1> SUFFICES ASSUME IInv, OrderInv, StartInv, FreshInv, [Next]_vars PROVE FreshInv'
  OBVIOUS
<1> USE DEF FreshInv
<1>1. Deaf => Deaf'
  BY DeafStays
<1>2. disk \in [Files -> Contents] /\ seen \in [Files -> Contents] /\ unread \subseteq Files
  BY DEF IInv, TypeOK
<1>3. ASSUME Told => Told', UNCHANGED <<seen, disk, unsaid>>,
             \A f \in Files : server = "reading" /\ f \in unread =>
                                  \/ server' = "reading" /\ f \in unread'
                                  \/ server' # "reading" /\ failed',
             server # "reading" /\ failed =>
                 \/ server' # "reading" /\ failed'
                 \/ server' = "reading" /\ unread' = Files
      PROVE  FreshInv'
  BY <1>1, <1>3
<1>4. CASE Editor
  <2>1. UNCHANGED <<server, seen, unread, failed>>
    BY <1>4, EditorSends
  <2>2. CASE UNCHANGED <<inbox, disk, unsaid>>
    BY <1>3, <2>1, <2>2 DEF Told
  <2>3. CASE UNCHANGED inbox /\ \E f \in Files, content \in Contents :
                                    disk' = [disk EXCEPT ![f] = content] /\ unsaid' = unsaid \cup {f}
    <3>1. Told' <=> Told
      BY <2>3 DEF Told
    <3>2. PICK f \in Files, content \in Contents :
              disk' = [disk EXCEPT ![f] = content] /\ unsaid' = unsaid \cup {f}
      BY <2>3
    <3>3. \A h \in Files : h # f => disk'[h] = disk[h]
      BY <1>2, <3>2
    <3> QED BY <1>1, <2>1, <3>1, <3>2, <3>3
  <2>4. CASE \E f \in Files : inbox' = Append(inbox, Notification(f))
    <3>1. Told'
      BY <2>4, WhatIsSent, QueueGrows DEF Told
    <3> QED BY <3>1
  <2>5. CASE UNCHANGED <<disk, unsaid>>
             /\ \E msg \in Whole \cup {Cut} : inbox' = Append(inbox, msg)
    <3>1. Told => Told'
      BY <2>5, QueueGrows DEF Told
    <3> QED BY <1>3, <2>1, <2>5, <3>1
  <2> QED BY <1>4, <2>2, <2>3, <2>4, <2>5, EditorSends, WhatIsSent
<1>5. CASE HandleOpenOrSave
  <2>1. /\ inbox # <<>> /\ inbox' = Tail(inbox) /\ Head(inbox).kind = "didOpenOrSave"
        /\ server = "idle" /\ UNCHANGED <<disk, root, unsaid, sent, seen, failed>>
    BY <1>5 DEF HandleOpenOrSave, Reading, editorVars
  <2>2. CASE root
    BY <1>5, <2>1, <2>2 DEF HandleOpenOrSave
  <2>3. CASE ~root
    <3>1. Head(inbox) \in Range(inbox) \cap Notes
      BY <2>1, QueueShrinks, NoteForms
    <3>2. "initialize" \in Range(sent)
      BY <3>1 DEF StartInv, Told
    <3>3. Begin \notin Range(Tail(inbox))
      BY <2>1, <3>1, BeginsFirstTail DEF IInv, InboxInv, StartInv
    <3>4. Deaf'
      BY <2>1, <2>3, <3>2, <3>3 DEF Deaf
    <3> QED BY <3>4
  <2> QED BY <2>2, <2>3
<1>6. CASE HandleRequest \/ HandleIgnored \/ HandleExit \/ HandleUnreadable
  <2>1. /\ inbox # <<>> /\ inbox' = Tail(inbox) /\ Head(inbox).kind # "didOpenOrSave"
        /\ server = "idle" /\ server' \in {"idle", "stopped"}
        /\ UNCHANGED <<disk, unsaid, seen, unread, failed>>
    BY <1>6 DEF HandleRequest, HandleIgnored, HandleExit, HandleUnreadable, Reading, Send, serverVars,
                editorVars
  <2>2. Head(inbox) \notin Notes /\ Range(inbox) = {Head(inbox)} \cup Range(inbox')
    BY <2>1, QueueShrinks, NoteForms
  <2>3. Told => Told'
    BY <2>2 DEF Told
  <2> QED BY <1>3, <2>1, <2>3
<1>7. CASE ReadFile
  <2>1. PICK f \in unread : seen' = [seen EXCEPT ![f] = disk[f]] /\ unread' = unread \ {f}
    BY <1>7 DEF ReadFile
  <2>2. /\ server = "reading" /\ UNCHANGED <<disk, inbox, server, unsaid, failed>>
        /\ (Told' <=> Told)
    BY <1>7 DEF ReadFile, Told, editorVars
  <2>3. f \in Files /\ seen'[f] = disk[f] /\ \A h \in Files : h # f => seen'[h] = seen[h]
    BY <1>2, <2>1
  <2> QED BY <1>1, <2>1, <2>2, <2>3
<1>8. CASE FailAnalysis
  <2>1. /\ server = "reading" /\ server' = "idle" /\ failed'
        /\ UNCHANGED <<disk, seen, unsaid>> /\ (Told' <=> Told)
    BY <1>8 DEF FailAnalysis, Told, editorVars
  <2> QED BY <1>3, <2>1
<1>9. CASE FinishAnalysis
  <2>1. /\ server = "reading" /\ unread = {}
        /\ UNCHANGED <<disk, seen, unsaid>> /\ (Told' <=> Told)
    BY <1>9 DEF FinishAnalysis, Told, editorVars
  <2> QED BY <1>3, <2>1
<1>10. CASE HandleEOF \/ ClearFocus \/ (\E f \in Files : PublishFindings(f)) \/ Receive
            \/ UNCHANGED vars
  <2>1. /\ UNCHANGED <<disk, seen, unsaid, unread, failed>> /\ (Told' <=> Told)
        /\ \/ server' = server
           \/ server \in {"idle", "publishing"} /\ server' \in {"idle", "publishing", "stopped"}
    BY <1>10 DEF HandleEOF, ClearFocus, PublishFindings, Receive, Send, Told, vars, serverVars,
                 editorVars
  <2> QED BY <1>3, <2>1
<1> QED BY <1>4, <1>5, <1>6, <1>7, <1>8, <1>9, <1>10 DEF Next, Server

(* The file in focus, once nothing is left to handle, is the last saved. *)
LEMMA NextLast == IInv /\ OrderInv /\ StartInv /\ LastInv /\ [Next]_vars => LastInv'
<1> SUFFICES ASSUME IInv, OrderInv, StartInv, LastInv, [Next]_vars, ~Deaf' PROVE LastInv'
  BY DEF LastInv
<1>1. Ends(inbox, Notes, Notification(focus), Notification(lastSaved))
  BY DeafStays DEF LastInv
<1>2. inbox \in Seq(Whole \cup {Cut})
  BY DEF IInv, InboxInv
<1>3. ASSUME UNCHANGED <<inbox, focus, lastSaved>> PROVE LastInv'
  BY <1>1, <1>3 DEF LastInv
<1>4. ASSUME NEW msg \in Whole \cup {Cut}, inbox' = Append(inbox, msg), msg \notin Notes,
             UNCHANGED <<focus, lastSaved>>
      PROVE  LastInv'
  <2> DEFINE first == Notification(focus)
             last == Notification(lastSaved)
  <2>1. Ends(inbox, Notes, first, last)
    BY <1>1
  <2> HIDE DEF first, last
  <2>2. Ends(Append(inbox, msg), Notes, first, last)
    BY <1>2, <1>4, <2>1, EndsAppend
  <2> QED BY <1>4, <2>2 DEF LastInv, first, last
<1>5. ASSUME inbox # <<>>, inbox' = Tail(inbox), lastSaved' = lastSaved,
             Notification(focus') = IF Head(inbox) \in Notes THEN Head(inbox)
                                    ELSE Notification(focus)
      PROVE  LastInv'
  <2> DEFINE first == Notification(focus)
             next == Notification(focus')
             last == Notification(lastSaved)
  <2>1. Ends(inbox, Notes, first, last) /\ next = IF Head(inbox) \in Notes THEN Head(inbox) ELSE first
    BY <1>1, <1>5
  <2> HIDE DEF first, last, next
  <2>2. Ends(Tail(inbox), Notes, next, last)
    BY <1>2, <1>5, <2>1, EndsTail
  <2> QED BY <1>5, <2>2 DEF LastInv, last, next
<1>6. CASE Editor
  <2>1. focus' = focus
    BY <1>6, EditorSends
  <2>2. CASE UNCHANGED <<inbox, lastSaved>>
    BY <1>3, <2>1, <2>2
  <2>3. CASE \E f \in Files : inbox' = Append(inbox, Notification(f)) /\ lastSaved' = f
    <3>1. PICK f \in Files : inbox' = Append(inbox, Notification(f)) /\ lastSaved' = f
      BY <2>3
    <3> DEFINE first == Notification(focus)
               last == Notification(f)
    <3>2. last \in Notes /\ last \in Whole \cup {Cut}
      BY WhatIsSent
    <3> HIDE DEF first, last
    <3>3. Ends(Append(inbox, last), Notes, first, last)
      BY <1>2, <3>2, EndsAppend
    <3> QED BY <2>1, <3>1, <3>3 DEF LastInv, first, last
  <2>4. CASE \E id \in Ids : inbox' = Append(inbox, Request(id)) /\ lastSaved' = lastSaved
    BY <1>4, <2>1, <2>4, WhatIsSent
  <2>5. CASE \E msg \in {Ignored, Exit, Malformed, Cut} : inbox' = Append(inbox, msg) /\ lastSaved' = lastSaved
    BY <1>4, <2>1, <2>5, WhatIsSent
  <2> QED BY <1>6, <2>2, <2>3, <2>4, <2>5, EditorSends
<1>7. CASE HandleOpenOrSave
  <2>1. /\ inbox # <<>> /\ inbox' = Tail(inbox) /\ Head(inbox).kind = "didOpenOrSave"
        /\ UNCHANGED <<root, sent, lastSaved>>
    BY <1>7 DEF HandleOpenOrSave, Reading, editorVars
  <2>2. Head(inbox) \in Notes /\ Head(inbox) \in Range(inbox)
    BY <2>1, QueueShrinks, NoteForms
  <2>3. root
    <3>1. "initialize" \in Range(sent)
      BY <2>2 DEF StartInv, Told
    <3>2. Begin \notin Range(Tail(inbox))
      BY <1>2, <2>1, <2>2, BeginsFirstTail DEF StartInv
    <3> QED BY <2>1, <3>1, <3>2 DEF Deaf
  <2>4. focus' = Head(inbox).file
    BY <1>7, <2>3 DEF HandleOpenOrSave
  <2>5. Notification(focus') = Head(inbox)
    BY <2>1, <2>2, <2>4, QueueShrinks, NoteForms
  <2> QED BY <1>5, <2>1, <2>2, <2>5
<1>8. CASE HandleRequest \/ HandleIgnored \/ HandleExit \/ HandleUnreadable
  <2>1. /\ inbox # <<>> /\ inbox' = Tail(inbox) /\ Head(inbox).kind # "didOpenOrSave"
        /\ UNCHANGED <<focus, lastSaved>>
    BY <1>8 DEF HandleRequest, HandleIgnored, HandleExit, HandleUnreadable, Reading, serverVars, editorVars
  <2>2. Head(inbox) \notin Notes
    BY <2>1, QueueShrinks, NoteForms
  <2> QED BY <1>5, <2>1, <2>2
<1>9. CASE HandleEOF \/ ReadFile \/ FailAnalysis \/ FinishAnalysis \/ ClearFocus
           \/ (\E f \in Files : PublishFindings(f)) \/ Receive \/ UNCHANGED vars
  BY <1>3, <1>9 DEF HandleEOF, ReadFile, FailAnalysis, FinishAnalysis, ClearFocus, PublishFindings,
                    Receive, vars, serverVars, editorVars
<1> QED BY <1>6, <1>7, <1>8, <1>9 DEF Next, Server

-----------------------------------------------------------------------------
(* What the editor will display of a file once it has read all that was    *)
(* written: the findings published last, or those it displays.             *)
Pubs(f) == [kind : {"publish"}, file : {f}, findings : Reports]

WillShow(written, screen, f, found) ==
    Ends(written, Pubs(f), Publish(f, screen[f]), Publish(f, found))

Groups(files) == FindingsToDiagnostics(Findings(files))

(* While an analysis publishes, the files it is done with show what it     *)
(* found; afterwards so do all, and the file in focus shows no more, or    *)
(* nothing when the editor spells it otherwise.                            *)
ShowInv ==
    /\ shown \in [Files -> Reports]
    /\ ~gone /\ ~failed /\ focus # NoFile =>
           /\ server = "publishing" =>
                  \A f \in Groups(seen) \ unpublished :
                      WillShow(outbox, shown, f, Findings(seen)[f])
           /\ server = "idle" =>
                  /\ \A f \in Groups(seen) \ (Respelled \cap {focus}) :
                         WillShow(outbox, shown, f, Findings(seen)[f])
                  /\ WillShow(outbox, shown, focus,
                              IF focus \in Respelled THEN {} ELSE Findings(seen)[focus])

LEMMA PublishForms ==
    /\ \A f, found : Publish(f, found).kind = "publish"
    /\ \A f, found, h : Publish(f, found) \in Pubs(h) => f = h
    /\ \A msg \in Outgoing : /\ msg.kind = "reply" => \A f : msg \notin Pubs(f)
                             /\ msg.kind # "reply" =>
                                    /\ msg.file \in Files /\ msg.findings \in Reports
                                    /\ msg \in Pubs(msg.file)
    /\ \A f : \A msg \in Pubs(f) : msg = Publish(f, msg.findings) /\ msg.kind # "reply"
                                   /\ msg.file = f
    /\ \A f \in Files, found \in Reports : Publish(f, found) \in Outgoing \cap Pubs(f)
    /\ \A id \in Ids : Reply(id) \in Outgoing /\ \A f : Reply(id) \notin Pubs(f)
    /\ \A f, one, two : Publish(f, one) = Publish(f, two) => one = two
<1>1. \A f, found, h : Publish(f, found) \in Pubs(h) => f = h
  BY DEF Publish, Pubs
<1>2. \A msg \in Outgoing : /\ msg.kind = "reply" => \A f : msg \notin Pubs(f)
                            /\ msg.kind # "reply" => /\ msg.file \in Files /\ msg.findings \in Reports
                                                     /\ msg \in Pubs(msg.file)
  BY DEF Outgoing, Pubs
<1>3. \A f : \A msg \in Pubs(f) : msg = Publish(f, msg.findings) /\ msg.kind # "reply"
                                  /\ msg.file = f
  BY DEF Pubs, Publish
<1>4. \A f \in Files, found \in Reports : Publish(f, found) \in Outgoing \cap Pubs(f)
  BY DEF Outgoing, Pubs, Publish
<1>5. \A id \in Ids : Reply(id) \in Outgoing /\ \A f : Reply(id) \notin Pubs(f)
  BY DEF Outgoing, Pubs, Reply
<1>6. \A f, one, two : Publish(f, one) = Publish(f, two) => one = two
  BY DEF Publish
<1> QED BY <1>1, <1>2, <1>3, <1>4, <1>5, <1>6 DEF Publish

(* Writing on and reading off. *)
LEMMA ShowMore ==
    ASSUME NEW q \in Seq(Outgoing), NEW msg \in Outgoing, NEW screen, NEW f, NEW found,
           IF msg \in Pubs(f) THEN msg = Publish(f, found) ELSE WillShow(q, screen, f, found)
    PROVE  WillShow(q \o <<msg>>, screen, f, found)
<1> DEFINE first == Publish(f, screen[f])
           last == Publish(f, found)
           K == Pubs(f)
<1>1. IF msg \in K THEN msg = last ELSE Ends(q, K, first, last)
  BY DEF WillShow
<1>2. q \o <<msg>> = Append(q, msg)
  BY AppendIsConcat
<1> HIDE DEF first, last, K
<1>3. Ends(Append(q, msg), K, first, last)
  BY <1>1, EndsAppend
<1> QED BY <1>2, <1>3 DEF WillShow, first, last, K

LEMMA ShowRead ==
    ASSUME OrderInv, ShowInv, Receive, NEW f \in Files, NEW found,
           WillShow(outbox, shown, f, found)
    PROVE  WillShow(outbox', shown', f, found)
<1> DEFINE first == Publish(f, shown[f])
           next == Publish(f, shown'[f])
           last == Publish(f, found)
           msg == Head(outbox)
           K == Pubs(f)
<1>1. /\ outbox \in Seq(Outgoing) /\ outbox # <<>> /\ outbox' = Tail(outbox)
      /\ shown \in [Files -> Reports]
      /\ msg.kind = "reply" => shown' = shown
      /\ msg.kind # "reply" => shown' = [shown EXCEPT ![msg.file] = msg.findings]
  BY DEF OrderInv, ShowInv, Receive
<1>2. msg \in Outgoing
  BY <1>1, HeadTailProperties
<1> HIDE DEF msg
<1>3. next = IF msg \in K THEN msg ELSE first
  <2>1. CASE msg.kind = "reply"
    BY <1>1, <1>2, <2>1, PublishForms
  <2>2. CASE msg.kind # "reply" /\ msg.file = f
    <3>1. msg \in K /\ shown'[f] = msg.findings
      BY <1>1, <1>2, <2>2, PublishForms
    <3> QED BY <3>1, PublishForms
  <2>3. CASE msg.kind # "reply" /\ msg.file # f
    <3>1. msg \notin K /\ shown'[f] = shown[f]
      BY <1>1, <1>2, <2>3, PublishForms
    <3> QED BY <3>1
  <2> QED BY <2>1, <2>2, <2>3
<1>4. Ends(outbox, K, first, last)
  BY DEF WillShow
<1> HIDE DEF first, next, last, K
<1>5. Ends(Tail(outbox), K, next, last)
  BY <1>1, <1>3, <1>4, EndsTail DEF msg
<1> QED BY <1>1, <1>5 DEF WillShow, next, last, K

LEMMA InitShow == Init => ShowInv
<1> SUFFICES ASSUME Init PROVE ShowInv
  OBVIOUS
<1>1. focus = NoFile /\ shown = [f \in Files |-> {}]
  BY DEF Init
<1>2. {} \in Reports
  BY DEF Reports
<1> QED BY <1>1, <1>2 DEF ShowInv

LEMMA NextShow == IInv /\ OrderInv /\ ShowInv /\ [Next]_vars => ShowInv'
<1> SUFFICES ASSUME IInv, OrderInv, ShowInv, [Next]_vars PROVE ShowInv'
  OBVIOUS
<1> DEFINE done  == \A f \in Groups(seen) \ unpublished :
                        WillShow(outbox, shown, f, Findings(seen)[f])
           others == \A f \in Groups(seen) \ (Respelled \cap {focus}) :
                        WillShow(outbox, shown, f, Findings(seen)[f])
           own   == WillShow(outbox, shown, focus,
                             IF focus \in Respelled THEN {} ELSE Findings(seen)[focus])
           at    == ~gone /\ ~failed /\ focus # NoFile
<1>1. /\ shown \in [Files -> Reports] /\ outbox \in Seq(Outgoing)
      /\ at => (server = "publishing" => done) /\ (server = "idle" => others /\ own)
      /\ {focus} \subseteq Files \cup {NoFile} /\ seen \in [Files -> Contents]
      /\ Groups(seen) \subseteq Files
  BY DEF IInv, TypeOK, ShowInv, OrderInv, Groups, FindingsToDiagnostics
<1>2. ASSUME shown' \in [Files -> Reports],
             at' => (server' = "publishing" => done') /\ (server' = "idle" => others' /\ own')
      PROVE  ShowInv'
  BY <1>2 DEF ShowInv
<1>3. ASSUME UNCHANGED <<outbox, shown, seen, focus, unpublished>>, at' => at,
             server' \in {server, "stopped"}
      PROVE  ShowInv'
  <2>1. (done' <=> done) /\ (others' <=> others) /\ (own' <=> own)
    BY <1>3
  <2> HIDE DEF done, others, own, at
  <2> QED BY <1>1, <1>2, <1>3, <2>1
<1>4. ASSUME UNCHANGED shown, at' => server' \notin {"publishing", "idle"} PROVE ShowInv'
  <2> HIDE DEF done, others, own, at
  <2> QED BY <1>1, <1>2, <1>4
<1>5. CASE Editor
  <2>1. CASE Crash
    BY <1>4, <2>1 DEF Crash
  <2>2. CASE ~Crash
    <3>1. UNCHANGED <<outbox, shown, seen, focus, unpublished, failed, server, gone>>
      BY <1>5, <2>2 DEF Editor, SendRequest, OpenOrSave, WriteFile, SendIgnored, SendExit,
                        SendMalformed, Close, serverVars
    <3> QED BY <1>3, <3>1
  <2> QED BY <2>1, <2>2
<1>6. CASE Receive
  <2>1. UNCHANGED <<seen, focus, unpublished, failed, server, gone>>
    BY <1>6 DEF Receive, serverVars
  <2>2. shown' \in [Files -> Reports]
    <3>1. Head(outbox) \in Outgoing
      BY <1>1, <1>6, HeadTailProperties DEF Receive
    <3> QED BY <1>1, <1>6, <3>1, PublishForms DEF Receive
  <2>3. \A f \in Files : \A found :
            WillShow(outbox, shown, f, found) => WillShow(outbox', shown', f, found)
    BY <1>6, ShowRead
  <2>4. done => done'
    BY <1>1, <2>1, <2>3
  <2>5. others => others'
    BY <1>1, <2>1, <2>3
  <2>6. at /\ own => own'
    BY <1>1, <2>1, <2>3
  <2>7. at' <=> at
    BY <2>1
  <2> HIDE DEF done, others, own, at
  <2> QED BY <1>1, <1>2, <2>1, <2>2, <2>4, <2>5, <2>6, <2>7
<1>7. CASE HandleRequest
  <2>1. /\ UNCHANGED <<shown, seen, focus, unpublished, failed, gone>>
        /\ inbox # <<>> /\ Head(inbox).kind = "request" /\ server = "idle"
        /\ Send(<<Reply(Head(inbox).id)>>, "idle")
    BY <1>7 DEF HandleRequest, Reading, editorVars
  <2>2. CASE gone
    BY <1>4, <2>1, <2>2
  <2>3. CASE ~gone
    <3> DEFINE msg == Reply(Head(inbox).id)
    <3>1. outbox' = outbox \o <<msg>> /\ server' = "idle"
      BY <2>1, <2>3 DEF Send
    <3>2. Head(inbox).id \in Ids
      BY <2>1, HeadTailProperties, NoteForms DEF IInv, InboxInv
    <3>3. msg \in Outgoing /\ \A f : msg \notin Pubs(f)
      BY <3>2, PublishForms
    <3> HIDE DEF msg
    <3>4. \A f, found : WillShow(outbox, shown, f, found) => WillShow(outbox', shown', f, found)
      BY <1>1, <2>1, <3>1, <3>3, ShowMore
    <3>5. others => others'
      BY <2>1, <3>4
    <3>6. own => own'
      BY <2>1, <3>4
    <3>7. at' <=> at
      BY <2>1
    <3> HIDE DEF done, others, own, at
    <3> QED BY <1>1, <1>2, <2>1, <3>1, <3>5, <3>6, <3>7
  <2> QED BY <2>2, <2>3
<1>8. CASE HandleIgnored \/ HandleExit \/ HandleEOF \/ HandleUnreadable
  <2>1. /\ UNCHANGED <<outbox, shown, seen, focus, unpublished, failed, gone>>
        /\ server = "idle" /\ server' \in {"idle", "stopped"}
    BY <1>8 DEF HandleIgnored, HandleExit, HandleEOF, HandleUnreadable, Reading, serverVars, editorVars
  <2> QED BY <1>3, <2>1
<1>9. CASE HandleOpenOrSave
  <2>1. CASE root
    BY <1>4, <1>9, <2>1 DEF HandleOpenOrSave, editorVars
  <2>2. CASE ~root
    BY <1>3, <1>9, <2>2 DEF HandleOpenOrSave, editorVars
  <2> QED BY <2>1, <2>2
<1>10. CASE ReadFile \/ FailAnalysis
  BY <1>4, <1>10 DEF ReadFile, FailAnalysis, editorVars
<1>11. CASE FinishAnalysis
  <2>1. /\ server' = "publishing" /\ UNCHANGED <<shown, seen>>
        /\ unpublished' = Groups(seen)
    BY <1>11 DEF FinishAnalysis, Groups, editorVars
  <2>2. done'
    BY <2>1
  <2> HIDE DEF done, others, own, at
  <2> QED BY <1>1, <1>2, <2>1, <2>2
<1>12. CASE \E f \in Files : PublishFindings(f)
  <2>1. PICK f \in Files : PublishFindings(f)
    BY <1>12
  <2>2. /\ UNCHANGED <<shown, seen, focus, failed, gone>>
        /\ server = "publishing" /\ unpublished' = unpublished \ {f}
        /\ Send(<<Publish(f, Findings(seen)[f])>>, "publishing")
    BY <2>1 DEF PublishFindings, editorVars
  <2>3. CASE gone
    BY <1>4, <2>2, <2>3
  <2>4. CASE ~gone
    <3> DEFINE msg == Publish(f, Findings(seen)[f])
    <3>1. outbox' = outbox \o <<msg>> /\ server' = "publishing"
      BY <2>2, <2>4 DEF Send
    <3>2. Findings(seen)[f] \in Reports
      BY <1>1 DEF Reports
    <3>3. msg \in Outgoing /\ msg \in Pubs(f) /\ \A h : h # f => msg \notin Pubs(h)
      BY <3>2, PublishForms
    <3>4. WillShow(outbox \o <<msg>>, shown, f, Findings(seen)[f])
      <4> DEFINE found == Findings(seen)[f]
      <4>1. IF msg \in Pubs(f) THEN msg = Publish(f, found) ELSE WillShow(outbox, shown, f, found)
        BY <3>3
      <4> HIDE DEF msg, found
      <4>2. WillShow(outbox \o <<msg>>, shown, f, found)
        BY <1>1, <3>3, <4>1, ShowMore
      <4> QED BY <4>2 DEF found
    <3> HIDE DEF msg
    <3>5. \A h, found : h # f /\ WillShow(outbox, shown, h, found)
                            => WillShow(outbox', shown', h, found)
      BY <1>1, <2>2, <3>1, <3>3, ShowMore
    <3>6. done => done'
      BY <2>2, <3>1, <3>4, <3>5
    <3>7. at' <=> at
      BY <2>2
    <3> HIDE DEF done, others, own, at
    <3> QED BY <1>1, <1>2, <2>2, <3>1, <3>6, <3>7
  <2> QED BY <2>3, <2>4
<1>13. CASE ClearFocus
  <2> DEFINE msg == Publish(focus, {})
             group == Groups(seen) \cap ({focus} \ Respelled)
             messages == IF group = {} THEN <<msg>> ELSE <<>>
  <2>1. /\ UNCHANGED <<shown, seen, focus, unpublished, failed, gone>>
        /\ server = "publishing" /\ unpublished = {} /\ Send(messages, "idle")
    BY <1>13 DEF ClearFocus, GroupOf, Groups, editorVars
  <2>2. CASE gone
    BY <1>4, <2>1, <2>2
  <2>3. CASE ~gone /\ at
    <3>1. outbox' = outbox \o messages /\ server' = "idle" /\ focus \in Files
      BY <1>1, <2>1, <2>3 DEF Send
    <3>2. \A f \in Groups(seen) : WillShow(outbox, shown, f, Findings(seen)[f])
      BY <1>1, <2>1, <2>3
    <3>3. CASE group = {}
      <4>1. outbox' = outbox \o <<msg>>
        BY <3>1, <3>3
      <4>2. msg \in Outgoing /\ msg \in Pubs(focus) /\ \A h : h # focus => msg \notin Pubs(h)
        BY <3>1, PublishForms DEF Reports
      <4>3. WillShow(outbox', shown', focus, {})
        <5>1. IF msg \in Pubs(focus) THEN msg = Publish(focus, {})
              ELSE WillShow(outbox, shown, focus, {})
          BY <4>2
        <5> HIDE DEF msg
        <5>2. WillShow(outbox \o <<msg>>, shown, focus, {})
          BY <1>1, <4>2, <5>1, ShowMore
        <5> QED BY <2>1, <4>1, <5>2
      <4>4. \A h, found : h # focus /\ WillShow(outbox, shown, h, found)
                              => WillShow(outbox', shown', h, found)
        <5> HIDE DEF msg
        <5> QED BY <1>1, <2>1, <4>1, <4>2, ShowMore
      <4>5. focus \notin Respelled => focus \notin Groups(seen) /\ Findings(seen)[focus] = {}
        BY <3>1, <3>3 DEF Groups, FindingsToDiagnostics
      <4>6. others'
        BY <2>1, <3>2, <4>4, <4>5
      <4>7. own'
        BY <2>1, <4>3, <4>5
      <4> HIDE DEF done, others, own, at
      <4> QED BY <1>1, <1>2, <2>1, <3>1, <4>6, <4>7
    <3>4. CASE group # {}
      <4>1. outbox' = outbox
        BY <1>1, <3>1, <3>4, ConcatEmptySeq
      <4>2. focus \in Groups(seen) /\ focus \notin Respelled
        BY <3>4
      <4>3. others'
        BY <2>1, <3>2, <4>1
      <4>4. own'
        BY <2>1, <3>2, <4>1, <4>2
      <4> HIDE DEF done, others, own, at
      <4> QED BY <1>1, <1>2, <2>1, <3>1, <4>3, <4>4
    <3> QED BY <3>3, <3>4
  <2>4. CASE ~at
    BY <1>4, <2>1, <2>4
  <2> QED BY <2>2, <2>3, <2>4
<1>14. CASE UNCHANGED vars
  BY <1>3, <1>14 DEF vars, serverVars, editorVars
<1> QED BY <1>5, <1>6, <1>7, <1>8, <1>9, <1>10, <1>11, <1>12, <1>13, <1>14 DEF Next, Server

-----------------------------------------------------------------------------
(* Once nothing is left to say, to handle or to read.                      *)
NewsInv == StartInv /\ FreshInv /\ LastInv /\ ShowInv

LEMMA InitNews == Init => NewsInv
<1> SUFFICES ASSUME Init PROVE NewsInv
  OBVIOUS
<1>1. inbox = <<>> /\ DOMAIN <<>> = {} /\ focus = lastSaved /\ seen = disk
  BY DEF Init
<1>2. DOMAIN inbox = {}
  BY <1>1
<1>3. LastInv
  BY <1>1, <1>2 DEF LastInv, Ends
<1> QED BY <1>1, <1>3, InitStart, InitShow DEF NewsInv, FreshInv

LEMMA NextNews == IInv /\ OrderInv /\ NewsInv /\ [Next]_vars => NewsInv'
BY NextStart, NextFresh, NextLast, NextShow DEF NewsInv

LEMMA SettledMeansShown ==
    ASSUME IInv, NewsInv, Settled
    PROVE  /\ seen = disk /\ focus = lastSaved /\ lastSaved \in Files
           /\ \A f \in Files \ (Respelled \cap {lastSaved}) :
                  Findings(seen)[f] # {} => shown[f] = Findings(seen)[f]
           /\ shown[lastSaved] = IF lastSaved \in Respelled THEN {} ELSE Findings(seen)[lastSaved]
<1>1. /\ server = "idle" /\ inbox = <<>> /\ outbox = <<>> /\ root /\ ~failed /\ ~gone
      /\ unsaid = {} /\ lastSaved # NoFile
  BY DEF Settled
<1>2. DOMAIN inbox = {}
  <2>1. DOMAIN <<>> = {}
    OBVIOUS
  <2> QED BY <1>1, <2>1
<1>3. ~Told /\ ~Deaf
  BY <1>1, <1>2 DEF Told, Deaf, Range
<1>4. /\ disk \in [Files -> Contents] /\ seen \in [Files -> Contents]
      /\ lastSaved \in Files
  BY <1>1 DEF IInv, TypeOK
<1>5. seen = disk
  <2>1. \A f \in Files : seen[f] = disk[f]
    BY <1>1, <1>3 DEF NewsInv, FreshInv
  <2> QED BY <1>4, <2>1
<1>6. focus = lastSaved
  <2> DEFINE first == Notification(focus)
             last == Notification(lastSaved)
  <2>1. Ends(<<>>, Notes, first, last)
    BY <1>1, <1>3 DEF NewsInv, LastInv
  <2>2. first = last
    <3> HIDE DEF first, last
    <3> QED BY <2>1, EndsEmpty
  <2> QED BY <2>2 DEF Notification
<1>7. \A f, found : WillShow(outbox, shown, f, found) => shown[f] = found
  <2> TAKE f, found
  <2> HAVE WillShow(outbox, shown, f, found)
  <2> DEFINE first == Publish(f, shown[f])
             last == Publish(f, found)
             K == Pubs(f)
  <2>1. Ends(<<>>, K, first, last)
    BY <1>1 DEF WillShow
  <2>2. first = last
    <3> HIDE DEF first, last, K
    <3> QED BY <2>1, EndsEmpty
  <2> QED BY <2>2, PublishForms
<1>8. /\ \A f \in Groups(seen) \ (Respelled \cap {focus}) : shown[f] = Findings(seen)[f]
      /\ shown[focus] = IF focus \in Respelled THEN {} ELSE Findings(seen)[focus]
  BY <1>1, <1>6, <1>7 DEF NewsInv, ShowInv
<1>9. \A f \in Files : Findings(seen)[f] # {} => f \in Groups(seen)
  BY DEF Groups, FindingsToDiagnostics
<1> QED BY <1>4, <1>5, <1>6, <1>8, <1>9

(* However writes, saves, reads and publications interleave: once the      *)
(* editor has told of every write and everything is handled and read, each *)
(* file with findings shows those of the files as they are, except that    *)
(* the saved file is cleared when the editor spells its URI otherwise.     *)
THEOREM FindingsReachTheEditor == Spec => []FindingsShown
<1>1. IInv /\ NewsInv => FindingsShown
  <2> SUFFICES ASSUME IInv, NewsInv, Settled,
                      NEW f \in Files \ (Respelled \cap {lastSaved}), Findings(disk)[f] # {}
               PROVE  shown[f] = Findings(disk)[f]
    BY DEF FindingsShown
  <2>1. seen = disk /\ (Findings(seen)[f] # {} => shown[f] = Findings(seen)[f])
    BY SettledMeansShown
  <2> QED BY <2>1
<1> QED BY <1>1, InitInv, NextInv, InitOrder, NextOrder, InitNews, NextNews, PTL DEF Spec

(* And the file saved last shows its findings, and none when it has none.  *)
THEOREM SavedFileShowsItsFindings == Spec => []SavedFileFresh
<1>1. IInv /\ NewsInv => SavedFileFresh
  <2> SUFFICES ASSUME IInv, NewsInv, Settled
               PROVE  shown[lastSaved] = IF lastSaved \in Respelled THEN {}
                                         ELSE Findings(disk)[lastSaved]
    BY DEF SavedFileFresh
  <2>1. /\ seen = disk
        /\ shown[lastSaved] = IF lastSaved \in Respelled THEN {} ELSE Findings(seen)[lastSaved]
    BY SettledMeansShown
  <2> QED BY <2>1
<1> QED BY <1>1, InitInv, NextInv, InitOrder, NextOrder, InitNews, NextNews, PTL DEF Spec
=============================================================================
