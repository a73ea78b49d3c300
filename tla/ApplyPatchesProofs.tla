------------------------- MODULE ApplyPatchesProofs -------------------------
(* `check --apply`, for all files, reports and edits of other tools: what  *)
(* those do is lost only where the command replaces the file under them;   *)
(* nothing else changes but lines the report names and that still are what *)
(* the report saw; what the command says it patched is what has changed;   *)
(* and after exit code 0 every finding has its guard.                      *)
EXTENDS Fix, FiniteSetTheorems, Lemmas

(* The file in memory: the lines the other tools left, patched where the   *)
(* report says so, but for those they change meanwhile; and patches of     *)
(* that file still to do.  The files to come are as they left them.        *)
MemoryInv ==
    /\ \A f \in todo : fate[f] = "kept"
    /\ edits = 0 => late = {} /\ theirs = Snapshot
    /\ pc = "patch" =>
           /\ file \notin todo /\ fate[file] = "kept"
           /\ DOMAIN theirs[file] \subseteq DOMAIN lines
           /\ \A l \in DOMAIN lines :
                  \/ <<file, l>> \in late
                  \/ /\ l \in DOMAIN theirs[file]
                     /\ IF l \in patched
                        THEN Reported(file, l, theirs[file][l], lines[l])
                        ELSE lines[l] = theirs[file][l]
           /\ \A j \in DOMAIN patches : \E i \in PatchesOf(file) : patches[j] = findings[i]

IInv == DiskInv /\ findings \in Findings /\ MemoryInv

(* What the property says of one file. *)
FileKept(f) ==
    /\ fate[f] = "kept" => disk[f] = theirs[f]
    /\ fate[f] = "written" => DOMAIN theirs[f] \subseteq DOMAIN disk[f]
    /\ \A l \in DOMAIN disk[f] :
           \/ Stands(f, l, disk[f][l])
           \/ fate[f] # "kept" /\ <<f, l>> \in late
           \/ fate[f] = "torn" /\ l = Len(disk[f])

LEMMA FilesKept == OnlyReportedLinesChange <=> \A f \in Files : FileKept(f)
BY DEF OnlyReportedLinesChange, FileKept

(* A patch of the report is a patch of a line of its file. *)
LEMMA PatchFacts ==
    ASSUME findings \in Findings, NEW f \in Files, NEW i \in PatchesOf(f)
    PROVE  /\ findings[i] \in Patch
           /\ findings[i].path = f
           /\ findings[i].old = Snapshot[f][findings[i].line]
           /\ findings[i].new # findings[i].old
<1>1. findings \in Seq(Patch \cup {NoPatch}) /\ i \in DOMAIN findings
  BY FindingsAssumption DEF PatchesOf
<1>2. findings[i] \in Patch \cup {NoPatch}
  BY <1>1, SeqElement
<1>3. findings[i] # NoPatch /\ findings[i].path = f
  BY DEF PatchesOf
<1>4. findings[i] \in Range(findings) \ {NoPatch}
  BY <1>1, <1>3 DEF Range
<1> QED BY <1>2, <1>3, <1>4, FindingsAssumption

(* The patches of a file are as many as a number. *)
LEMMA PatchesFinite ==
    ASSUME findings \in Findings, NEW f \in Files
    PROVE  Cardinality(PatchesOf(f)) \in Nat
<1>1. findings \in Seq(Patch \cup {NoPatch})
  BY FindingsAssumption
<1>2. Len(findings) \in Nat /\ DOMAIN findings = 1..Len(findings)
  BY <1>1, LenProperties
<1>3. PatchesOf(f) \in SUBSET (1..Len(findings))
  BY <1>2 DEF PatchesOf
<1>4. IsFiniteSet(1..Len(findings))
  BY <1>2, FS_Interval
<1> QED BY <1>3, <1>4, FS_Subset, FS_CardinalityType

(* So are the lines patched. *)
LEMMA PatchedFinite == TypeOK => applied + Cardinality(patched) \in Nat
<1> SUFFICES ASSUME TypeOK PROVE applied + Cardinality(patched) \in Nat
  OBVIOUS
<1>1. lines \in Seq(Texts) /\ patched \subseteq DOMAIN lines /\ applied \in Nat
  BY DEF TypeOK
<1>2. Len(lines) \in Nat /\ DOMAIN lines = 1..Len(lines)
  BY <1>1, LenProperties
<1>3. IsFiniteSet(1..Len(lines))
  BY <1>2, FS_Interval
<1>4. Cardinality(patched) \in Nat
  BY <1>1, <1>2, <1>3, FS_Subset, FS_CardinalityType
<1> QED BY <1>1, <1>4

(* The first lines of a text. *)
LEMMA FirstLinesFacts ==
    ASSUME NEW S, NEW text \in Seq(S), NEW n \in Nat
    PROVE  /\ FirstLines(text, n) \in Seq(S)
           /\ DOMAIN FirstLines(text, n) = DOMAIN text \cap 1..n
           /\ Len(FirstLines(text, n)) = IF n <= Len(text) THEN n ELSE Len(text)
           /\ \A l \in DOMAIN text \cap 1..n : FirstLines(text, n)[l] = text[l]
<1> DEFINE m == IF n <= Len(text) THEN n ELSE Len(text)
           s == FirstLines(text, n)
<1>1. Len(text) \in Nat /\ DOMAIN text = 1..Len(text) /\ \A l \in DOMAIN text : text[l] \in S
  BY LenProperties, SeqElement
<1>2. m \in Nat /\ DOMAIN text \cap 1..n = 1..m
  BY <1>1
<1>3. s \in [1..m -> S] /\ \A l \in 1..m : s[l] = text[l]
  <2> HIDE DEF m
  <2> QED BY <1>1, <1>2 DEF FirstLines
<1> HIDE DEF s, m
<1>4. s \in Seq(S) /\ Len(s) = m /\ DOMAIN s = 1..m
  BY <1>2, <1>3, FunctionIsSeq
<1> QED BY <1>2, <1>3, <1>4 DEF s, m

(* A file none of these touches is as it was. *)
LEMMA SameFile ==
    ASSUME findings' = findings, NEW f \in Files, FileKept(f),
           disk'[f] = disk[f], theirs'[f] = theirs[f], fate'[f] = fate[f], late \subseteq late'
    PROVE  FileKept(f)'
<1>1. PatchesOf(f)' = PatchesOf(f)
  BY DEF PatchesOf
<1> QED BY <1>1 DEF FileKept, Stands, Reported

LEMMA SameFiles ==
    ASSUME IInv, UNCHANGED <<findings, disk, theirs, fate, late>>
    PROVE  OnlyReportedLinesChange'
<1>1. \A f \in Files : FileKept(f)'
  BY SameFile, FilesKept DEF IInv, DiskInv
<1> QED BY <1>1 DEF OnlyReportedLinesChange, FileKept

LEMMA InitInv == Init => IInv
<1> SUFFICES ASSUME Init PROVE IInv
  OBVIOUS
<1>1. findings \in Seq(Patch \cup {NoPatch})
  BY FindingsAssumption DEF Init
<1>2. <<>> \in Seq(Texts) /\ <<>> \in Seq(Patch)
  BY EmptySeq
<1>3. edits \in 0..MaxEdits
  BY BoundAssumption DEF Init
<1>4. TypeOK
  BY <1>1, <1>2, <1>3, SnapshotAssumption DEF Init, TypeOK
<1>5. OnlyReportedLinesChange
  BY DEF Init, OnlyReportedLinesChange, Stands
<1> QED BY <1>4, <1>5 DEF IInv, DiskInv, MemoryInv, Init

(* What an edit does to the text on disk and to the one it would be        *)
(* without the command.                                                    *)
EditsTo(old, was, l, d, t) ==
    /\ d \in Seq(Texts) /\ t \in Seq(Texts)
    /\ old = was => d = t /\ \A k \in DOMAIN was : k = l \/ (k \in DOMAIN t /\ t[k] = was[k])
    /\ DOMAIN t \subseteq DOMAIN was
    /\ DOMAIN was \subseteq DOMAIN old => DOMAIN t \subseteq DOMAIN d
    /\ \A k \in DOMAIN d :
           /\ k \in DOMAIN old
           /\ k = Len(old) => k = Len(d)
           /\ k \in DOMAIN was => /\ k \in DOMAIN t
                                  /\ d[k] = t[k] \/ (d[k] = old[k] /\ t[k] = was[k])

LEMMA ChangeEdits ==
    ASSUME NEW old \in Seq(Texts), NEW was \in Seq(Texts), NEW l \in DOMAIN old, NEW text \in Texts
    PROVE  EditsTo(old, was, l, [old EXCEPT ![l] = text],
                   IF l \in DOMAIN was THEN [was EXCEPT ![l] = text] ELSE was)
<1> DEFINE d == [old EXCEPT ![l] = text]
           t == IF l \in DOMAIN was THEN [was EXCEPT ![l] = text] ELSE was
<1>1. /\ Len(old) \in Nat /\ DOMAIN old = 1..Len(old)
  BY LenProperties
<1>2. d \in Seq(Texts) /\ Len(d) = Len(old) /\ DOMAIN d = DOMAIN old
  BY ExceptSeq, LenProperties
<1>3. t \in Seq(Texts) /\ DOMAIN t = DOMAIN was
  <2>1. CASE l \in DOMAIN was
    BY <2>1, ExceptSeq, LenProperties
  <2>2. CASE l \notin DOMAIN was
    BY <2>2
  <2> QED BY <2>1, <2>2
<1>4. \A k \in DOMAIN old : d[k] = IF k = l THEN text ELSE old[k]
  OBVIOUS
<1>5. \A k \in DOMAIN was : t[k] = IF k = l THEN text ELSE was[k]
  OBVIOUS
<1>6. old = was => d = t
  OBVIOUS
<1> HIDE DEF d, t
<1>7. EditsTo(old, was, l, d, t)
  BY <1>2, <1>3, <1>4, <1>5, <1>6 DEF EditsTo
<1> QED BY <1>7 DEF d, t

LEMMA DropEdits ==
    ASSUME NEW old \in Seq(Texts), NEW was \in Seq(Texts), NEW l \in DOMAIN old, l = Len(old)
    PROVE  EditsTo(old, was, l, FirstLines(old, l - 1), FirstLines(was, l - 1))
<1> DEFINE m == l - 1
           d == FirstLines(old, m)
           t == FirstLines(was, m)
<1>1. Len(old) \in Nat /\ DOMAIN old = 1..Len(old) /\ m \in Nat /\ l = m + 1
  BY LenProperties
<1> HIDE DEF m
<1>2. /\ d \in Seq(Texts) /\ DOMAIN d = DOMAIN old \cap 1..m
      /\ \A k \in DOMAIN old \cap 1..m : d[k] = old[k]
  <2>1. m \in Nat
    BY <1>1
  <2> QED BY <2>1, FirstLinesFacts
<1>3. /\ t \in Seq(Texts) /\ DOMAIN t = DOMAIN was \cap 1..m
      /\ \A k \in DOMAIN was \cap 1..m : t[k] = was[k]
  <2>1. m \in Nat
    BY <1>1
  <2> QED BY <2>1, FirstLinesFacts
<1>4. old = was => d = t
  OBVIOUS
<1> HIDE DEF d, t
<1>5. \A k \in DOMAIN d : k \in DOMAIN old /\ k # Len(old) /\ k \in 1..m
  BY <1>1, <1>2
<1>6. old = was => \A k \in DOMAIN was : k = l \/ (k \in DOMAIN t /\ t[k] = was[k])
  BY <1>1, <1>3
<1>7. EditsTo(old, was, l, d, t)
  BY <1>2, <1>3, <1>4, <1>5, <1>6 DEF EditsTo
<1> QED BY <1>7 DEF d, t, m

(* Other tools' edits: those to a file under way are remembered as late. *)
LEMMA EditInv == ASSUME IInv, NEW f \in Files, OtherToolEdits(f) PROVE IInv'
<1> USE DEF IInv, DiskInv
<1>1. /\ edits' \in 0..MaxEdits /\ edits' # 0
      /\ UNCHANGED <<findings, pc, todo, fileVars, applied, failed, code, fate>>
  BY BoundAssumption DEF OtherToolEdits, TypeOK
<1>2. disk[f] \in Seq(Texts) /\ theirs[f] \in Seq(Texts)
  BY DEF TypeOK
<1>3. ASSUME NEW l \in DOMAIN disk[f], NEW d, NEW t, EditsTo(disk[f], theirs[f], l, d, t),
             disk' = [disk EXCEPT ![f] = d], theirs' = [theirs EXCEPT ![f] = t],
             late' = IF UnderWay(f) THEN late \cup {<<f, l>>} ELSE late
      PROVE  IInv'
  <2>1. d \in Seq(Texts) /\ t \in Seq(Texts)
    BY <1>3 DEF EditsTo
  <2>2. TypeOK'
    BY <1>1, <1>3, <2>1 DEF TypeOK, fileVars
  <2>3. /\ disk'[f] = d /\ theirs'[f] = t /\ late \subseteq late'
        /\ \A g \in Files \ {f} : disk'[g] = disk[g] /\ theirs'[g] = theirs[g]
    BY <1>3 DEF TypeOK
  <2>4. \A g : PatchesOf(g)' = PatchesOf(g)
    BY <1>1 DEF PatchesOf
  <2>5. MemoryInv'
    <3>1. \A g \in todo' : fate'[g] = "kept"
      BY <1>1 DEF MemoryInv
    <3>2. ASSUME pc' = "patch"
          PROVE  /\ file' \notin todo' /\ fate'[file'] = "kept"
                 /\ DOMAIN theirs'[file'] \subseteq DOMAIN lines'
                 /\ \A k \in DOMAIN lines' :
                        \/ <<file', k>> \in late'
                        \/ /\ k \in DOMAIN theirs'[file']
                           /\ IF k \in patched'
                              THEN Reported(file', k, theirs'[file'][k], lines'[k])
                              ELSE lines'[k] = theirs'[file'][k]
      <4>1. /\ pc = "patch" /\ file' = file /\ todo' = todo /\ fate' = fate /\ lines' = lines
            /\ patched' = patched
        BY <1>1, <3>2 DEF fileVars
      <4>2. /\ file \notin todo /\ fate[file] = "kept" /\ DOMAIN theirs[file] \subseteq DOMAIN lines
            /\ \A k \in DOMAIN lines :
                  \/ <<file, k>> \in late
                  \/ /\ k \in DOMAIN theirs[file]
                     /\ IF k \in patched
                        THEN Reported(file, k, theirs[file][k], lines[k])
                        ELSE lines[k] = theirs[file][k]
        BY <4>1 DEF MemoryInv
      <4>3. CASE file = f
        <5>1. disk[f] = theirs[f]
          BY <4>2, <4>3, FilesKept DEF FileKept
        <5>2. /\ DOMAIN t \subseteq DOMAIN theirs[f]
              /\ \A k \in DOMAIN theirs[f] : k = l \/ (k \in DOMAIN t /\ t[k] = theirs[f][k])
          BY <1>3, <5>1 DEF EditsTo
        <5>3. <<f, l>> \in late'
          BY <1>3, <4>1, <4>3 DEF UnderWay
        <5>4. DOMAIN t \subseteq DOMAIN lines
          BY <4>2, <4>3, <5>2
        <5>5. ASSUME NEW k \in DOMAIN lines
              PROVE  \/ <<f, k>> \in late'
                     \/ k \in DOMAIN t /\ IF k \in patched THEN Reported(f, k, t[k], lines[k])
                                                           ELSE lines[k] = t[k]
          <6>1. CASE k = l
            BY <5>3, <6>1
          <6>2. CASE <<f, k>> \in late
            BY <2>3, <6>2
          <6>3. CASE k # l /\ <<f, k>> \notin late
            <7>1. k \in DOMAIN t /\ t[k] = theirs[f][k]
              BY <4>2, <4>3, <5>2, <6>3
            <7> QED BY <4>2, <4>3, <6>3, <7>1
          <6> QED BY <6>1, <6>2, <6>3
        <5> QED BY <2>3, <4>1, <4>2, <4>3, <5>4, <5>5
      <4>4. CASE file # f
        <5>1. theirs'[file] = theirs[file]
          BY <2>3, <4>4 DEF TypeOK
        <5> QED BY <2>3, <4>1, <4>2, <5>1
      <4> QED BY <4>3, <4>4
    <3> QED BY <1>1, <2>4, <3>1, <3>2 DEF MemoryInv, Reported, fileVars
  <2>6. ASSUME NEW g \in Files PROVE FileKept(g)'
    <3>1. FileKept(g)
      BY FilesKept
    <3>2. CASE g # f
      BY <1>1, <2>3, <3>1, <3>2, SameFile
    <3>3. CASE g = f
      <4>1. fate' = fate /\ FileKept(f)
        BY <1>1, <3>1, <3>3
      <4>2. fate'[f] = "kept" => d = t
        BY <1>3, <4>1 DEF FileKept, EditsTo
      <4>3. fate'[f] = "written" => DOMAIN t \subseteq DOMAIN d
        BY <1>3, <4>1 DEF FileKept, EditsTo
      <4>4. ASSUME NEW k \in DOMAIN d
            PROVE  \/ k \in DOMAIN t /\ (d[k] = t[k] \/ Reported(f, k, t[k], d[k]))
                   \/ fate[f] # "kept" /\ <<f, k>> \in late
                   \/ fate[f] = "torn" /\ k = Len(d)
        <5>1. /\ k \in DOMAIN disk[f] /\ (k = Len(disk[f]) => k = Len(d))
              /\ k \in DOMAIN theirs[f] =>
                     k \in DOMAIN t /\ (d[k] = t[k] \/ (d[k] = disk[f][k] /\ t[k] = theirs[f][k]))
          BY <1>3 DEF EditsTo
        <5>2. \/ k \in DOMAIN theirs[f] /\ (\/ disk[f][k] = theirs[f][k]
                                            \/ Reported(f, k, theirs[f][k], disk[f][k]))
              \/ fate[f] # "kept" /\ <<f, k>> \in late
              \/ fate[f] = "torn" /\ k = Len(disk[f])
          BY <4>1, <5>1 DEF FileKept, Stands
        <5> QED BY <5>1, <5>2
      <4>5. \A k, was, text : Reported(f, k, was, text) => Reported(f, k, was, text)'
        BY <1>1, <2>4 DEF Reported
      <4>6. ASSUME NEW k \in DOMAIN d
            PROVE  \/ k \in DOMAIN theirs'[f] /\ (\/ d[k] = theirs'[f][k]
                                                  \/ Reported(f, k, theirs[f][k], d[k])')
                   \/ fate'[f] # "kept" /\ <<f, k>> \in late'
                   \/ fate'[f] = "torn" /\ k = Len(d)
        <5>1. Reported(f, k, t[k], d[k]) => Reported(f, k, theirs[f][k], d[k])'
          BY <2>3, <4>5 DEF Reported
        <5> QED BY <2>3, <4>1, <4>4, <5>1
      <4>7. \A k \in DOMAIN disk'[f] :
                \/ Stands(f, k, disk[f][k])'
                \/ fate'[f] # "kept" /\ <<f, k>> \in late'
                \/ fate'[f] = "torn" /\ k = Len(disk'[f])
        BY <2>3, <4>6 DEF Stands
      <4>8. FileKept(f)'
        BY <2>3, <4>1, <4>2, <4>3, <4>7 DEF FileKept
      <4> QED BY <3>3, <4>8
    <3> QED BY <3>2, <3>3
  <2>7. OnlyReportedLinesChange'
    BY <2>6 DEF OnlyReportedLinesChange, FileKept
  <2> QED BY <1>1, <2>2, <2>5, <2>7
<1>4. PICK l \in DOMAIN disk[f] :
          /\ \/ \E text \in EditTexts :
                    /\ disk' = [disk EXCEPT ![f][l] = text]
                    /\ theirs' = IF l \in DOMAIN theirs[f]
                                 THEN [theirs EXCEPT ![f][l] = text]
                                 ELSE theirs
             \/ /\ l = Len(disk[f])
                /\ disk' = [disk EXCEPT ![f] = FirstLines(@, l - 1)]
                /\ theirs' = [theirs EXCEPT ![f] = FirstLines(@, l - 1)]
          /\ late' = IF UnderWay(f) THEN late \cup {<<f, l>>} ELSE late
  BY DEF OtherToolEdits
<1>5. CASE \E text \in EditTexts :
               /\ disk' = [disk EXCEPT ![f][l] = text]
               /\ theirs' = IF l \in DOMAIN theirs[f]
                            THEN [theirs EXCEPT ![f][l] = text]
                            ELSE theirs
  <2>1. PICK text \in EditTexts :
               /\ disk' = [disk EXCEPT ![f][l] = text]
               /\ theirs' = IF l \in DOMAIN theirs[f]
                            THEN [theirs EXCEPT ![f][l] = text]
                            ELSE theirs
    BY <1>5
  <2> DEFINE d == [disk[f] EXCEPT ![l] = text]
             t == IF l \in DOMAIN theirs[f] THEN [theirs[f] EXCEPT ![l] = text] ELSE theirs[f]
  <2>2. text \in Texts
    BY EditTextsAssumption
  <2>3. EditsTo(disk[f], theirs[f], l, d, t)
    BY <1>2, <2>2, ChangeEdits
  <2>4. disk' = [disk EXCEPT ![f] = d]
    BY <2>1 DEF TypeOK
  <2>5. theirs' = [theirs EXCEPT ![f] = t]
    <3>1. CASE l \in DOMAIN theirs[f]
      BY <2>1, <3>1 DEF TypeOK
    <3>2. CASE l \notin DOMAIN theirs[f]
      <4>1. theirs' = theirs /\ t = theirs[f]
        BY <2>1, <3>2
      <4> HIDE DEF t
      <4> QED BY <4>1 DEF TypeOK
    <3> QED BY <3>1, <3>2
  <2> HIDE DEF d, t
  <2> QED BY <1>3, <1>4, <2>3, <2>4, <2>5
<1>6. CASE /\ l = Len(disk[f])
           /\ disk' = [disk EXCEPT ![f] = FirstLines(@, l - 1)]
           /\ theirs' = [theirs EXCEPT ![f] = FirstLines(@, l - 1)]
  <2> DEFINE d == FirstLines(disk[f], l - 1)
             t == FirstLines(theirs[f], l - 1)
  <2>1. EditsTo(disk[f], theirs[f], l, d, t)
    BY <1>2, <1>6, DropEdits
  <2>2. disk' = [disk EXCEPT ![f] = d] /\ theirs' = [theirs EXCEPT ![f] = t]
    BY <1>6 DEF TypeOK
  <2> HIDE DEF d, t
  <2> QED BY <1>3, <1>4, <2>1, <2>2
<1> QED BY <1>4, <1>5, <1>6

(* Reading a file starts afresh from what is on disk. *)
LEMMA ReadInv == ASSUME IInv, NEW f \in Files, ReadFile(f) PROVE IInv'
<1> USE DEF IInv, DiskInv
<1> DEFINE N == Cardinality(PatchesOf(f))
<1>1. PICK order \in Bijection(1..N, PatchesOf(f)) :
          patches' = [i \in DOMAIN order |-> findings[order[i]]]
  BY DEF ReadFile
<1>2. N \in Nat
  BY PatchesFinite
<1> HIDE DEF N
<1>3. order \in [1..N -> PatchesOf(f)]
  BY <1>1 DEF Bijection, Injection
<1>4. \A j \in DOMAIN order : order[j] \in PatchesOf(f) /\ findings[order[j]] \in Patch
  BY <1>3, PatchFacts
<1>5. patches' \in [1..N -> Patch]
  BY <1>1, <1>3, <1>4
<1>6. patches' \in Seq(Patch)
  BY <1>2, <1>5
<1>7. /\ f \in todo /\ todo' = todo \ {f} /\ patched' = {} /\ file' = f /\ lines' = disk[f]
      /\ UNCHANGED <<findings, disk, applied, failed, code, edits, theirs, late, fate>>
      /\ pc' = "patch"
  BY DEF ReadFile
<1>8. TypeOK'
  BY <1>6, <1>7 DEF TypeOK
<1>9. MemoryInv'
  <2>1. \A j \in DOMAIN patches' : \E i \in PatchesOf(f) : patches'[j] = findings[i]
    BY <1>1, <1>4
  <2>2. PatchesOf(f)' = PatchesOf(f)
    BY <1>7 DEF PatchesOf
  <2>3. fate[f] = "kept" /\ disk[f] = theirs[f]
    <3>1. fate[f] = "kept"
      BY <1>7 DEF MemoryInv
    <3> QED BY <3>1, FilesKept DEF FileKept
  <2>4. /\ \A g \in todo' : fate'[g] = "kept"
        /\ edits' = 0 => late' = {} /\ theirs' = Snapshot
    BY <1>7 DEF MemoryInv
  <2> QED BY <1>7, <2>1, <2>2, <2>3, <2>4 DEF MemoryInv
<1>10. OnlyReportedLinesChange'
  BY <1>7, SameFiles
<1> QED BY <1>7, <1>8, <1>9, <1>10

(* The next patch of the file under way. *)
LEMMA HeadPatch ==
    ASSUME IInv, pc = "patch", patches # <<>>
    PROVE  /\ Head(patches) \in Patch /\ Tail(patches) \in Seq(Patch)
           /\ Head(patches).old = Snapshot[file][Head(patches).line]
           /\ \E i \in PatchesOf(file) : Head(patches) = findings[i]
           /\ \A j \in DOMAIN Tail(patches) :
                  \E i \in PatchesOf(file) : Tail(patches)[j] = findings[i]
<1> USE DEF IInv, DiskInv
<1>1. patches \in Seq(Patch) /\ file \in Files
  BY DEF TypeOK
<1>2. /\ Head(patches) \in Patch /\ Tail(patches) \in Seq(Patch)
      /\ Len(Tail(patches)) = Len(patches) - 1
      /\ \A j \in 1..Len(Tail(patches)) : Tail(patches)[j] = patches[j + 1]
  BY <1>1, HeadTailProperties
<1>3. /\ Len(patches) \in Nat /\ DOMAIN patches = 1..Len(patches)
      /\ DOMAIN Tail(patches) = 1..Len(Tail(patches)) /\ Len(patches) # 0
  BY <1>1, <1>2, LenProperties, EmptySeq
<1>4. Head(patches) = patches[1] /\ 1 \in DOMAIN patches
  BY <1>1, <1>3
<1>5. PICK i \in PatchesOf(file) : Head(patches) = findings[i]
  BY <1>4 DEF MemoryInv
<1>6. \A j \in DOMAIN Tail(patches) : j + 1 \in DOMAIN patches /\ Tail(patches)[j] = patches[j + 1]
  BY <1>2, <1>3
<1> QED BY <1>1, <1>2, <1>5, <1>6, PatchFacts DEF MemoryInv

LEMMA PatchLineInv == ASSUME IInv, PatchLine PROVE IInv'
<1> USE DEF IInv, DiskInv
<1> DEFINE p == Head(patches)
<1>1. /\ pc = "patch" /\ patches # <<>> /\ pc' = pc
      /\ p.line \in DOMAIN lines /\ p.line \notin patched /\ lines[p.line] = p.old
      /\ lines' = [lines EXCEPT ![p.line] = p.new]
      /\ patched' = patched \cup {p.line}
      /\ patches' = Tail(patches)
      /\ UNCHANGED <<findings, disk, todo, file, applied, failed, code, edits, theirs, late, fate>>
  BY DEF PatchLine, InRange
<1>2. /\ p \in Patch /\ Tail(patches) \in Seq(Patch)
      /\ p.old = Snapshot[file][p.line]
      /\ \E i \in PatchesOf(file) : p = findings[i]
      /\ \A j \in DOMAIN Tail(patches) :
             \E i \in PatchesOf(file) : Tail(patches)[j] = findings[i]
  BY <1>1, HeadPatch
<1> HIDE DEF p
<1>3. p.new \in Texts
  BY <1>2 DEF Patch
<1>4. lines' \in Seq(Texts) /\ DOMAIN lines' = DOMAIN lines
  BY <1>1, <1>3, ExceptSeq, LenProperties DEF TypeOK
<1>5. TypeOK'
  BY <1>1, <1>2, <1>4 DEF TypeOK
<1>6. MemoryInv'
  <2>1. /\ file \notin todo /\ fate[file] = "kept" /\ DOMAIN theirs[file] \subseteq DOMAIN lines
        /\ \A f \in todo : fate[f] = "kept"
        /\ edits = 0 => late = {} /\ theirs = Snapshot
    BY <1>1 DEF MemoryInv
  <2>2. ASSUME NEW l \in DOMAIN lines
        PROVE  \/ <<file, l>> \in late
               \/ /\ l \in DOMAIN theirs[file]
                  /\ IF l \in patched'
                     THEN Reported(file, l, theirs[file][l], lines'[l])
                     ELSE lines'[l] = theirs[file][l]
    <3>1. \/ <<file, l>> \in late
          \/ /\ l \in DOMAIN theirs[file]
             /\ IF l \in patched THEN Reported(file, l, theirs[file][l], lines[l])
                                 ELSE lines[l] = theirs[file][l]
      BY <1>1 DEF MemoryInv
    <3>2. CASE l = p.line
      <4>1. l \notin patched /\ l \in patched' /\ lines'[l] = p.new /\ lines[l] = Snapshot[file][l]
        BY <1>1, <1>2, <3>2
      <4>2. Reported(file, l, Snapshot[file][l], p.new)
        BY <1>2, <3>2 DEF Reported
      <4> QED BY <3>1, <4>1, <4>2
    <3>3. CASE l # p.line
      <4>1. lines'[l] = lines[l] /\ (l \in patched' <=> l \in patched)
        BY <1>1, <3>3
      <4> QED BY <3>1, <4>1
    <3> QED BY <3>2, <3>3
  <2>3. \A f : PatchesOf(f)' = PatchesOf(f)
    BY <1>1 DEF PatchesOf
  <2> QED BY <1>1, <1>2, <1>4, <2>1, <2>2, <2>3 DEF MemoryInv, Reported
<1>7. OnlyReportedLinesChange'
  BY <1>1, SameFiles
<1> QED BY <1>1, <1>5, <1>6, <1>7

LEMMA SkipPatchInv == ASSUME IInv, SkipPatch PROVE IInv'
<1> USE DEF IInv, DiskInv
<1>1. /\ pc = "patch" /\ patches # <<>>
      /\ patches' = Tail(patches)
      /\ UNCHANGED <<findings, disk, pc, todo, file, lines, patched, applied, failed, code,
                     edits, theirs, late, fate>>
  BY DEF SkipPatch, InRange
<1>2. /\ Tail(patches) \in Seq(Patch)
      /\ \A j \in DOMAIN Tail(patches) :
             \E i \in PatchesOf(file) : Tail(patches)[j] = findings[i]
  BY <1>1, HeadPatch
<1>3. TypeOK'
  BY <1>1, <1>2 DEF TypeOK
<1>4. MemoryInv'
  BY <1>1, <1>2 DEF MemoryInv, Reported, PatchesOf
<1>5. OnlyReportedLinesChange'
  BY <1>1, SameFiles
<1> QED BY <1>1, <1>3, <1>4, <1>5

(* What a write leaves: the lines in memory, or the beginning of them with *)
(* the last one cut.                                                       *)
Beginning(l, rest) == [FirstLines(lines, l) EXCEPT ![l] = rest]

LEMMA BeginningTyped ==
    ASSUME TypeOK, NEW l \in DOMAIN lines, NEW rest \in Cuts(lines[l])
    PROVE  /\ Beginning(l, rest) \in Seq(Texts) /\ Len(Beginning(l, rest)) = l
           /\ DOMAIN Beginning(l, rest) = 1..l /\ 1..l \subseteq DOMAIN lines
           /\ \A k \in 1..l : k = l \/ Beginning(l, rest)[k] = lines[k]
<1> DEFINE first == FirstLines(lines, l)
           cut == Beginning(l, rest)
<1>1. lines \in Seq(Texts)
  BY DEF TypeOK
<1>2. l \in Nat /\ l \in 1..Len(lines) /\ lines[l] \in Texts /\ Len(lines) \in Nat
      /\ DOMAIN lines = 1..Len(lines)
  BY <1>1, SeqElement, LenProperties
<1>3. first \in Seq(Texts) /\ DOMAIN first = 1..l /\ \A k \in 1..l : first[k] = lines[k]
  <2>1. /\ first \in Seq(Texts) /\ DOMAIN first = DOMAIN lines \cap 1..l
        /\ \A k \in DOMAIN lines \cap 1..l : first[k] = lines[k]
    BY <1>1, <1>2, FirstLinesFacts
  <2>2. DOMAIN lines \cap 1..l = 1..l
    BY <1>2
  <2> HIDE DEF first
  <2> QED BY <2>1, <2>2
<1>4. rest \in Texts
  BY <1>2, CutsAssumption
<1>5. cut = [first EXCEPT ![l] = rest]
  BY DEF Beginning
<1> HIDE DEF first, cut
<1>6. cut \in Seq(Texts) /\ DOMAIN cut = 1..l
  <2>1. l \in DOMAIN first
    BY <1>2, <1>3
  <2>2. [first EXCEPT ![l] = rest] \in Seq(Texts)
    BY <1>3, <1>4, <2>1, ExceptSeq
  <2> QED BY <1>3, <1>5, <2>2
<1>7. Len(cut) = l
  BY <1>2, <1>6, LenProperties
<1>8. \A k \in 1..l : k = l \/ cut[k] = lines[k]
  BY <1>3, <1>5
<1> QED BY <1>2, <1>6, <1>7, <1>8 DEF cut

(* The command's memory when a file is left. *)
LEMMA LeftInv ==
    ASSUME IInv, pc = "patch", pc' = "next",
           UNCHANGED <<todo, edits, late, theirs>>, \A f \in Files \ {file} : fate'[f] = fate[f]
    PROVE  MemoryInv'
<1>1. file \notin todo /\ todo \subseteq Files
  BY DEF IInv, DiskInv, TypeOK, MemoryInv
<1>2. \A f \in todo' : fate'[f] = "kept"
  BY <1>1 DEF IInv, MemoryInv
<1> QED BY <1>2 DEF IInv, MemoryInv

(* A line in memory may be written. *)
LEMMA LineInMemory ==
    ASSUME IInv, pc = "patch", NEW l \in DOMAIN lines
    PROVE  Stands(file, l, lines[l]) \/ <<file, l>> \in late
<1> DEFINE was == theirs[file][l]
           text == lines[l]
<1>1. \/ <<file, l>> \in late
      \/ /\ l \in DOMAIN theirs[file]
         /\ IF l \in patched THEN Reported(file, l, was, text) ELSE text = was
  BY DEF IInv, MemoryInv
<1> QED BY <1>1 DEF Stands

LEMMA WriteInv == ASSUME IInv, WriteFile \/ FailToWrite PROVE IInv'
<1> USE DEF IInv, DiskInv
<1>1. /\ pc = "patch" /\ pc' = "next"
      /\ applied' = applied + Cardinality(patched)
      /\ failed' \in BOOLEAN
      /\ UNCHANGED <<findings, todo, fileVars, code, edits, theirs, late>>
  BY DEF WriteFile, FailToWrite, TypeOK
<1>2. applied' \in Nat
  BY <1>1, PatchedFinite
<1>3. file \in Files /\ lines \in Seq(Texts) /\ DOMAIN theirs[file] \subseteq DOMAIN lines
  BY <1>1 DEF TypeOK, MemoryInv
<1>4. ASSUME NEW text \in Seq(Texts), NEW what \in {"written", "torn"},
             disk' = [disk EXCEPT ![file] = text], fate' = [fate EXCEPT ![file] = what],
             what = "written" => DOMAIN theirs[file] \subseteq DOMAIN text,
             \A l \in DOMAIN text : \/ Stands(file, l, text[l]) \/ <<file, l>> \in late
                                    \/ what = "torn" /\ l = Len(text)
      PROVE  IInv'
  <2>1. TypeOK'
    BY <1>1, <1>2, <1>4 DEF TypeOK, fileVars
  <2>2. /\ disk'[file] = text /\ fate'[file] = what
        /\ \A f \in Files \ {file} : disk'[f] = disk[f] /\ fate'[f] = fate[f]
    BY <1>4 DEF TypeOK
  <2>3. MemoryInv'
    BY <1>1, <2>2, LeftInv
  <2>4. ASSUME NEW f \in Files PROVE FileKept(f)'
    <3>1. FileKept(f)
      BY FilesKept
    <3>2. CASE f # file
      BY <1>1, <2>2, <3>1, <3>2, SameFile
    <3>3. CASE f = file
      <4>1. PatchesOf(f)' = PatchesOf(f)
        BY <1>1 DEF PatchesOf
      <4>2. what # "kept"
        OBVIOUS
      <4> QED BY <1>1, <1>4, <2>2, <3>3, <4>1, <4>2 DEF FileKept, Stands, Reported
    <3> QED BY <3>2, <3>3
  <2>5. OnlyReportedLinesChange'
    BY <2>4 DEF OnlyReportedLinesChange, FileKept
  <2> QED BY <1>1, <2>1, <2>3, <2>5
<1>5. CASE UNCHANGED <<disk, fate>>
  <2>1. TypeOK'
    BY <1>1, <1>2, <1>5 DEF TypeOK, fileVars
  <2>2. MemoryInv'
    BY <1>1, <1>5, LeftInv
  <2>3. OnlyReportedLinesChange'
    BY <1>1, <1>5, SameFiles
  <2> QED BY <1>1, <2>1, <2>2, <2>3
<1>6. CASE disk' = [disk EXCEPT ![file] = lines] /\ fate' = [fate EXCEPT ![file] = "written"]
  <2>1. \A l \in DOMAIN lines : Stands(file, l, lines[l]) \/ <<file, l>> \in late
    BY <1>1, LineInMemory
  <2> QED BY <1>3, <1>4, <1>6, <2>1
<1>7. CASE /\ \E l \in DOMAIN lines : \E rest \in Cuts(lines[l]) :
                  disk' = [disk EXCEPT ![file] = [FirstLines(lines, l) EXCEPT ![l] = rest]]
           /\ fate' = [fate EXCEPT ![file] = "torn"]
  <2>0. PICK l \in DOMAIN lines : \E rest \in Cuts(lines[l]) :
            disk' = [disk EXCEPT ![file] = [FirstLines(lines, l) EXCEPT ![l] = rest]]
    BY <1>7
  <2>1. PICK rest \in Cuts(lines[l]) :
            disk' = [disk EXCEPT ![file] = [FirstLines(lines, l) EXCEPT ![l] = rest]]
    BY <2>0
  <2> DEFINE cut == Beginning(l, rest)
  <2>2. disk' = [disk EXCEPT ![file] = cut]
    BY <2>1 DEF Beginning
  <2>3. /\ cut \in Seq(Texts) /\ Len(cut) = l /\ DOMAIN cut = 1..l /\ 1..l \subseteq DOMAIN lines
        /\ \A k \in 1..l : k = l \/ cut[k] = lines[k]
    <3>1. TypeOK
      OBVIOUS
    <3> QED BY <3>1, BeginningTyped
  <2> HIDE DEF cut
  <2>4. ASSUME NEW k \in DOMAIN cut
        PROVE  Stands(file, k, cut[k]) \/ <<file, k>> \in late \/ k = Len(cut)
    <3>1. k \in DOMAIN lines /\ (k = Len(cut) \/ cut[k] = lines[k])
      BY <2>3
    <3>2. Stands(file, k, lines[k]) \/ <<file, k>> \in late
      BY <1>1, <3>1, LineInMemory
    <3> QED BY <3>1, <3>2
  <2> QED BY <1>4, <1>7, <2>2, <2>3, <2>4
<1> QED BY <1>5, <1>6, <1>7 DEF WriteFile, FailToWrite

(* The other steps leave the files alone. *)
LEMMA OtherStepsInv ==
    ASSUME IInv, OutOfRange \/ Finish \/ \E f \in Files : FailToRead(f)
    PROVE  IInv'
<1> USE DEF IInv, DiskInv
<1>1. /\ UNCHANGED <<findings, disk, fileVars, edits, theirs, late, fate>>
      /\ pc' # "patch" /\ todo' \subseteq todo
  BY DEF OutOfRange, Finish, FailToRead
<1>2. TypeOK'
  BY PatchedFinite DEF OutOfRange, Finish, FailToRead, TypeOK, fileVars
<1>3. MemoryInv'
  BY <1>1 DEF MemoryInv
<1>4. OnlyReportedLinesChange'
  BY <1>1, SameFiles
<1> QED BY <1>1, <1>2, <1>3, <1>4

LEMMA NextInv == IInv /\ [Next]_vars => IInv'
<1> SUFFICES ASSUME IInv, [Next]_vars PROVE IInv'
  OBVIOUS
<1>1. CASE UNCHANGED vars
  <2>1. OnlyReportedLinesChange'
    BY <1>1, SameFiles DEF vars
  <2>2. TypeOK' /\ MemoryInv'
    BY <1>1 DEF vars, fileVars, IInv, DiskInv, TypeOK, MemoryInv, Reported, PatchesOf
  <2> QED BY <1>1, <2>1, <2>2 DEF vars, IInv, DiskInv
<1>2. CASE Next
  BY <1>2, EditInv, ReadInv, PatchLineInv, SkipPatchInv, WriteInv, OtherStepsInv
     DEF Next, Apply
<1> QED BY <1>1, <1>2

(* Whatever other tools do to the files before, while and after the        *)
(* command has them: what they did is lost only where they did it to a     *)
(* file under way that is then written, and nothing but a line the report  *)
(* names, and still what the report saw, changes otherwise.  A file not    *)
(* written is as they left it, a file written loses no line, and one whose *)
(* write failed holds the beginning of that.                               *)
THEOREM ApplyKeepsTheRest == Spec => []DiskInv
<1>1. IInv => DiskInv
  BY DEF IInv
<1> QED BY <1>1, InitInv, NextInv, PTL DEF Spec

-----------------------------------------------------------------------------
(* The places whose line is not what the report saw. *)
Changed(d) ==
    LET places == UNION {{f} \X DOMAIN d[f] : f \in Files}
    IN  {x \in places : d[x[1]][x[2]] # Snapshot[x[1]][x[2]]}

(* Without failures and other tools, the files not yet finished are as the *)
(* report saw them, the lines patched in memory differ from it, and what   *)
(* was counted is what changed on disk.                                    *)
CountInv ==
    ~failed /\ edits = 0 =>
        /\ \A f \in todo : disk[f] = Snapshot[f]
        /\ pc = "patch" => disk[file] = Snapshot[file] /\ DOMAIN lines = DOMAIN Snapshot[file]
        /\ IsFiniteSet(Changed(disk)) /\ applied = Cardinality(Changed(disk))

LEMMA InitCount == Init => CountInv
<1> SUFFICES ASSUME Init PROVE CountInv
  OBVIOUS
<1>1. Changed(disk) = {}
  BY DEF Init, Changed
<1>2. IsFiniteSet(Changed(disk)) /\ Cardinality(Changed(disk)) = 0
  BY <1>1, FS_EmptySet
<1> QED BY <1>2 DEF Init, CountInv

(* Writing the file under way adds the lines patched to those that differ. *)
LEMMA WriteCount == ASSUME IInv, CountInv, WriteFile PROVE CountInv'
<1> SUFFICES ASSUME ~failed, edits = 0 PROVE CountInv'
  BY DEF WriteFile, CountInv
<1> USE DEF IInv, DiskInv
<1>1. /\ pc' = "next" /\ applied' = applied + Cardinality(patched)
      /\ disk' = IF patched = {} THEN disk ELSE [disk EXCEPT ![file] = lines]
      /\ pc = "patch" /\ todo' = todo
  BY DEF WriteFile
<1>2. /\ disk \in [Files -> Seq(Texts)] /\ file \in Files /\ todo \subseteq Files
      /\ applied \in Nat /\ patched \subseteq DOMAIN lines /\ lines \in Seq(Texts)
  BY DEF TypeOK
<1>3. /\ \A f \in todo : disk[f] = Snapshot[f]
      /\ disk[file] = Snapshot[file] /\ DOMAIN lines = DOMAIN Snapshot[file]
      /\ IsFiniteSet(Changed(disk)) /\ applied = Cardinality(Changed(disk))
      /\ file \notin todo /\ late = {} /\ theirs = Snapshot
  BY <1>1 DEF CountInv, MemoryInv
<1>4. \A l \in DOMAIN lines : l \in patched <=> lines[l] # Snapshot[file][l]
  <2> SUFFICES ASSUME NEW l \in DOMAIN lines PROVE l \in patched <=> lines[l] # Snapshot[file][l]
    OBVIOUS
  <2>1. CASE l \in patched
    <3>1. Reported(file, l, Snapshot[file][l], lines[l])
      BY <1>1, <1>3, <2>1 DEF MemoryInv
    <3>2. PICK i \in PatchesOf(file) : findings[i].line = l /\ findings[i].new = lines[l]
      BY <3>1 DEF Reported
    <3>3. findings[i].old = Snapshot[file][l] /\ findings[i].new # findings[i].old
      BY <1>2, <3>2, PatchFacts
    <3> QED BY <2>1, <3>2, <3>3
  <2>2. CASE l \notin patched
    BY <1>1, <1>3, <2>2 DEF MemoryInv
  <2> QED BY <2>1, <2>2
<1> DEFINE new == {file} \X patched
<1>5. disk'[file] = IF patched = {} THEN disk[file] ELSE lines
  BY <1>1, <1>2
<1>6. \A f \in Files : f # file => disk'[f] = disk[f]
  BY <1>1, <1>2
<1>7. Changed(disk') = Changed(disk) \cup new
  <2>1. \A f \in Files : \A l : <<f, l>> \in Changed(disk') <=>
                                l \in DOMAIN disk'[f] /\ disk'[f][l] # Snapshot[f][l]
    BY DEF Changed
  <2>2. \A f \in Files : \A l : <<f, l>> \in Changed(disk) <=>
                                l \in DOMAIN disk[f] /\ disk[f][l] # Snapshot[f][l]
    BY DEF Changed
  <2>3. \A l : <<file, l>> \in Changed(disk') <=> l \in patched
    BY <1>2, <1>3, <1>4, <1>5, <2>1
  <2>4. \A f \in Files : \A l : f # file => (<<f, l>> \in Changed(disk') <=> <<f, l>> \in Changed(disk))
    BY <1>6, <2>1, <2>2
  <2>5. \A l : <<file, l>> \notin Changed(disk)
    BY <1>2, <1>3, <2>2
  <2>6. \A x \in Changed(disk') : \E f \in Files : \E l : x = <<f, l>>
    BY DEF Changed
  <2>7. \A x \in Changed(disk) : \E f \in Files : \E l : x = <<f, l>>
    BY DEF Changed
  <2>8. \A x \in Changed(disk') : x \in Changed(disk) \cup new
    BY <2>3, <2>4, <2>6
  <2>9. \A x \in Changed(disk) : x \in Changed(disk')
    BY <2>4, <2>5, <2>7
  <2>10. \A x \in new : x \in Changed(disk')
    BY <2>3
  <2> QED BY <2>8, <2>9, <2>10
<1>8. Changed(disk) \cap new = {}
  <2>1. \A l : <<file, l>> \notin Changed(disk)
    BY <1>2, <1>3 DEF Changed
  <2> QED BY <2>1
<1>9. IsFiniteSet(new) /\ Cardinality(new) = Cardinality(patched) /\ Cardinality(patched) \in Nat
  <2>1. Len(lines) \in Nat /\ DOMAIN lines = 1..Len(lines)
    BY <1>2, LenProperties
  <2>2. IsFiniteSet(1..Len(lines))
    BY <2>1, FS_Interval
  <2>3. IsFiniteSet(patched) /\ Cardinality(patched) \in Nat
    BY <1>2, <2>1, <2>2, FS_Subset, FS_CardinalityType
  <2>4. IsFiniteSet({file}) /\ Cardinality({file}) = 1
    BY FS_Singleton
  <2>5. IsFiniteSet(new) /\ Cardinality(new) = Cardinality({file}) * Cardinality(patched)
    BY <2>3, <2>4, FS_Product
  <2> HIDE DEF new
  <2> QED BY <2>3, <2>4, <2>5
<1>10. /\ IsFiniteSet(Changed(disk) \cup new)
       /\ Cardinality(Changed(disk) \cup new) = Cardinality(Changed(disk)) + Cardinality(patched)
  <2> HIDE DEF new
  <2>1. /\ IsFiniteSet(Changed(disk) \cup new)
        /\ Cardinality(Changed(disk) \cup new)
             = Cardinality(Changed(disk)) + Cardinality(new) - Cardinality(Changed(disk) \cap new)
    BY <1>3, <1>9, FS_Union
  <2>2. Cardinality(Changed(disk) \cap new) = 0
    BY <1>8, FS_EmptySet
  <2>3. Cardinality(Changed(disk)) \in Nat
    BY <1>3, FS_CardinalityType
  <2> QED BY <1>9, <2>1, <2>2, <2>3
<1>11. \A f \in todo' : disk'[f] = Snapshot[f]
  BY <1>1, <1>2, <1>3, <1>6
<1> HIDE DEF new
<1>12. IsFiniteSet(Changed(disk')) /\ applied' = Cardinality(Changed(disk'))
  BY <1>1, <1>3, <1>7, <1>10
<1> QED BY <1>1, <1>11, <1>12 DEF CountInv

LEMMA NextCount == IInv /\ CountInv /\ [Next]_vars => CountInv'
<1> SUFFICES ASSUME IInv, CountInv, [Next]_vars PROVE CountInv'
  OBVIOUS
<1>1. CASE \E f \in Files : ReadFile(f)
  <2>1. PICK f \in Files : ReadFile(f)
    BY <1>1
  <2>2. /\ f \in todo /\ todo' = todo \ {f} /\ file' = f /\ lines' = disk[f]
        /\ UNCHANGED <<disk, applied, failed, edits>>
    BY <2>1 DEF ReadFile
  <2> QED BY <2>2 DEF CountInv
<1>2. CASE \E f \in Files : FailToRead(f) \/ OtherToolEdits(f)
  BY <1>2 DEF FailToRead, OtherToolEdits, CountInv, IInv, DiskInv, TypeOK
<1>3. CASE OutOfRange \/ FailToWrite
  BY <1>3 DEF OutOfRange, FailToWrite, CountInv
<1>4. CASE SkipPatch \/ Finish \/ UNCHANGED vars
  BY <1>4 DEF SkipPatch, Finish, vars, fileVars, CountInv
<1>5. CASE PatchLine
  <2>1. DOMAIN lines' = DOMAIN lines
    BY <1>5 DEF PatchLine
  <2> QED BY <1>5, <2>1 DEF PatchLine, InRange, CountInv
<1> QED BY <1>1, <1>2, <1>3, <1>4, <1>5, WriteCount DEF Next, Apply

(* When no file failed and no other tool wrote, the count in the summary   *)
(* is the number of lines that differ from what the report saw.            *)
THEOREM SummaryCountsLines == Spec => []CountIsHonest
<1>1. CountInv => CountIsHonest
  BY DEF CountInv, CountIsHonest, Changed
<1> QED BY <1>1, InitInv, NextInv, InitCount, NextCount, PTL DEF Spec

-----------------------------------------------------------------------------
(* Without failures and other tools, each patch of a file that is finished *)
(* has its line rewritten by a patch of that line.                         *)
Rewritten(f, text, i) ==
    \E j \in PatchesOf(f) : findings[j].line = findings[i].line /\ text[findings[i].line] = findings[j].new

DoneInv ==
    ~failed /\ edits = 0 =>
        /\ \A f \in Files \ todo : ~(pc = "patch" /\ f = file) =>
               \A i \in PatchesOf(f) : Rewritten(f, disk[f], i)
        /\ pc = "patch" =>
               \A i \in PatchesOf(file) : \/ \E k \in DOMAIN patches : patches[k] = findings[i]
                                          \/ findings[i].line \in patched

(* Exit code 0 is given at the end, when every finding had a patch. *)
ZeroInv == code = 0 => pc = "done" /\ todo = {} /\ NoPatch \notin Range(findings)

LEMMA InitDone == Init => DoneInv /\ ZeroInv
BY DEF Init, DoneInv, ZeroInv

LEMMA NextZero == ZeroInv /\ [Next]_vars => ZeroInv'
<1> SUFFICES ASSUME ZeroInv, [Next]_vars PROVE ZeroInv'
  OBVIOUS
<1>1. CASE Finish
  BY <1>1 DEF Finish, ZeroInv
<1>2. CASE \E f \in Files : ReadFile(f) \/ FailToRead(f) \/ OtherToolEdits(f)
  BY <1>2 DEF ReadFile, FailToRead, OtherToolEdits, ZeroInv
<1>3. CASE OutOfRange \/ SkipPatch \/ PatchLine \/ WriteFile \/ FailToWrite \/ UNCHANGED vars
  BY <1>3 DEF OutOfRange, SkipPatch, PatchLine, InRange, WriteFile, FailToWrite, vars, ZeroInv
<1> QED BY <1>1, <1>2, <1>3 DEF Next, Apply

LEMMA NextDone == IInv /\ CountInv /\ DoneInv /\ [Next]_vars => DoneInv'
<1> SUFFICES ASSUME IInv, CountInv, DoneInv, [Next]_vars, ~failed', edits' = 0 PROVE DoneInv'
  BY DEF DoneInv
<1>1. ~failed /\ edits = 0 /\ findings' = findings
  BY DEF IInv, DiskInv, TypeOK, Next, Apply, ReadFile, FailToRead, OutOfRange, SkipPatch, PatchLine,
         WriteFile, FailToWrite, Finish, OtherToolEdits, vars
<1>2. /\ \A f \in Files \ todo : ~(pc = "patch" /\ f = file) =>
             \A i \in PatchesOf(f) : Rewritten(f, disk[f], i)
      /\ pc = "patch" =>
             \A i \in PatchesOf(file) : \/ \E k \in DOMAIN patches : patches[k] = findings[i]
                                        \/ findings[i].line \in patched
  BY <1>1 DEF DoneInv
<1>3. ASSUME \A f \in Files \ todo' : ~(pc' = "patch" /\ f = file') =>
                 \A i \in PatchesOf(f) : Rewritten(f, disk'[f], i),
             pc' = "patch" =>
                 \A i \in PatchesOf(file') : \/ \E k \in DOMAIN patches' : patches'[k] = findings[i]
                                             \/ findings[i].line \in patched'
      PROVE  DoneInv'
  BY <1>1, <1>3 DEF DoneInv, PatchesOf, Rewritten
<1>4. /\ findings \in Findings /\ disk \in [Files -> Seq(Texts)] /\ file \in Files
      /\ findings \in Seq(Patch \cup {NoPatch})
  BY DEF IInv, DiskInv, TypeOK
<1>5. CASE \E f \in Files : ReadFile(f)
  <2>1. PICK f \in Files : ReadFile(f)
    BY <1>5
  <2> DEFINE N == Cardinality(PatchesOf(f))
  <2>2. /\ pc = "next" /\ f \in todo /\ todo' = todo \ {f} /\ file' = f /\ disk' = disk
        /\ pc' = "patch"
    BY <2>1 DEF ReadFile
  <2>3. PICK order \in Bijection(1..N, PatchesOf(f)) :
            patches' = [i \in DOMAIN order |-> findings[order[i]]]
    BY <2>1 DEF ReadFile
  <2> HIDE DEF N
  <2>4. ASSUME NEW i \in PatchesOf(f)
        PROVE  \E k \in DOMAIN patches' : patches'[k] = findings[i]
    <3>1. PICK k \in 1..N : order[k] = i
      BY <2>3 DEF Bijection, Surjection
    <3>2. k \in DOMAIN order
      BY <2>3, <3>1 DEF Bijection, Injection
    <3> QED BY <2>3, <3>1, <3>2
  <2> QED BY <1>2, <1>3, <2>2, <2>4
<1>6. CASE SkipPatch \/ PatchLine
  <2> DEFINE p == Head(patches)
  <2>1. /\ pc = "patch" /\ patches # <<>> /\ patches' = Tail(patches)
        /\ p.line \in DOMAIN lines
        /\ patched \subseteq patched' /\ (PatchLine => p.line \in patched')
        /\ UNCHANGED <<pc, todo, file, disk>>
    BY <1>6 DEF SkipPatch, PatchLine, InRange
  <2>2. p.line \in patched'
    <3>1. CASE PatchLine
      BY <2>1, <3>1
    <3>2. CASE SkipPatch
      <4>1. patched' = patched /\ (p.line \in patched \/ lines[p.line] # p.old)
        BY <3>2 DEF SkipPatch
      <4>2. p.old = Snapshot[file][p.line]
        BY <2>1, HeadPatch
      <4>3. theirs = Snapshot /\ late = {}
        BY <1>1 DEF IInv, MemoryInv
      <4>4. p.line \notin patched => lines[p.line] = theirs[file][p.line]
        BY <2>1, <4>3 DEF IInv, MemoryInv
      <4> QED BY <4>1, <4>2, <4>3, <4>4
    <3> QED BY <1>6, <3>1, <3>2
  <2>3. /\ \A k \in DOMAIN patches : patches[k] = p \/ k - 1 \in DOMAIN Tail(patches)
        /\ \A k \in DOMAIN patches : k - 1 \in DOMAIN Tail(patches) =>
               Tail(patches)[k - 1] = patches[k]
    <3>1. patches \in Seq(Patch)
      BY DEF IInv, DiskInv, TypeOK
    <3>2. /\ Tail(patches) \in Seq(Patch) /\ Len(Tail(patches)) = Len(patches) - 1
          /\ p = patches[1]
          /\ \A j \in 1..Len(Tail(patches)) : Tail(patches)[j] = patches[j + 1]
      BY <2>1, <3>1, HeadTailProperties
    <3>3. /\ Len(patches) \in Nat /\ DOMAIN patches = 1..Len(patches)
          /\ DOMAIN Tail(patches) = 1..Len(Tail(patches))
      BY <3>1, <3>2, LenProperties
    <3> HIDE DEF p
    <3> DEFINE n == Len(patches)
               t == Tail(patches)
    <3>4. n \in Nat /\ DOMAIN patches = 1..n /\ DOMAIN t = 1..n - 1
          /\ \A j \in 1..n - 1 : t[j] = patches[j + 1]
      BY <3>2, <3>3
    <3> HIDE DEF n, t
    <3>5. ASSUME NEW k \in DOMAIN patches
          PROVE  /\ patches[k] = p \/ k - 1 \in DOMAIN t
                 /\ k - 1 \in DOMAIN t => t[k - 1] = patches[k]
      <4>1. k = 1 \/ k - 1 \in 1..n - 1
        BY <3>4
      <4>2. k - 1 \in 1..n - 1 => t[k - 1] = patches[(k - 1) + 1] /\ (k - 1) + 1 = k
        BY <3>4
      <4> QED BY <3>2, <3>4, <4>1, <4>2
    <3> QED BY <3>5 DEF t
  <2>4. ASSUME NEW i \in PatchesOf(file)
        PROVE  \/ \E k \in DOMAIN patches' : patches'[k] = findings[i]
               \/ findings[i].line \in patched'
    <3>1. CASE findings[i].line \in patched
      BY <2>1, <3>1
    <3>2. CASE \E k \in DOMAIN patches : patches[k] = findings[i]
      <4>1. PICK k \in DOMAIN patches : patches[k] = findings[i]
        BY <3>2
      <4> HIDE DEF p
      <4>2. CASE patches[k] = p
        BY <2>2, <4>1, <4>2
      <4>3. CASE k - 1 \in DOMAIN Tail(patches)
        BY <2>1, <2>3, <4>1, <4>3
      <4> QED BY <2>3, <4>2, <4>3
    <3> QED BY <1>2, <2>1, <3>1, <3>2
  <2> QED BY <1>2, <1>3, <2>1, <2>4
<1>7. CASE WriteFile
  <2>1. /\ pc = "patch" /\ patches = <<>> /\ pc' = "next" /\ UNCHANGED <<todo, file>>
        /\ disk' = IF patched = {} THEN disk ELSE [disk EXCEPT ![file] = lines]
    BY <1>7 DEF WriteFile, fileVars
  <2>2. DOMAIN patches = {}
    <3>1. DOMAIN <<>> = {}
      OBVIOUS
    <3> QED BY <2>1, <3>1
  <2>3. \A i \in PatchesOf(file) : findings[i].line \in patched
    BY <1>2, <2>1, <2>2
  <2>4. ASSUME NEW i \in PatchesOf(file)
        PROVE  Rewritten(file, disk'[file], i)
    <3>1. findings[i].line \in patched /\ disk'[file] = lines
      BY <1>4, <2>1, <2>3
    <3>2. Reported(file, findings[i].line, theirs[file][findings[i].line], lines[findings[i].line])
      <4>1. late = {} /\ findings[i].line \in DOMAIN lines
        BY <1>1, <3>1 DEF IInv, DiskInv, TypeOK, MemoryInv
      <4> QED BY <2>1, <3>1, <4>1 DEF IInv, MemoryInv
    <3>3. PICK j \in PatchesOf(file) : /\ findings[j].line = findings[i].line
                                       /\ findings[j].new = lines[findings[i].line]
      BY <3>2 DEF Reported
    <3> QED BY <3>1, <3>3 DEF Rewritten
  <2>5. \A f \in Files : f # file => disk'[f] = disk[f]
    BY <1>4, <2>1
  <2> QED BY <1>2, <1>3, <2>1, <2>4, <2>5
<1>8. CASE Finish \/ UNCHANGED vars
  BY <1>2, <1>3, <1>8 DEF Finish, vars, fileVars
<1>9. CASE OutOfRange \/ FailToWrite \/ \E f \in Files : FailToRead(f)
  BY <1>9 DEF OutOfRange, FailToWrite, FailToRead
<1>10. CASE \E f \in Files : OtherToolEdits(f)
  BY <1>1, <1>10 DEF OtherToolEdits
<1> QED BY <1>5, <1>6, <1>7, <1>8, <1>9, <1>10 DEF Next, Apply

-----------------------------------------------------------------------------
LEMMA ColumnIsNumber == ASSUME NEW src, NEW at \in Nat PROVE Column(src, at) \in Int
<1> DEFINE S == {0} \cup {k \in 1..(at - 1) : src[k] = NL}
<1>1. S \in SUBSET (0..at) /\ S # {}
  OBVIOUS
<1>2. Max(S) \in S
  <2> HIDE DEF S
  <2> QED BY <1>1, MaxIsAmong
<1>3. Max(S) \in Int
  BY <1>1, <1>2
<1> QED BY <1>3 DEF Column, LineStart

(* The text calls the guard, and still does when something follows. *)
Calls(text, guard) == \E k \in 1..Len(text) - 1 : text[k] = guard /\ text[k + 1] = "("

LEMMA CallsOn ==
    ASSUME NEW S, NEW s \in Seq(S), NEW t \in Seq(S), NEW guard, Calls(s, guard)
    PROVE  s \o t \in Seq(S) /\ Calls(s \o t, guard)
<1> DEFINE u == s \o t
<1>1. /\ u \in Seq(S) /\ Len(u) = Len(s) + Len(t) /\ Len(s) \in Nat /\ Len(t) \in Nat
      /\ \A i \in 1..Len(s) + Len(t) : u[i] = IF i <= Len(s) THEN s[i] ELSE t[i - Len(s)]
  BY ConcatProperties, LenProperties
<1> HIDE DEF u
<1>2. PICK k \in 1..Len(s) - 1 : s[k] = guard /\ s[k + 1] = "("
  BY DEF Calls
<1>3. k \in 1..Len(u) - 1 /\ u[k] = s[k] /\ u[k + 1] = s[k + 1]
  BY <1>1
<1>4. Calls(u, guard)
  BY <1>2, <1>3 DEF Calls
<1> QED BY <1>1, <1>4 DEF u

(* The rewritten line calls the guard. *)
LEMMA WrapCalls ==
    ASSUME NEW path, NEW arg \in Argument, NEW guard, NEW T,
           WrapPatch(path, arg, guard).old \in Seq(T)
    PROVE  Calls(WrapPatch(path, arg, guard).new, guard)
<1> DEFINE src  == Source[path]
           old  == LineAt(src, Row(src, arg.from))
           col  == Column(src, arg.from)
           size == arg.to - arg.from
           end  == arg.to - 1
           from == col + size + 1
           len  == Len(old)
           a    == SubSeq(old, 1, col)
           call == <<guard, "(">>
           b    == SubSeq(src, arg.from, end)
           paren == <<")">>
           c    == SubSeq(old, from, len)
           U    == {guard, "(", ")"} \cup {old[k] : k \in Int} \cup {src[k] : k \in Int}
<1>1. WrapPatch(path, arg, guard).new = (((a \o call) \o b) \o paren) \o c
  BY DEF WrapPatch
<1>2. old \in Seq(T)
  BY DEF WrapPatch
<1>3. arg.from \in Nat /\ arg.to \in Nat
  BY DEF Argument
<1>4. col \in Int
  BY <1>3, ColumnIsNumber
<1>5. Len(old) \in Nat
  <2> HIDE DEF old
  <2> QED BY <1>2, LenProperties
<1>6. end \in Int /\ from \in Int /\ len \in Int /\ arg.from \in Int
  <2> HIDE DEF col, old
  <2> QED BY <1>3, <1>4, <1>5
<1>7. call \in Seq(U) /\ paren \in Seq(U) /\ Len(call) = 2 /\ call[1] = guard /\ call[2] = "("
  OBVIOUS
<1>8. \A k \in Int : old[k] \in U /\ src[k] \in U
  OBVIOUS
<1> HIDE DEF col, old, src, end, from, len, U
<1>9. a \in Seq(U) /\ Len(a) \in Nat
  <2>1. \A k \in 1..col : old[k] \in U
    BY <1>4, <1>8
  <2>2. a \in Seq(U)
    BY <1>4, <2>1, SubSeqProperties
  <2> HIDE DEF a
  <2> QED BY <2>2, LenProperties
<1>10. b \in Seq(U)
  <2>1. \A k \in arg.from..end : src[k] \in U
    BY <1>6, <1>8
  <2> QED BY <1>6, <2>1, SubSeqProperties
<1>11. c \in Seq(U)
  <2>1. \A k \in from..len : old[k] \in U
    BY <1>6, <1>8
  <2> QED BY <1>6, <2>1, SubSeqProperties
<1> HIDE DEF a, b, c, call, paren
<1>12. a \o call \in Seq(U) /\ Calls(a \o call, guard)
  <2> DEFINE u == a \o call
  <2>1. /\ u \in Seq(U) /\ Len(u) = Len(a) + 2
        /\ \A i \in 1..Len(a) + 2 : u[i] = IF i <= Len(a) THEN a[i] ELSE call[i - Len(a)]
    <3>1. a \in Seq(U) /\ call \in Seq(U)
      BY <1>7, <1>9
    <3>2. /\ u \in Seq(U) /\ Len(u) = Len(a) + Len(call)
          /\ \A i \in 1..Len(a) + Len(call) : u[i] = IF i <= Len(a) THEN a[i] ELSE call[i - Len(a)]
      BY <3>1, ConcatProperties
    <3> QED BY <1>7, <3>2
  <2> HIDE DEF u
  <2>2. /\ Len(a) + 1 \in 1..Len(u) - 1
        /\ u[Len(a) + 1] = call[1] /\ u[(Len(a) + 1) + 1] = call[2]
    BY <1>9, <2>1
  <2>3. Calls(u, guard)
    BY <1>7, <2>2 DEF Calls
  <2> QED BY <2>1, <2>3 DEF u
<1> DEFINE u == a \o call
           v == u \o b
           w == v \o paren
<1>13. u \in Seq(U) /\ Calls(u, guard)
  BY <1>12
<1> HIDE DEF u
<1>14. v \in Seq(U) /\ Calls(v, guard)
  BY <1>10, <1>13, CallsOn
<1> HIDE DEF v
<1>15. w \in Seq(U) /\ Calls(w, guard)
  BY <1>7, <1>14, CallsOn
<1> HIDE DEF w
<1>16. Calls(w \o c, guard)
  BY <1>11, <1>15, CallsOn
<1>17. WrapPatch(path, arg, guard).new = w \o c
  BY <1>1, Zenon DEF u, v, w
<1> HIDE DEF w
<1> QED BY <1>16, <1>17

LEMMA ArgumentTyped ==
    ASSUME NEW args \in Seq(Argument), NEW index, NEW arg \in NthPositionalArg(args, index)
    PROVE  arg \in Argument
<1> DEFINE places == {k \in DOMAIN args : args[k].kind # "keyword"}
           counted == SelectAt(args, places)
<1>1. counted \in Seq(Argument)
  <2> HIDE DEF places
  <2> QED BY SelectAtPlaces
<1> HIDE DEF counted
<1>2. index + 1 \in DOMAIN counted /\ arg = counted[index + 1]
  BY DEF NthPositionalArg, counted
<1> QED BY <1>1, <1>2, SeqElement

(* A patch of a report is of the finding's file and puts a call of the     *)
(* guard's first predicate around the argument.                            *)
LEMMA RenderedCalls ==
    ASSUME NEW report \in Reports, NEW i \in DOMAIN report, RenderFix(report[i]) # NoPatch,
           NEW T, RenderFix(report[i]).old \in Seq(T)
    PROVE  /\ RenderFix(report[i]).path = report[i].sink.path
           /\ \E g \in FirstGuardCall(report[i].policy.guard) : Calls(RenderFix(report[i]).new, g)
<1> DEFINE finding == report[i]
           choices == Wrapping(finding)
           w == CHOOSE x \in choices : TRUE
<1>1. choices # {} /\ RenderFix(finding) = WrapPatch(finding.sink.path, w[1], w[2])
  BY DEF RenderFix
<1>2. w \in choices
  <2> HIDE DEF choices
  <2> QED BY <1>1
<1>3. /\ finding.sink.args # NoCall
      /\ w \in NthPositionalArg(finding.sink.args, finding.policy.wrap)
                   \X FirstGuardCall(finding.policy.guard)
  <2> HIDE DEF w, finding
  <2> QED BY <1>2 DEF Wrapping
<1>4. finding.sink.args \in Seq(Argument)
  BY <1>3, ArgumentsAssumption
<1> HIDE DEF w, finding
<1>5. w[1] \in Argument /\ w[2] \in FirstGuardCall(finding.policy.guard)
  BY <1>3, <1>4, ArgumentTyped
<1>6. WrapPatch(finding.sink.path, w[1], w[2]).old \in Seq(T)
  BY <1>1 DEF finding
<1>7. Calls(WrapPatch(finding.sink.path, w[1], w[2]).new, w[2])
  BY <1>5, <1>6, WrapCalls
<1>8. WrapPatch(finding.sink.path, w[1], w[2]).path = finding.sink.path
  BY DEF WrapPatch
<1> QED BY <1>1, <1>5, <1>7, <1>8 DEF finding

(* After exit code 0, without other tools' edits, each finding's line has  *)
(* its guard called in it, or another patch of that line took its place.   *)
THEOREM ZeroGuardsEachFinding == Spec => []ZeroMeansGuarded
<1>1. IInv /\ DoneInv /\ ZeroInv => ZeroMeansGuarded
  <2> SUFFICES ASSUME IInv, DoneInv, ZeroInv, NEW report \in Reports, Clean, code = 0,
                      findings = Rendered(report), NEW i \in DOMAIN report
               PROVE  LET path == report[i].sink.path
                      IN  /\ findings[i] # NoPatch
                          /\ \/ \E j \in PatchesOf(path) :
                                    /\ findings[j].line = findings[i].line
                                    /\ findings[j] # findings[i]
                             \/ \E g \in FirstGuardCall(report[i].policy.guard) :
                                    \/ g \in Wildcards
                                    \/ Calls(disk[path][findings[i].line], g)
    BY DEF ZeroMeansGuarded, Calls
  <2> DEFINE path == report[i].sink.path
             x == findings[i]
  <2>1. i \in DOMAIN findings /\ x = RenderFix(report[i])
    BY DEF Rendered
  <2>2. x # NoPatch /\ todo = {} /\ pc = "done" /\ ~failed /\ edits = 0
    <3>1. x \in Range(findings)
      BY <2>1 DEF Range
    <3> QED BY <3>1 DEF ZeroInv, Clean
  <2>3. x \in Patch
    <3>1. findings \in Seq(Patch \cup {NoPatch})
      BY DEF IInv, DiskInv, TypeOK
    <3>2. x \in Patch \cup {NoPatch}
      BY <2>1, <3>1, SeqElement
    <3> HIDE DEF x
    <3> QED BY <2>2, <3>2
  <2>4. x.old \in Seq(Tokens)
    BY <2>3, TextsAssumption DEF Patch
  <2>5. /\ x.path = path
        /\ \E g \in FirstGuardCall(report[i].policy.guard) : Calls(x.new, g)
    <3>1. RenderFix(report[i]) # NoPatch /\ RenderFix(report[i]).old \in Seq(Tokens)
      BY <2>1, <2>2, <2>4
    <3>2. /\ RenderFix(report[i]).path = report[i].sink.path
          /\ \E g \in FirstGuardCall(report[i].policy.guard) : Calls(RenderFix(report[i]).new, g)
      BY <3>1, RenderedCalls
    <3> QED BY <2>1, <3>2
  <2>6. path \in Files /\ i \in PatchesOf(path)
    BY <2>1, <2>2, <2>3, <2>5 DEF Patch, PatchesOf
  <2>7. Rewritten(path, disk[path], i)
    <3> HIDE DEF path
    <3> QED BY <2>2, <2>6 DEF DoneInv
  <2>8. PICK j \in PatchesOf(path) : findings[j].line = x.line /\ disk[path][x.line] = findings[j].new
    BY <2>7 DEF Rewritten
  <2>9. CASE findings[j] = x
    BY <2>2, <2>5, <2>8, <2>9
  <2>10. CASE findings[j] # x
    BY <2>2, <2>8, <2>10
  <2> QED BY <2>9, <2>10
<1> QED BY <1>1, InitInv, NextInv, InitCount, NextCount, InitDone, NextDone, NextZero, PTL DEF Spec

-----------------------------------------------------------------------------
(* The rows of a source: places are counted, and so are the line feeds      *)
(* before them.                                                             *)
Breaks(src, at) == {k \in 1..(at - 1) : src[k] = NL}

LEMMA RowFacts ==
    ASSUME NEW src, NEW at \in Nat
    PROVE  /\ IsFiniteSet(Breaks(src, at)) /\ Cardinality(Breaks(src, at)) \in Nat
           /\ Row(src, at) = Cardinality(Breaks(src, at)) + 1 /\ Row(src, at) \in Nat \ {0}
<1>1. IsFiniteSet(1..(at - 1)) /\ Breaks(src, at) \in SUBSET (1..(at - 1))
  BY FS_Interval DEF Breaks
<1>2. IsFiniteSet(Breaks(src, at))
  BY <1>1, FS_Subset
<1>3. Cardinality(Breaks(src, at)) \in Nat
  BY <1>2, FS_CardinalityType
<1>4. Row(src, at) = Cardinality(Breaks(src, at)) + 1
  BY DEF Row, Breaks
<1> QED BY <1>2, <1>3, <1>4

LEMMA RowOrder ==
    ASSUME NEW src, NEW j \in Nat \ {0}, NEW k \in Nat \ {0}, j <= k
    PROVE  /\ Row(src, j) <= Row(src, k)
           /\ Row(src, j) = Row(src, k) => \A i \in j..k - 1 : src[i] # NL
           /\ (\A i \in j..k - 1 : src[i] # NL) => Row(src, j) = Row(src, k)
<1>1. Breaks(src, j) \in SUBSET Breaks(src, k)
  BY DEF Breaks
<1>2. /\ IsFiniteSet(Breaks(src, k)) /\ Cardinality(Breaks(src, k)) \in Nat
      /\ Cardinality(Breaks(src, j)) \in Nat
      /\ Row(src, j) = Cardinality(Breaks(src, j)) + 1
      /\ Row(src, k) = Cardinality(Breaks(src, k)) + 1
  BY RowFacts
<1>3. /\ Cardinality(Breaks(src, j)) <= Cardinality(Breaks(src, k))
      /\ Cardinality(Breaks(src, k)) = Cardinality(Breaks(src, j)) => Breaks(src, k) = Breaks(src, j)
  BY <1>1, <1>2, FS_Subset
<1>4. Row(src, j) <= Row(src, k)
  BY <1>2, <1>3
<1>5. ASSUME Row(src, j) = Row(src, k) PROVE \A i \in j..k - 1 : src[i] # NL
  <2>1. Breaks(src, k) = Breaks(src, j)
    BY <1>2, <1>3, <1>5
  <2>2. \A i \in j..k - 1 : i \notin Breaks(src, j)
    BY DEF Breaks
  <2>3. \A i \in j..k - 1 : src[i] = NL => i \in Breaks(src, k)
    BY DEF Breaks
  <2> QED BY <2>1, <2>2, <2>3
<1>6. ASSUME \A i \in j..k - 1 : src[i] # NL PROVE Row(src, j) = Row(src, k)
  <2>1. Breaks(src, k) = Breaks(src, j)
    BY <1>1, <1>6 DEF Breaks
  <2> QED BY <1>2, <2>1
<1> QED BY <1>4, <1>5, <1>6

LEMMA RowNext ==
    ASSUME NEW src, NEW k \in Nat \ {0}, NEW j, j = k + 1
    PROVE  Row(src, j) = (IF src[k] = NL THEN Row(src, k) + 1 ELSE Row(src, k)) /\ Row(src, 1) = 1
<1>1. /\ IsFiniteSet(Breaks(src, k)) /\ Cardinality(Breaks(src, k)) \in Nat
      /\ Row(src, k) = Cardinality(Breaks(src, k)) + 1 /\ Row(src, j) = Cardinality(Breaks(src, j)) + 1
      /\ Row(src, 1) = Cardinality(Breaks(src, 1)) + 1
  BY RowFacts
<1>2. Breaks(src, j) = IF src[k] = NL THEN Breaks(src, k) \cup {k} ELSE Breaks(src, k)
  BY DEF Breaks
<1>3. k \notin Breaks(src, k) /\ Breaks(src, 1) = {}
  BY DEF Breaks
<1>4. Cardinality(Breaks(src, k) \cup {k}) = Cardinality(Breaks(src, k)) + 1
  BY <1>1, <1>3, FS_AddElement
<1>5. Row(src, 1) = 1
  BY <1>1, <1>3, FS_EmptySet
<1>6. CASE src[k] = NL
  BY <1>1, <1>2, <1>4, <1>5, <1>6
<1>7. CASE src[k] # NL
  BY <1>1, <1>2, <1>5, <1>7
<1> QED BY <1>6, <1>7

(* Where line m stops: at its line feed, or behind the source.              *)
Stops(src, m, e) ==
    /\ e \in 1..Len(src) + 1 /\ Row(src, e) = m
    /\ e = Len(src) + 1 \/ src[e] = NL

Stop(src, m) == IF m = 0 THEN 0 ELSE CHOOSE e : Stops(src, m, e)

RowCount(src) == Row(src, Len(src) + 1)

LEMMA StopExists ==
    ASSUME NEW S, NEW src \in Seq(S), NEW m \in 1..RowCount(src)
    PROVE  Stops(src, m, Stop(src, m))
<1> DEFINE N == Len(src)
           A == {k \in 1..N + 1 : m <= Row(src, k)}
<1>1. N \in Nat /\ N + 1 \in Nat \ {0} /\ Row(src, N + 1) \in Nat \ {0} /\ m \in Nat /\ m >= 1
        /\ m <= Row(src, N + 1)
  <2>1. N \in Nat /\ N + 1 \in Nat \ {0}
    BY LenProperties
  <2>2. Row(src, N + 1) \in Nat \ {0}
    <3> HIDE DEF N
    <3> QED BY <2>1, RowFacts
  <2> QED BY <2>1, <2>2 DEF RowCount
<1>2. PICK a \in A : \A k \in A : a <= k
  <2>1. A \in SUBSET Nat /\ N + 1 \in A
    BY <1>1
  <2> HIDE DEF A
  <2> QED BY <2>1, LeastNatural
<1>3. a \in 1..N + 1 /\ m <= Row(src, a) /\ a \in Nat \ {0} /\ Row(src, a) \in Nat
  BY <1>1, <1>2, RowFacts
<1>4. Row(src, a) = m
  <2>1. CASE a = 1
    <3>1. Row(src, 1) = 1
      BY RowNext
    <3> QED BY <1>1, <1>3, <2>1, <3>1
  <2>2. CASE a # 1
    <3> DEFINE b == a - 1
    <3>1. b \in Nat \ {0} /\ a = b + 1 /\ b \in 1..N + 1 /\ b < a
      BY <1>1, <1>3, <2>2
    <3>2. b \notin A
      BY <1>2, <1>3, <3>1
    <3> HIDE DEF b
    <3>3. Row(src, b) \in Nat /\ ~(m <= Row(src, b))
      BY <3>1, <3>2, RowFacts
    <3>4. Row(src, a) <= Row(src, b) + 1
      <4>1. Row(src, a) = IF src[b] = NL THEN Row(src, b) + 1 ELSE Row(src, b)
        BY <3>1, RowNext
      <4> QED BY <3>3, <4>1
    <3> QED BY <1>1, <1>3, <3>3, <3>4
  <2> QED BY <2>1, <2>2
<1> DEFINE B == {k \in a..N + 1 : k = N + 1 \/ src[k] = NL}
<1>5. PICK e \in B : \A k \in B : e <= k
  <2>1. B \in SUBSET Nat /\ N + 1 \in B
    BY <1>1, <1>3
  <2> HIDE DEF B
  <2> QED BY <2>1, LeastNatural
<1>6. e \in 1..N + 1 /\ a <= e /\ e \in Nat \ {0} /\ (e = N + 1 \/ src[e] = NL)
  BY <1>1, <1>3, <1>5
<1>7. \A i \in a..e - 1 : src[i] # NL
  <2> SUFFICES ASSUME NEW i \in a..e - 1, src[i] = NL PROVE FALSE
    OBVIOUS
  <2>1. i \in B /\ i < e
    BY <1>1, <1>3, <1>6
  <2> QED BY <1>5, <1>6, <2>1
<1>8. Row(src, e) = m
  BY <1>3, <1>4, <1>6, <1>7, RowOrder
<1>9. Stops(src, m, e)
  BY <1>6, <1>8 DEF Stops
<1> QED BY <1>1, <1>9 DEF Stop

(* Line m is between where the line before it stops and where it stops.     *)
LEMMA StopOrder ==
    ASSUME NEW S, NEW src \in Seq(S), NEW m \in 1..RowCount(src), NEW p, p = Stop(src, m - 1),
           NEW e, e = Stop(src, m)
    PROVE  /\ p \in 0..Len(src) /\ e \in 1..Len(src) + 1 /\ p < e
           /\ p # 0 => src[p] = NL /\ Row(src, p) = m - 1
           /\ Row(src, p + 1) = m /\ Row(src, e) = m
           /\ \A i \in p + 1..e - 1 : src[i] # NL
           /\ e = Len(src) + 1 \/ src[e] = NL
           /\ m = RowCount(src) => e = Len(src) + 1
<1> DEFINE N == Len(src)
           M == RowCount(src)
           f == N + 1
           q == p + 1
<1>1. N \in Nat /\ f \in Nat \ {0} /\ M \in Nat /\ M = Row(src, f) /\ m \in Nat /\ m >= 1 /\ m <= M
  <2>1. N \in Nat /\ N + 1 \in Nat \ {0}
    BY LenProperties
  <2>2. M = Row(src, f)
    BY DEF RowCount
  <2> HIDE DEF f
  <2>3. Row(src, f) \in Nat \ {0}
    BY <2>1, RowFacts DEF f
  <2> QED BY <2>1, <2>2, <2>3 DEF f
<1>2. e \in 1..f /\ Row(src, e) = m /\ (e = f \/ src[e] = NL) /\ e \in Nat \ {0}
  BY <1>1, StopExists DEF Stops
<1>3. /\ p \in 0..N /\ p < e /\ (p # 0 => src[p] = NL /\ Row(src, p) = m - 1)
      /\ Row(src, q) = m
  <2>1. CASE m = 1
    <3>1. p = 0 /\ q = 1
      BY <2>1 DEF Stop
    <3>2. Row(src, q) = 1
      BY <3>1, RowNext
    <3> QED BY <1>1, <1>2, <2>1, <3>1, <3>2
  <2>2. CASE m # 1
    <3> DEFINE l == m - 1
    <3>1. l \in 1..M /\ p = Stop(src, l)
      BY <1>1, <2>2
    <3> HIDE DEF l, M
    <3>2. Stops(src, l, p)
      BY <3>1, StopExists DEF M
    <3>3. p \in 1..f /\ Row(src, p) = l /\ (p = f \/ src[p] = NL) /\ p \in Nat \ {0}
      BY <1>1, <3>2 DEF Stops
    <3>4. p < e
      <4>1. e <= p => Row(src, e) <= Row(src, p)
        BY <1>2, <3>3, RowOrder
      <4>2. ~(m <= l)
        BY <1>1 DEF l
      <4> QED BY <1>2, <3>3, <4>1, <4>2
    <3>5. p \in 0..N /\ src[p] = NL /\ p # f
      BY <1>1, <1>2, <3>3, <3>4
    <3>6. Row(src, q) = Row(src, p) + 1
      BY <3>3, <3>5, RowNext
    <3> QED BY <1>1, <3>3, <3>4, <3>5, <3>6 DEF l
  <2> QED BY <2>1, <2>2
<1>4. q \in Nat \ {0} /\ q <= e
  BY <1>1, <1>2, <1>3
<1>5. \A i \in q..e - 1 : src[i] # NL
  <2> HIDE DEF q
  <2> QED BY <1>2, <1>3, <1>4, RowOrder
<1>6. ASSUME m = M, e # f PROVE FALSE
  <2> DEFINE g == e + 1
  <2>1. g \in Nat \ {0} /\ g <= f
    BY <1>1, <1>2, <1>6
  <2>2. Row(src, g) = m + 1
    BY <1>2, <1>6, RowNext
  <2> HIDE DEF g, f
  <2>3. Row(src, g) <= Row(src, f)
    BY <1>1, <2>1, RowOrder
  <2> QED BY <1>1, <1>6, <2>2, <2>3
<1> QED BY <1>2, <1>3, <1>5, <1>6

IsStretch(src, m, a, b) == LineAt(src, m) = SubSeq(src, a, b)

LEMMA LineStretch ==
    ASSUME NEW S, NEW src \in Seq(S), NEW m \in 1..RowCount(src), NEW p, p = Stop(src, m - 1),
           NEW e, e = Stop(src, m), NEW a, a = p + 1, NEW b, b = e - 1
    PROVE  IsStretch(src, m, a, b)
<1> DEFINE N == Len(src)
           f == N + 1
<1>1. N \in Nat /\ f \in Nat \ {0} /\ DOMAIN src = 1..N /\ m \in Nat
  <2>1. m \in Nat
    <3>1. Row(src, N + 1) \in Nat
      BY LenProperties, RowFacts
    <3> QED BY <3>1 DEF RowCount
  <2> QED BY <2>1, LenProperties
<1>2. /\ p \in 0..N /\ e \in 1..f /\ p < e
      /\ p # 0 => Row(src, p) = m - 1
      /\ Row(src, a) = m
      /\ \A i \in a..b : src[i] # NL
      /\ e = f \/ src[e] = NL
  BY StopOrder
<1>3. Row(src, e) = m
  BY StopOrder
<1> HIDE DEF f
<1>4. p \in Nat /\ e \in Nat \ {0} /\ a \in Nat \ {0} /\ b \in Nat /\ a <= b + 1 /\ b <= N
  BY <1>1, <1>2 DEF f
<1> DEFINE places == {k \in DOMAIN src : src[k] # NL /\ Row(src, k) = m}
<1>5. ASSUME NEW k \in a..b PROVE k \in places
  <2>1. k \in Nat \ {0} /\ a <= k /\ k \in 1..N
    BY <1>1, <1>4
  <2>2. \A i \in a..k - 1 : src[i] # NL
    BY <1>2, <1>4
  <2>3. Row(src, a) = Row(src, k)
    BY <1>4, <2>1, <2>2, RowOrder
  <2> QED BY <1>1, <1>2, <2>1, <2>3
<1>6. ASSUME NEW k \in places PROVE k \in a..b
  <2>1. k \in 1..N /\ k \in Nat \ {0} /\ Row(src, k) = m /\ src[k] # NL
    BY <1>1
  <2>2. ASSUME k <= p PROVE FALSE
    <3>1. p \in Nat \ {0} /\ Row(src, p) = m - 1
      BY <1>2, <1>4, <2>1, <2>2
    <3>2. Row(src, k) <= Row(src, p)
      BY <2>1, <2>2, <3>1, RowOrder
    <3> QED BY <1>1, <2>1, <3>1, <3>2
  <2>3. ASSUME e <= k PROVE FALSE
    <3> DEFINE g == e + 1
    <3>1. e # f /\ src[e] = NL
      BY <1>1, <1>2, <1>4, <2>1, <2>3 DEF f
    <3>2. g <= k /\ g \in Nat \ {0}
      <4>1. e # k
        BY <2>1, <3>1
      <4>2. e \in Nat /\ k \in Nat
        BY <1>4, <2>1
      <4> QED BY <2>3, <4>1, <4>2
    <3>3. Row(src, g) = m + 1
      BY <1>3, <1>4, <3>1, RowNext
    <3> HIDE DEF g
    <3>4. Row(src, g) <= Row(src, k)
      BY <2>1, <3>2, RowOrder
    <3> QED BY <1>1, <2>1, <3>3, <3>4
  <2> QED BY <1>4, <2>1, <2>2, <2>3
<1>7. places = a..b
  <2> HIDE DEF places
  <2>1. a..b \subseteq places
    BY <1>5
  <2>2. places \subseteq a..b
    BY <1>6
  <2> QED BY <2>1, <2>2
<1>8. LineAt(src, m) = SelectAt(src, places)
  BY DEF LineAt
<1>9. SelectAt(src, a..b) = SubSeq(src, a, b)
  BY <1>4, SelectAtStretch DEF SelectsStretch
<1> HIDE DEF places
<1> QED BY <1>7, <1>8, <1>9 DEF IsStretch

(* A line, or the start of one, with a line feed before it is a stretch of  *)
(* the source with a line feed before that.                                 *)
IsPiece(src, a, b, e) == <<NL>> \o SubSeq(src, a, b) = SubSeq(<<NL>> \o src, a, e)

LEMMA PieceStretch ==
    ASSUME NEW S, NL \in S, NEW src \in Seq(S), NEW a \in Nat \ {0}, NEW b \in Nat, a <= b + 1,
           b <= Len(src), NEW e, e = b + 1, a = 1 \/ src[a - 1] = NL
    PROVE  IsPiece(src, a, b, e)
<1> DEFINE one == <<NL>>
           z == one \o src
           c == a + 1
<1>1. one \in Seq(S) /\ Len(one) = 1 /\ one[1] = NL /\ Len(src) \in Nat
  BY LenProperties
<1> HIDE DEF one
<1>2. /\ z \in Seq(S) /\ Len(z) = Len(one) + Len(src)
      /\ \A k \in 1..Len(one) + Len(src) : z[k] = IF k <= Len(one) THEN one[k] ELSE src[k - Len(one)]
  BY <1>1, ConcatProperties
<1> HIDE DEF z
<1>3. a \in 1..Len(z) /\ e \in a..Len(z) /\ a \in 1..Len(one) + Len(src)
  BY <1>1, <1>2
<1>4. z[a] = NL
  <2>1. CASE a = 1
    BY <1>1, <1>2, <1>3, <2>1
  <2>2. CASE a # 1
    <3>1. ~(a <= Len(one)) /\ a - Len(one) = a - 1
      BY <1>1, <2>2
    <3>2. z[a] = src[a - 1]
      BY <1>2, <1>3, <3>1
    <3> QED BY <2>2, <3>2
  <2> QED BY <2>1, <2>2
<1>5. SubSeq(z, a, e) = <<z[a]>> \o SubSeq(z, c, e)
  BY <1>2, <1>3, SubSeqRecursiveFirst
<1>6. Behind(NL, src, a, b, c, e)
  BY SubSeqBehind
<1>7. SubSeq(z, c, e) = SubSeq(src, a, b)
  BY <1>6 DEF Behind, z, one
<1> QED BY <1>4, <1>5, <1>7 DEF IsPiece, z, one

IsLine(src, m, a, e) == <<NL>> \o LineAt(src, m) = SubSeq(<<NL>> \o src, a, e)

LEMMA LinePiece ==
    ASSUME NEW S, NL \in S, NEW src \in Seq(S), NEW m \in 1..RowCount(src), NEW p,
           p = Stop(src, m - 1), NEW a, a = p + 1, NEW e, e = Stop(src, m)
    PROVE  IsLine(src, m, a, e)
<1> DEFINE b == e - 1
<1>1. /\ p \in 0..Len(src) /\ e \in 1..Len(src) + 1 /\ p < e /\ (p # 0 => src[p] = NL)
  BY StopOrder
<1>2. Len(src) \in Nat
  BY LenProperties
<1>3. /\ a \in Nat \ {0} /\ b \in Nat /\ a <= b + 1 /\ b <= Len(src) /\ e = b + 1
      /\ a - 1 = p /\ (p = 0 => a = 1)
  BY <1>1, <1>2
<1>4. IsStretch(src, m, a, b)
  BY LineStretch
<1> HIDE DEF b
<1>5. a = 1 \/ src[a - 1] = NL
  BY <1>1, <1>3
<1>6. IsPiece(src, a, b, e)
  BY <1>3, <1>5, PieceStretch
<1>7. LineAt(src, m) = SubSeq(src, a, b)
  BY <1>4 DEF IsStretch
<1> QED BY <1>6, <1>7 DEF IsPiece, IsLine

(* Joining the lines of a source, one of them rewritten between two places, *)
(* rewrites the source between these.                                       *)
JoinsTo(text, src, i, mid, to) ==
    Joined(text) = SubSeq(src, 1, i) \o (mid \o SubSeq(src, to, Len(src)))

(* The places around a stretch of a line. *)
Cut(N, p, e, from, to, a, i, b, u) ==
    /\ a \in Nat \ {0} /\ i \in Nat /\ b \in Nat /\ from = i + 1 /\ e = b + 1
    /\ a <= i + 1 /\ i <= N /\ to <= b + 1 /\ b <= N /\ u \in Nat \ {0} /\ u <= N + 2
    /\ from <= N + 1 /\ a - 1 = p /\ (p = 0 => a = 1) /\ to \in Nat \ {0}

LEMMA CutPlaces ==
    ASSUME NEW N \in Nat, NEW p \in 0..N, NEW e \in 1..N + 1, NEW from \in Nat \ {0}, NEW to \in Nat,
           p < from, from <= to, to <= e,
           NEW a, a = p + 1, NEW i, i = from - 1, NEW b, b = e - 1, NEW u, u = to + 1
    PROVE  Cut(N, p, e, from, to, a, i, b, u)
BY DEF Cut

(* The text has the source's lines, but for the new line L. *)
RewritesLine(text, src, L, new) ==
    /\ Len(text) = RowCount(src) /\ text[L] = new
    /\ \A l \in 1..RowCount(src) : l # L => text[l] = LineAt(src, l)

LEMMA JoinedLines ==
    ASSUME NEW S, NL \in S, NEW src \in Seq(S), NEW text \in Seq(Seq(S)),
           NEW L \in 1..RowCount(src), NEW mid \in Seq(S), NEW p0, p0 = Stop(src, L - 1),
           NEW e0, e0 = Stop(src, L), NEW from \in Nat \ {0}, NEW to \in Nat,
           p0 < from, from <= to, to <= e0,
           NEW a, a = p0 + 1, NEW i, i = from - 1, NEW b, b = e0 - 1,
           RewritesLine(text, src, L, SubSeq(src, a, i) \o (mid \o SubSeq(src, to, b)))
    PROVE  JoinsTo(text, src, i, mid, to)
<1> DEFINE N == Len(src)
           M == RowCount(src)
           one == <<NL>>
           z == one \o src
           u == to + 1
           pieces == [l \in DOMAIN text |-> one \o text[l]]
           before == SubSeq(z, 1, from)
           after(n) == mid \o SubSeq(z, u, Stop(src, n))
<1>1. N \in Nat /\ M \in Nat /\ L \in 1..M /\ DOMAIN text = 1..M
  <2>1. N \in Nat
    BY LenProperties
  <2>2. Row(src, N + 1) \in Nat
    BY <2>1, RowFacts
  <2>3. M \in Nat
    BY <2>2 DEF RowCount
  <2>4. Len(text) = M
    BY DEF RewritesLine
  <2> HIDE DEF M, N
  <2>5. L \in 1..M
    BY DEF M
  <2> QED BY <2>1, <2>3, <2>4, <2>5, LenProperties
<1>2. one \in Seq(S) /\ Len(one) = 1
  OBVIOUS
<1>3. z \in Seq(S) /\ Len(z) = N + 1
  <2>1. z \in Seq(S) /\ Len(z) = Len(one) + Len(src)
    BY <1>2, ConcatProperties
  <2> HIDE DEF z, one
  <2> QED BY <1>1, <1>2, <2>1
<1>4. /\ p0 \in 0..N /\ e0 \in 1..N + 1 /\ (p0 # 0 => src[p0] = NL)
      /\ \A n \in 1..M : n = M => Stop(src, n) = N + 1
  <2>1. p0 \in 0..N /\ e0 \in 1..N + 1 /\ (p0 # 0 => src[p0] = NL)
    <3> HIDE DEF M
    <3> QED BY StopOrder
  <2>2. \A n \in 1..M : n = M => Stop(src, n) = N + 1
    <3> TAKE n \in 1..M
    <3> DEFINE p == Stop(src, n - 1)
               e == Stop(src, n)
    <3>1. n \in 1..RowCount(src)
      OBVIOUS
    <3> HIDE DEF M
    <3>2. n = M => e = N + 1
      <4> HIDE DEF p, e
      <4>1. p = Stop(src, n - 1) /\ e = Stop(src, n)
        BY DEF p, e
      <4> QED BY <3>1, <4>1, StopOrder DEF M
    <3> QED BY <3>2
  <2> HIDE DEF M, N
  <2> QED BY <2>1, <2>2
<1>5. /\ a \in Nat \ {0} /\ i \in Nat /\ b \in Nat /\ from = i + 1 /\ e0 = b + 1
      /\ a <= i + 1 /\ i <= N /\ to <= b + 1 /\ b <= N /\ u \in Nat \ {0} /\ u <= N + 2
      /\ from <= N + 1 /\ a - 1 = p0 /\ (p0 = 0 => a = 1) /\ to \in Nat \ {0}
  <2> HIDE DEF N, M
  <2>1. N \in Nat /\ p0 \in 0..N /\ e0 \in 1..N + 1 /\ u = to + 1
    BY <1>1, <1>4
  <2> HIDE DEF u
  <2>2. Cut(N, p0, e0, from, to, a, i, b, u)
    BY <2>1, CutPlaces
  <2> QED BY <2>2 DEF Cut
<1>6. pieces \in Seq(Seq(S)) /\ Len(pieces) = M /\ \A l \in 1..M : pieces[l] = one \o text[l]
  <2>1. \A l \in 1..M : one \o text[l] \in Seq(S)
    <3> TAKE l \in 1..M
    <3>1. text[l] \in Seq(S)
      BY <1>1, SeqElement
    <3> QED BY <1>2, <3>1, ConcatProperties
  <2> HIDE DEF one, M
  <2>2. pieces \in [1..M -> Seq(S)]
    BY <1>1, <2>1
  <2>3. \A l \in 1..M : pieces[l] = one \o text[l]
    BY <1>1
  <2> HIDE DEF pieces
  <2> QED BY <1>1, <2>2, <2>3, FunctionIsSeq
<1> HIDE DEF pieces, M
<1>7. PICK f : Flattens(f, S, pieces) /\ FlattenSeq(pieces) = f[Len(pieces)]
  BY <1>6, FlattenDef
<1>8. f[0] = <<>> /\ \A n \in 1..M : f[n] = f[n - 1] \o (one \o text[n])
  BY <1>6, <1>7 DEF Flattens
<1>9. before = one \o SubSeq(src, 1, i) /\ before \in Seq(S) /\ SubSeq(src, 1, i) \in Seq(S)
  <2>1. IsPiece(src, 1, i, from)
    <3>1. 1 \in Nat \ {0} /\ 1 <= i + 1
      BY <1>5
    <3> QED BY <1>5, <3>1, PieceStretch
  <2>2. SubSeq(src, 1, i) \in Seq(S)
    <3>1. 1 \in Nat \ {0} /\ 1 <= i + 1
      BY <1>5
    <3> QED BY <1>5, <3>1, SubSeqFacts
  <2>3. before = one \o SubSeq(src, 1, i)
    BY <2>1 DEF IsPiece
  <2> HIDE DEF before, one
  <2> QED BY <1>2, <2>2, <2>3, ConcatProperties
<1> DEFINE Plain(n) == f[n] = SubSeq(z, 1, Stop(src, n))
           Changes(n) == f[n] = before \o after(n) /\ to <= Stop(src, n)
           P == {n \in 0..M : (n < L => Plain(n)) /\ (L <= n => Changes(n))}
<1>10. 0 \in P
  <2>1. Stop(src, 0) = 0 /\ SubSeq(z, 1, 0) = <<>>
    BY SubSeqEmpty DEF Stop
  <2>2. Plain(0)
    <3> HIDE DEF z
    <3> QED BY <1>8, <2>1
  <2> HIDE DEF Plain, Changes
  <2> QED BY <1>1, <2>2
<1>11. ASSUME NEW n \in 1..M, n - 1 \in P PROVE n \in P
  <2> DEFINE p == Stop(src, n - 1)
             e == Stop(src, n)
             q == p + 1
  <2>1. p \in 0..N /\ e \in 1..N + 1 /\ p < e
    BY StopOrder DEF M
  <2>3. n # L => one \o text[n] = SubSeq(z, q, e)
    <3>1. IsLine(src, n, q, e)
      BY LinePiece DEF M
    <3> QED BY <3>1 DEF IsLine, M, RewritesLine
  <2>4. f[n] = f[n - 1] \o (one \o text[n])
    BY <1>8
  <2> HIDE DEF p, e
  <2>5. /\ p \in Nat /\ e \in Nat /\ q \in Nat /\ q = p + 1 /\ p <= e /\ e <= Len(z)
        /\ q \in Nat \ {0} /\ q <= e + 1
    BY <1>1, <1>3, <2>1
  <2>6. CASE n < L
    <3>1. f[n - 1] = SubSeq(z, 1, p) /\ n # L
      <4>1. n - 1 < L /\ n # L
        BY <1>1, <2>6
      <4>2. Plain(n - 1)
        <5> HIDE DEF Plain, Changes
        <5> QED BY <1>11, <4>1
      <4> QED BY <4>1, <4>2 DEF p
    <3>2. Joins(z, 1, p, q, e)
      <4>1. 1 \in Nat \ {0} /\ 1 <= p + 1
        BY <2>5
      <4> HIDE DEF q, z
      <4> QED BY <1>3, <2>5, <4>1, SubSeqJoin
    <3>3. f[n] = SubSeq(z, 1, e)
      <4> HIDE DEF q, z, one
      <4> QED BY <2>3, <2>4, <3>1, <3>2 DEF Joins
    <3>4. Plain(n)
      BY <3>3 DEF e
    <3>5. ~(L <= n)
      BY <1>1, <2>6
    <3> HIDE DEF Plain, Changes
    <3> QED BY <3>4, <3>5
  <2>7. CASE n = L
    <3> DEFINE x == SubSeq(src, a, i)
               y == mid \o SubSeq(src, to, b)
               l == SubSeq(z, 1, p)
               ox == one \o x
    <3>1. f[n - 1] = l
      <4>1. n - 1 < L
        BY <1>1, <2>7
      <4>2. Plain(n - 1)
        <5> HIDE DEF Plain, Changes
        <5> QED BY <1>11, <4>1
      <4> QED BY <4>2 DEF p
    <3>2. p = p0 /\ e = e0 /\ q = a
      BY <2>7 DEF p, e
    <3>3. ox = SubSeq(z, q, from)
      <4>1. a = 1 \/ src[a - 1] = NL
        BY <1>4, <1>5
      <4>2. IsPiece(src, a, i, from)
        BY <1>5, <4>1, PieceStretch
      <4> QED BY <3>2, <4>2 DEF IsPiece
    <3>4. SubSeq(src, to, b) = SubSeq(z, u, e) /\ SubSeq(src, to, b) \in Seq(S)
      <4>1. Behind(NL, src, to, b, u, e)
        BY <1>5, <3>2, SubSeqBehind
      <4>2. SubSeq(src, to, b) \in Seq(S)
        BY <1>5, SubSeqFacts
      <4> QED BY <4>1, <4>2 DEF Behind
    <3>5. x \in Seq(S)
      BY <1>5, SubSeqFacts
    <3>6. y \in Seq(S) /\ y = after(n)
      <4>1. y \in Seq(S)
        BY <3>4, ConcatProperties
      <4> QED BY <3>4, <4>1 DEF e
    <3>7. l \in Seq(S)
      <4>1. 1 \in Nat \ {0} /\ 1 <= p + 1 /\ p <= Len(z)
        BY <2>5
      <4> HIDE DEF z
      <4> QED BY <1>3, <2>5, <4>1, SubSeqFacts
    <3>8. Joins(z, 1, p, q, from)
      <4> HIDE DEF q, z, N
      <4>1. 1 \in Nat \ {0} /\ 1 <= p + 1 /\ p <= from /\ from \in Nat /\ p \in Nat
        <5>1. p0 \in Nat
          BY <1>4
        <5>2. p0 <= from /\ from \in Nat
          BY <5>1
        <5>3. p = p0
          BY <3>2
        <5> QED BY <5>1, <5>2, <5>3
      <4>3. from <= Len(z)
        BY <1>3, <1>5
      <4>2. z \in Seq(S)
        BY <1>3
      <4> QED BY <2>5, <4>1, <4>2, <4>3, SubSeqJoin
    <3>9. text[n] = x \o y
      BY <2>7 DEF RewritesLine
    <3>10. l \o ox = before
      <4> HIDE DEF z, one, q
      <4> QED BY <3>3, <3>8 DEF Joins
    <3> HIDE DEF x, y, l
    <3>11. ox \in Seq(S)
      BY <1>2, <3>5, ConcatProperties
    <3>12. Associates(one, x, y)
      BY <1>2, <3>5, <3>6, ConcatAssociates
    <3>13. one \o (x \o y) = ox \o y
      BY <3>12 DEF Associates
    <3> HIDE DEF ox
    <3>14. Associates(l, ox, y)
      BY <3>6, <3>7, <3>11, ConcatAssociates
    <3>15. l \o (ox \o y) = before \o y
      <4> HIDE DEF before
      <4> QED BY <3>10, <3>14 DEF Associates
    <3>16. f[n] = before \o after(n)
      <4> HIDE DEF before, one, after
      <4> QED BY <2>4, <3>1, <3>6, <3>9, <3>13, <3>15
    <3>17. to <= Stop(src, n) /\ ~(n < L)
      BY <1>1, <2>7, <3>2 DEF e
    <3>18. Changes(n)
      BY <3>16, <3>17
    <3> HIDE DEF Plain, Changes
    <3> QED BY <3>17, <3>18
  <2>8. CASE n > L
    <3> DEFINE r == SubSeq(z, u, p)
               t == SubSeq(z, q, e)
               mr == mid \o r
    <3>1. f[n - 1] = before \o mr /\ to <= p /\ n # L /\ ~(n < L)
      <4>1. L <= n - 1 /\ n # L /\ ~(n < L)
        BY <1>1, <2>8
      <4>2. Changes(n - 1)
        <5> HIDE DEF Plain, Changes
        <5> QED BY <1>11, <4>1
      <4> HIDE DEF before
      <4> QED BY <4>1, <4>2 DEF p
    <3>2. u <= p + 1 /\ p <= Len(z)
      BY <1>5, <2>5, <3>1
    <3>3. r \in Seq(S) /\ t \in Seq(S)
      <4> HIDE DEF z, u, q
      <4> QED BY <1>3, <1>5, <2>5, <3>2, SubSeqFacts
    <3>4. Joins(z, u, p, q, e)
      <4> HIDE DEF z, u, q
      <4> QED BY <1>3, <1>5, <2>5, <3>2, SubSeqJoin
    <3>5. r \o t = SubSeq(z, u, e)
      BY <3>4 DEF Joins
    <3> HIDE DEF r, t
    <3>6. mr \in Seq(S)
      BY <3>3, ConcatProperties
    <3>7. Associates(mid, r, t)
      BY <3>3, ConcatAssociates
    <3>8. mr \o t = after(n)
      <4> HIDE DEF z, u
      <4> QED BY <3>5, <3>7 DEF Associates, e
    <3> HIDE DEF mr, before
    <3>9. Associates(before, mr, t)
      BY <1>9, <3>3, <3>6, ConcatAssociates
    <3>10. f[n] = before \o after(n)
      <4>1. one \o text[n] = t
        BY <2>3, <3>1 DEF t
      <4> HIDE DEF one, after
      <4> QED BY <2>4, <3>1, <3>8, <3>9, <4>1 DEF Associates
    <3>11. to <= Stop(src, n)
      <4>1. to <= e
        BY <2>5, <3>1
      <4> QED BY <4>1 DEF e
    <3>12. Changes(n)
      BY <3>10, <3>11
    <3> HIDE DEF Plain, Changes
    <3> QED BY <3>1, <3>12
  <2> HIDE DEF P
  <2> QED BY <1>1, <2>6, <2>7, <2>8
<1>12. M \in P
  <2>1. \A n \in 0..M : n \in P
    <3> HIDE DEF P
    <3> QED BY <1>1, <1>10, <1>11, UpToInduction
  <2> HIDE DEF P
  <2> QED BY <1>1, <2>1
<1>13. f[M] = before \o after(M) /\ Stop(src, M) = N + 1
  <2>1. M \in 1..M /\ L <= M
    BY <1>1
  <2>2. Stop(src, M) = N + 1
    BY <1>4, <2>1
  <2>3. Changes(M)
    <3> HIDE DEF Plain, Changes
    <3> QED BY <1>12, <2>1
  <2> QED BY <2>2, <2>3
<1> DEFINE rest == SubSeq(src, to, N)
           last == N + 1
           B == mid \o rest
           A == SubSeq(src, 1, i)
<1>14. SubSeq(z, u, last) = rest /\ rest \in Seq(S)
  <2>1. to <= N + 1 /\ to \in Nat \ {0} /\ N \in Nat /\ N <= Len(src)
    BY <1>1, <1>5
  <2>2. Behind(NL, src, to, N, u, last)
    <3>1. u = to + 1 /\ last = N + 1
      OBVIOUS
    <3> HIDE DEF u, last, N
    <3> QED BY <2>1, <3>1, SubSeqBehind
  <2>3. rest \in Seq(S)
    <3> HIDE DEF N
    <3> QED BY <2>1, SubSeqFacts
  <2> QED BY <2>2, <2>3 DEF Behind
<1>15. B \in Seq(S) /\ B = after(M)
  <2>1. B \in Seq(S)
    <3> HIDE DEF rest
    <3> QED BY <1>14, ConcatProperties
  <2> QED BY <1>13, <1>14, <2>1
<1>16. A \in Seq(S) /\ before = one \o A
  BY <1>9
<1> HIDE DEF after, before, A, B
<1>17. Associates(one, A, B) /\ A \o B \in Seq(S)
  BY <1>2, <1>15, <1>16, ConcatAssociates, ConcatProperties
<1>18. FlattenSeq(pieces) = one \o (A \o B)
  <2> HIDE DEF one
  <2> QED BY <1>6, <1>7, <1>13, <1>15, <1>16, <1>17 DEF Associates
<1>19. Tail(one \o (A \o B)) = A \o B
  <2> DEFINE C == A \o B
  <2>1. C \in Seq(S)
    BY <1>17
  <2> HIDE DEF C
  <2>2. Tail(one \o C) = C
    BY <2>1, TailOfOne
  <2> QED BY <2>2 DEF C
<1>20. Joined(text) = A \o B
  <2>1. Joined(text) = Tail(FlattenSeq(pieces))
    BY DEF Joined, pieces
  <2> HIDE DEF one
  <2> QED BY <1>18, <1>19, <2>1
<1> QED BY <1>20 DEF JoinsTo, A, B

(* The line a stretch of the source lies in, and where in it it begins.     *)
LiesIn(src, from, to, L, p, e) ==
    L \in 1..RowCount(src) /\ p < from /\ to <= e /\ LineStart(src, from) = p + 1

LEMMA RowPlace ==
    ASSUME NEW S, NEW src \in Seq(S), NEW from \in Nat \ {0}, NEW to \in Nat, from <= to,
           to <= Len(src) + 1, NEW L, L = Row(src, from), L = Row(src, to),
           NEW p, p = Stop(src, L - 1), NEW e, e = Stop(src, L)
    PROVE  LiesIn(src, from, to, L, p, e)
<1> DEFINE N == Len(src)
           f == N + 1
<1>1. N \in Nat /\ f \in Nat \ {0} /\ to \in Nat \ {0} /\ to <= f
  BY LenProperties
<1>2. Row(src, f) \in Nat /\ L \in Nat \ {0} /\ RowCount(src) = Row(src, f)
  <2> HIDE DEF f
  <2>1. Row(src, f) \in Nat /\ Row(src, from) \in Nat \ {0}
    BY <1>1, RowFacts
  <2> QED BY <2>1 DEF RowCount, f
<1>3. L <= Row(src, f)
  <2> HIDE DEF f
  <2> QED BY <1>1, RowOrder
<1>4. L \in 1..RowCount(src)
  BY <1>2, <1>3
<1>5. /\ p \in 0..N /\ e \in 1..f /\ p < e
      /\ p # 0 => src[p] = NL /\ Row(src, p) = L - 1
      /\ Row(src, e) = L
      /\ \A k \in p + 1..e - 1 : src[k] # NL
      /\ e = f \/ src[e] = NL
  BY <1>4, StopOrder
<1>6. p < from
  <2> SUFFICES ASSUME from <= p PROVE FALSE
    BY <1>1, <1>5
  <2>1. p \in Nat \ {0} /\ Row(src, p) = L - 1
    BY <1>1, <1>5
  <2>2. Row(src, from) <= Row(src, p)
    BY <2>1, RowOrder
  <2> QED BY <1>2, <2>1, <2>2
<1>7. to <= e
  <2> SUFFICES ASSUME e < to PROVE FALSE
    BY <1>1, <1>5
  <2> DEFINE g == e + 1
  <2>1. g \in Nat \ {0} /\ g <= to /\ e \in Nat \ {0} /\ e # f
    BY <1>1, <1>5
  <2>2. Row(src, g) = L + 1
    BY <1>5, <2>1, RowNext
  <2> HIDE DEF g
  <2>3. Row(src, g) <= Row(src, to)
    BY <1>1, <2>1, RowOrder
  <2> QED BY <1>2, <2>2, <2>3
<1> DEFINE B == {0} \cup {k \in 1..(from - 1) : src[k] = NL}
           m == Max(B)
<1>8. m \in B /\ \A y \in B : y <= m
  <2>1. B \in SUBSET (0..from) /\ B # {} /\ from \in Nat
    OBVIOUS
  <2> HIDE DEF B
  <2> QED BY <2>1, MaxIsAmong
<1>9. LineStart(src, from) = m + 1
  BY DEF LineStart
<1> HIDE DEF f, m
<1>10. p \in B /\ p \in Nat /\ e \in Nat
  BY <1>1, <1>5, <1>6
<1>11. m <= p
  <2> SUFFICES ASSUME p < m PROVE FALSE
    BY <1>8, <1>10
  <2>1. m \in 1..(from - 1) /\ src[m] = NL
    BY <1>8, <1>10
  <2>2. m \in p + 1..e - 1
    BY <1>7, <1>10, <2>1
  <2> QED BY <1>5, <2>1, <2>2
<1>12. p <= m /\ m \in Nat
  <2>1. m \in Nat
    BY <1>8
  <2> HIDE DEF B
  <2> QED BY <1>8, <1>10, <2>1
<1>13. LineStart(src, from) = p + 1
  <2>1. m = p
    BY <1>10, <1>11, <1>12
  <2> HIDE DEF B
  <2> QED BY <1>9, <2>1
<1> QED BY <1>4, <1>6, <1>7, <1>13 DEF LiesIn

(* The same places counted from the beginning of the line. *)
Columns(a, b, i, to, col, j, last) ==
    /\ col \in Nat /\ col <= b - a + 1 /\ a + 1 - 1 = a /\ a + col - 1 = i
    /\ j \in Nat \ {0} /\ last \in Nat /\ j <= last + 1 /\ last <= b - a + 1
    /\ a + j - 1 = to /\ a + last - 1 = b

LEMMA CutColumns ==
    ASSUME NEW a \in Nat \ {0}, NEW b \in Nat, NEW i \in Nat, NEW to \in Nat \ {0},
           a <= b + 1, to <= b + 1, a <= i + 1, i + 1 <= to,
           NEW col, col = i + 1 - a, NEW j, j = to - a + 1, NEW last, last = b - a + 1
    PROVE  Columns(a, b, i, to, col, j, last)
BY DEF Columns

(* What the patch puts for the line: the line with the guard around the     *)
(* argument, as a stretch of the source rewritten.                          *)
Middle(src, guard, from, end) == (<<guard, "(">> \o SubSeq(src, from, end)) \o <<")">>

Spans(arg, from, to) == arg.from = from /\ arg.to = to

PutsLine(path, arg, guard, src, a, i, b) ==
    WrapPatch(path, arg, guard).new =
        SubSeq(src, a, i) \o (Middle(src, guard, arg.from, arg.to - 1) \o SubSeq(src, arg.to, b))

LEMMA NewLine ==
    ASSUME NEW S, NEW guard \in S, "(" \in S, ")" \in S, NEW path, NEW src \in Seq(S), src = Source[path],
           NEW arg, NEW from \in Nat \ {0}, NEW to \in Nat, Spans(arg, from, to),
           from <= to, to <= Len(src) + 1,
           NEW L, L = Row(src, from), L = Row(src, to), NEW p, p = Stop(src, L - 1), NEW e, e = Stop(src, L),
           NEW a, a = p + 1, NEW i, i = from - 1, NEW b, b = e - 1
    PROVE  PutsLine(path, arg, guard, src, a, i, b)
<1> DEFINE old  == LineAt(src, L)
           col  == Column(src, from)
           size == to - from
           N    == Len(src)
           end  == to - 1
           u    == to + 1
           j    == col + size + 1
           last == Len(old)
           l    == SubSeq(old, 1, col)
           r    == SubSeq(old, j, last)
           call == <<guard, "(">>
           x    == SubSeq(src, from, end)
           paren == <<")">>
           A    == SubSeq(src, a, i)
           C    == SubSeq(src, to, b)
<1>1. WrapPatch(path, arg, guard).new = (((l \o call) \o x) \o paren) \o r
  <2>1. arg.from = from /\ arg.to = to
    BY DEF Spans
  <2>2. WrapPatch(path, arg, guard).new =
            (((SubSeq(LineAt(src, Row(src, from)), 1, Column(src, from)) \o call)
              \o SubSeq(src, from, to - 1)) \o paren)
              \o SubSeq(LineAt(src, Row(src, from)), Column(src, from) + (to - from) + 1,
                        Len(LineAt(src, Row(src, from))))
    BY <2>1 DEF WrapPatch
  <2> QED BY <2>2
<1>2. L \in 1..RowCount(src) /\ p < from /\ to <= e /\ LineStart(src, from) = p + 1
  <2>1. LiesIn(src, from, to, L, p, e)
    BY RowPlace
  <2> QED BY <2>1 DEF LiesIn
<1>3. N \in Nat /\ p \in 0..N /\ e \in 1..N + 1
  BY <1>2, LenProperties, StopOrder
<1>4. Cut(N, p, e, from, to, a, i, b, u)
  <2>1. u = to + 1
    OBVIOUS
  <2> HIDE DEF u, N
  <2> QED BY <1>2, <1>3, <2>1, CutPlaces
<1>5. old = SubSeq(src, a, b)
  <2>1. IsStretch(src, L, a, b)
    BY <1>2, LineStretch
  <2> QED BY <2>1 DEF IsStretch
<1> HIDE DEF u, N
<1>6. /\ a \in Nat \ {0} /\ b \in Nat /\ a <= b + 1 /\ b <= Len(src) /\ i \in Nat /\ i <= Len(src)
      /\ to \in Nat \ {0} /\ to <= b + 1 /\ a <= i + 1 /\ from = i + 1 /\ a - 1 = p /\ end \in Nat /\ to = end + 1
      /\ end <= Len(src)
  <2>1. /\ a \in Nat \ {0} /\ i \in Nat /\ b \in Nat /\ from = i + 1
        /\ a <= i + 1 /\ i <= N /\ to <= b + 1 /\ b <= N /\ a - 1 = p /\ to \in Nat \ {0}
    BY <1>4 DEF Cut
  <2>2. end \in Nat /\ to = end + 1
    BY <2>1
  <2> HIDE DEF end
  <2>3. a <= b + 1
    BY <2>1
  <2>4. end <= N
    <3>1. end \in Nat /\ N \in Nat /\ to \in Nat /\ b \in Nat
      BY <1>3, <2>1, <2>2
    <3>2. end + 1 <= b + 1 /\ b <= N
      BY <2>1, <2>2
    <3> QED BY <3>1, <3>2
  <2> QED BY <2>1, <2>2, <2>3, <2>4 DEF N
<1> HIDE DEF end, old, col
<1>7. last = b - a + 1
  BY <1>5, <1>6, SubSeqFacts
<1>8. col = from - (p + 1)
  BY <1>2 DEF Column, col
<1> HIDE DEF last
<1>9. /\ col \in Nat /\ col <= b - a + 1 /\ a + 1 - 1 = a /\ a + col - 1 = i
      /\ j \in Nat \ {0} /\ last \in Nat /\ j <= last + 1 /\ last <= b - a + 1
      /\ a + j - 1 = to /\ a + last - 1 = b
  <2>1. a \in Nat \ {0} /\ b \in Nat /\ i \in Nat /\ to \in Nat \ {0} /\ a <= b + 1 /\ to <= b + 1
        /\ a <= i + 1 /\ from = i + 1 /\ p = a - 1 /\ i + 1 <= to
    BY <1>6
  <2>2. col = i + 1 - a
    BY <1>8, <2>1
  <2>3. j = to - a + 1
    <3>1. from = i + 1 /\ i \in Nat /\ to \in Nat /\ a \in Nat
      BY <2>1
    <3>2. size = to - (i + 1)
      BY <3>1
    <3>3. j = col + size + 1
      OBVIOUS
    <3> HIDE DEF size, j
    <3> QED BY <2>2, <3>1, <3>2, <3>3
  <2> HIDE DEF j
  <2>4. Columns(a, b, i, to, col, j, last)
    BY <1>7, <2>1, <2>2, <2>3, CutColumns
  <2> QED BY <2>4 DEF Columns
<1> HIDE DEF j
<1>10. l = A
  <2>1. Within(src, a, b, 1, col)
    <3>1. 1 \in Nat \ {0} /\ 1 <= col + 1
      BY <1>9
    <3> QED BY <1>6, <1>9, <3>1, SubSeqInner
  <2> QED BY <1>5, <1>9, <2>1 DEF Within
<1>11. r = C
  <2>1. Within(src, a, b, j, last)
    BY <1>6, <1>9, SubSeqInner
  <2> QED BY <1>5, <1>9, <2>1 DEF Within
<1>12. A \in Seq(S) /\ C \in Seq(S) /\ x \in Seq(S)
  <2>1. from <= end + 1
    BY <1>6
  <2> QED BY <1>6, <2>1, SubSeqFacts
<1>13. call \in Seq(S) /\ paren \in Seq(S)
  OBVIOUS
<1> HIDE DEF A, C, x, call, paren
<1>14. Regroups(A, call, x, paren, C)
  BY <1>12, <1>13, ConcatRegroups
<1> HIDE DEF l, r
<1>15. WrapPatch(path, arg, guard).new = A \o (((call \o x) \o paren) \o C)
  BY <1>1, <1>10, <1>11, <1>14 DEF Regroups
<1>16. WrapPatch(path, arg, guard).new =
            SubSeq(src, a, i) \o (Middle(src, guard, from, to - 1) \o SubSeq(src, to, b))
  <2> HIDE DEF old, col, j, last, N, u
  <2> QED BY <1>15 DEF Middle, A, C, x, call, paren, end
<1>17. arg.from = from /\ arg.to = to
  BY DEF Spans
<1> QED BY <1>16, <1>17 DEF PutsLine

(* A text that has the patch's line for the one of the argument is the      *)
(* source with the guard around the argument.                               *)
JoinsToWrapped(text, src, arg, guard) == Joined(text) = Wrapped(src, arg, guard)

LEMMA WrappedOnce ==
    ASSUME NEW S, NL \in S, NEW guard \in S, "(" \in S, ")" \in S,
           NEW path, NEW src \in Seq(S), src = Source[path],
           NEW arg, NEW from \in Nat \ {0}, NEW to \in Nat, Spans(arg, from, to),
           from <= to, to <= Len(src) + 1, NEW L, L = Row(src, from), L = Row(src, to),
           NEW text \in Seq(Seq(S)), NEW new, new = WrapPatch(path, arg, guard).new,
           RewritesLine(text, src, L, new)
    PROVE  JoinsToWrapped(text, src, arg, guard)
<1> DEFINE p == Stop(src, L - 1)
           e == Stop(src, L)
           a == p + 1
           i == from - 1
           b == e - 1
           N == Len(src)
           call == <<guard, "(">>
           end == to - 1
           x == SubSeq(src, from, end)
           paren == <<")">>
           mid == Middle(src, guard, from, end)
           A == SubSeq(src, 1, i)
           C == SubSeq(src, to, N)
<1>1. p = Stop(src, L - 1) /\ e = Stop(src, L) /\ a = p + 1 /\ i = from - 1 /\ b = e - 1
  OBVIOUS
<1>2. N \in Nat /\ i \in Nat /\ end \in Nat /\ i <= N /\ end <= N /\ from = i + 1 /\ to = end + 1
      /\ to \in Nat \ {0}
  BY LenProperties
<1>3. call \in Seq(S) /\ paren \in Seq(S)
  OBVIOUS
<1> HIDE DEF p, e, a, i, b, end
<1>4. x \in Seq(S) /\ A \in Seq(S) /\ C \in Seq(S)
  <2>1. from <= end + 1 /\ 1 \in Nat \ {0} /\ 1 <= i + 1 /\ N <= Len(src)
    BY <1>2
  <2>2. x \in Seq(S)
    BY <1>2, <2>1, SubSeqFacts
  <2>3. A \in Seq(S)
    BY <1>2, <2>1, SubSeqFacts
  <2>4. C \in Seq(S)
    <3>1. to <= N + 1
      OBVIOUS
    <3> HIDE DEF N
    <3> QED BY <1>2, <2>1, <3>1, SubSeqFacts
  <2> QED BY <2>2, <2>3, <2>4
<1> HIDE DEF x, A, C, call, paren
<1>5. mid = (call \o x) \o paren /\ mid \in Seq(S)
  <2>1. mid = (call \o x) \o paren
    BY DEF Middle, call, x, paren
  <2>2. call \o x \in Seq(S)
    BY <1>3, <1>4, ConcatProperties
  <2>3. (call \o x) \o paren \in Seq(S)
    BY <1>3, <2>2, ConcatProperties
  <2> QED BY <2>1, <2>3
<1>6. L \in 1..RowCount(src) /\ p < from /\ to <= e
  <2>1. LiesIn(src, from, to, L, p, e)
    BY <1>1, RowPlace
  <2> QED BY <2>1 DEF LiesIn
<1>7. new = SubSeq(src, a, i) \o (mid \o SubSeq(src, to, b))
  <2>1. PutsLine(path, arg, guard, src, a, i, b)
    BY <1>1, NewLine
  <2>2. arg.from = from /\ arg.to = to
    BY DEF Spans
  <2> QED BY <2>1, <2>2 DEF PutsLine, end
<1> HIDE DEF mid, N
<1>8. RewritesLine(text, src, L, SubSeq(src, a, i) \o (mid \o SubSeq(src, to, b)))
  BY <1>7
<1>9. JoinsTo(text, src, i, mid, to)
  BY <1>1, <1>5, <1>6, <1>8, JoinedLines
<1>10. Joined(text) = A \o (mid \o C)
  BY <1>9 DEF JoinsTo, A, C, N
<1>11. Regroups(A, call, x, paren, C)
  BY <1>3, <1>4, ConcatRegroups
<1>12. (((A \o call) \o x) \o paren) \o C = A \o (mid \o C)
  BY <1>5, <1>11 DEF Regroups
<1>13. Wrapped(src, arg, guard) = (((A \o call) \o x) \o paren) \o C
  <2>1. arg.from = from /\ arg.to = to
    BY DEF Spans
  <2>2. Wrapped(src, arg, guard) =
            (((SubSeq(src, 1, from - 1) \o <<guard, "(">>) \o SubSeq(src, from, to - 1)) \o <<")">>)
                \o SubSeq(src, to, Len(src))
    BY <2>1 DEF Wrapped
  <2> QED BY <2>2 DEF A, call, x, paren, C, i, end, N
<1> QED BY <1>10, <1>12, <1>13 DEF JoinsToWrapped

(* The lines of a source are as many as its rows. *)
LEMMA LinesTyped ==
    ASSUME NEW S, NEW src \in Seq(S)
    PROVE  /\ Len(Lines(src)) = RowCount(src) /\ DOMAIN Lines(src) = 1..RowCount(src)
           /\ \A l \in 1..RowCount(src) : Lines(src)[l] = LineAt(src, l)
<1> DEFINE M == RowCount(src)
           made == [l \in 1..M |-> LineAt(src, l)]
<1>1. M \in Nat
  <2> DEFINE f == Len(src) + 1
  <2>1. f \in Nat
    BY LenProperties
  <2> HIDE DEF f
  <2>2. Row(src, f) \in Nat
    BY <2>1, RowFacts
  <2> QED BY <2>2 DEF RowCount, f
<1>2. Lines(src) = made
  BY DEF Lines, RowCount
<1> HIDE DEF M
<1>3. DOMAIN made = 1..M /\ \A l \in 1..M : made[l] = LineAt(src, l)
  OBVIOUS
<1>4. made \in Seq({LineAt(src, l) : l \in 1..M}) /\ Len(made) = M
  <2> DEFINE T == {LineAt(src, l) : l \in 1..M}
  <2>1. made \in [1..M -> T]
    OBVIOUS
  <2> HIDE DEF made, T
  <2>2. made \in Seq(T) /\ Len(made) = M
    BY <1>1, <2>1, FunctionIsSeq
  <2> QED BY <2>2 DEF T
<1> HIDE DEF made
<1> QED BY <1>2, <1>3, <1>4 DEF M

-----------------------------------------------------------------------------
(* Without failures and other tools, files keep their number of lines, and  *)
(* no write has failed.                                                     *)
KeptInv ==
    /\ pc = "done" => todo = {}
    /\ ~failed /\ edits = 0 =>
           \A f \in Files : DOMAIN disk[f] = DOMAIN Snapshot[f] /\ fate[f] # "torn"

LEMMA InitKept == Init => KeptInv
BY DEF Init, KeptInv

LEMMA NextKept == IInv /\ CountInv /\ KeptInv /\ [Next]_vars => KeptInv'
<1> SUFFICES ASSUME IInv, CountInv, KeptInv, [Next]_vars PROVE KeptInv'
  OBVIOUS
<1>1. CASE \E f \in Files : ReadFile(f)
  BY <1>1 DEF ReadFile, KeptInv
<1>2. CASE \E f \in Files : FailToRead(f)
  BY <1>2 DEF FailToRead, KeptInv
<1>3. CASE \E f \in Files : OtherToolEdits(f)
  BY <1>3 DEF OtherToolEdits, KeptInv, IInv, DiskInv, TypeOK
<1>4. CASE OutOfRange \/ FailToWrite
  BY <1>4 DEF OutOfRange, FailToWrite, KeptInv
<1>5. CASE SkipPatch \/ PatchLine
  BY <1>5 DEF SkipPatch, PatchLine, InRange, KeptInv
<1>6. CASE Finish
  BY <1>6 DEF Finish, KeptInv
<1>7. CASE UNCHANGED vars
  BY <1>7 DEF vars, KeptInv
<1>8. CASE WriteFile
  <2>1. /\ pc = "patch" /\ pc' = "next" /\ failed' = failed /\ edits' = edits
        /\ disk' = IF patched = {} THEN disk ELSE [disk EXCEPT ![file] = lines]
        /\ fate' = IF patched = {} THEN fate ELSE [fate EXCEPT ![file] = "written"]
    BY <1>8 DEF WriteFile
  <2>2. SUFFICES ASSUME ~failed, edits = 0 PROVE KeptInv'
    BY <2>1 DEF KeptInv
  <2>3. DOMAIN lines = DOMAIN Snapshot[file]
    BY <2>1, <2>2 DEF CountInv
  <2>4. /\ disk \in [Files -> Seq(Texts)] /\ fate \in [Files -> {"kept", "written", "torn"}]
        /\ \A f \in Files : DOMAIN disk[f] = DOMAIN Snapshot[f] /\ fate[f] # "torn"
    BY <2>2 DEF IInv, DiskInv, TypeOK, KeptInv
  <2>5. \A f \in Files : DOMAIN disk'[f] = DOMAIN Snapshot[f] /\ fate'[f] # "torn"
    BY <2>1, <2>3, <2>4
  <2> QED BY <2>1, <2>2, <2>5 DEF KeptInv
<1> QED BY <1>1, <1>2, <1>3, <1>4, <1>5, <1>6, <1>7, <1>8 DEF Next, Apply

(* A guard calls one function first. *)
LEMMA OneGuard ==
    ASSUME NEW guard, NEW g \in FirstGuardCall(guard) PROVE FirstGuardCall(guard) = {g}
BY Zenon DEF FirstGuardCall

(* Without comments among the arguments the policy's index means the        *)
(* argument its author counts.                                              *)
LEMMA IntendedIsNth ==
    ASSUME NEW args \in Seq(Argument), ~HasComment(args), NEW index,
           NEW arg \in NthPositionalArg(args, index)
    PROVE  arg = IntendedArg(args, index)
<1> DEFINE counted == {k \in DOMAIN args : args[k].kind # "keyword"}
           positional == {k \in DOMAIN args : args[k].kind = "positional"}
<1>1. \A k \in DOMAIN args : args[k] \in Argument
  BY SeqElement
<1>2. \A k \in DOMAIN args : args[k].kind \in {"positional", "keyword"}
  BY <1>1 DEF Argument, HasComment
<1>3. counted = positional
  BY <1>2
<1>4. arg = SelectAt(args, counted)[index + 1]
  BY DEF NthPositionalArg
<1>5. IntendedArg(args, index) = SelectAt(args, positional)[index + 1]
  BY DEF IntendedArg
<1> HIDE DEF counted, positional
<1> QED BY <1>3, <1>4, <1>5

(* An argument of a sink is among its call's arguments. *)
LEMMA ArgumentPlaced ==
    ASSUME NEW report \in Reports, NEW i \in DOMAIN report, NEW sink, sink = report[i].sink,
           sink.args # NoCall, NEW index, NEW arg \in NthPositionalArg(sink.args, index)
    PROVE  /\ sink.args \in Seq(Argument) /\ arg \in Argument
           /\ arg.from \in 1..arg.to /\ arg.to <= Len(Source[sink.path]) + 1
<1> DEFINE args == sink.args
           places == {k \in DOMAIN args : args[k].kind # "keyword"}
           counted == SelectAt(args, places)
<1>1. /\ args \in Seq(Argument)
      /\ \A k \in DOMAIN args : args[k].from \in 1..args[k].to /\ args[k].to <= Len(Source[sink.path]) + 1
  BY ArgumentsAssumption
<1> HIDE DEF args
<1>2. arg \in Argument
  <2>1. arg \in NthPositionalArg(args, index)
    BY DEF args
  <2> QED BY <1>1, <2>1, ArgumentTyped
<1>3. index + 1 \in DOMAIN counted /\ arg = counted[index + 1]
  BY DEF NthPositionalArg, args
<1>4. arg \in Range(counted)
  <2> HIDE DEF counted
  <2> QED BY <1>3 DEF Range
<1>5. PICK k \in DOMAIN args : arg = args[k]
  <2>1. Range(counted) = {args[j] : j \in places \cap 1..Len(args)}
    <3> HIDE DEF places
    <3> QED BY <1>1, SelectAtRange
  <2> HIDE DEF counted
  <2> QED BY <1>4, <2>1
<1> QED BY <1>1, <1>2, <1>5 DEF args

(* In a file with one finding, when all is done, the lines on disk are the  *)
(* source's, but for the patch's own.                                       *)
LEMMA RewrittenLine ==
    ASSUME IInv, DoneInv, KeptInv, Clean, NEW f \in Files, NEW i, PatchesOf(f) = {i},
           NEW src \in Seq(Tokens), src = Source[f]
    PROVE  /\ disk[f] \in Seq(Seq(Tokens))
           /\ RewritesLine(disk[f], src, findings[i].line, findings[i].new)
<1> DEFINE text == disk[f]
           x == findings[i]
           M == RowCount(src)
<1>1. todo = {} /\ ~failed /\ edits = 0 /\ late = {} /\ theirs = Snapshot /\ pc = "done"
      /\ DOMAIN text = DOMAIN Snapshot[f] /\ fate[f] # "torn"
  BY DEF Clean, KeptInv, IInv, MemoryInv
<1>2. Snapshot[f] = Lines(src)
  BY SourceAssumption
<1>3. /\ Len(Lines(src)) = M /\ DOMAIN Lines(src) = 1..M
      /\ \A l \in 1..M : Lines(src)[l] = LineAt(src, l)
  BY LinesTyped
<1>4. i \in PatchesOf(f)
  OBVIOUS
<1>5. text \in Seq(Texts)
  BY DEF IInv, DiskInv, TypeOK
<1>6. text \in Seq(Seq(Tokens))
  <2> HIDE DEF text
  <2> QED BY <1>5, TextsAssumption
<1>7. Len(text) = M
  <2> HIDE DEF text, M
  <2>1. DOMAIN text = 1..Len(text) /\ Len(text) \in Nat /\ DOMAIN text = DOMAIN Lines(src)
    BY <1>1, <1>2, <1>5, LenProperties
  <2>2. Snapshot[f] \in Seq(Texts)
    BY SnapshotAssumption
  <2>3. Len(Lines(src)) \in Nat /\ DOMAIN Lines(src) = 1..Len(Lines(src))
    BY <1>2, <2>2, LenProperties
  <2> QED BY <1>3, <2>1, <2>3
<1>8. text[x.line] = x.new
  <2>1. Rewritten(f, text, i)
    BY <1>1, <1>4 DEF DoneInv
  <2>2. PICK j \in PatchesOf(f) : findings[j].line = x.line /\ text[x.line] = findings[j].new
    BY <2>1 DEF Rewritten
  <2>3. j = i
    BY <2>2
  <2> QED BY <2>2, <2>3
<1>9. ASSUME NEW l \in 1..M, l # x.line PROVE text[l] = LineAt(src, l)
  <2>1. l \in DOMAIN text /\ Snapshot[f][l] = LineAt(src, l)
    BY <1>1, <1>2, <1>3
  <2>2. text[l] = Snapshot[f][l] \/ Reported(f, l, Snapshot[f][l], text[l])
    BY <1>1, <2>1 DEF IInv, DiskInv, OnlyReportedLinesChange, Stands
  <2>3. ~Reported(f, l, Snapshot[f][l], text[l])
    BY <1>9 DEF Reported
  <2> QED BY <2>1, <2>2, <2>3
<1> HIDE DEF text, x
<1> QED BY <1>6, <1>7, <1>8, <1>9 DEF RewritesLine, text, x

(* When a fix has rewritten a file with one finding, without failures or    *)
(* other tools, its tokens are the source's with the guard's call around    *)
(* the argument the policy's author counts, and nothing else moved: the     *)
(* columns renderFix and buildWrapPatch compute, the lines applyPatches     *)
(* splits and joins, for every source, report and place of the argument.    *)
THEOREM FixesWrapTheArgument == Spec => []FixWrapsTheArgument
<1>1. IInv /\ DoneInv /\ KeptInv => FixWrapsTheArgument
  <2> SUFFICES ASSUME IInv, DoneInv, KeptInv, Clean, NEW report \in Reports, NEW i \in DOMAIN report,
                      findings = Rendered(report), PatchesOf(report[i].sink.path) = {i},
                      ~HasComment(report[i].sink.args)
               PROVE  Joined(disk[report[i].sink.path]) =
                          Wrapped(Source[report[i].sink.path],
                                  IntendedArg(report[i].sink.args, report[i].policy.wrap),
                                  CHOOSE g \in FirstGuardCall(report[i].policy.guard) : TRUE)
    BY DEF FixWrapsTheArgument
  <2> DEFINE finding == report[i]
             sink == finding.sink
             path == sink.path
             src == Source[path]
             guards == FirstGuardCall(finding.policy.guard)
             x == findings[i]
             choices == Wrapping(finding)
             w == CHOOSE v \in choices : TRUE
             arg == w[1]
             guard == w[2]
             U == Tokens \cup {guard, "(", ")"}
  <2>1. i \in PatchesOf(path) /\ x # NoPatch /\ x.path = path
    BY DEF PatchesOf
  <2>2. i \in DOMAIN findings /\ x = RenderFix(finding)
    BY DEF Rendered
  <2>3. path \in Files /\ src \in Seq(Tokens)
    <3>1. findings \in Seq(Patch \cup {NoPatch})
      BY DEF IInv, DiskInv, TypeOK
    <3>2. x \in Patch
      <4>1. x \in Patch \cup {NoPatch}
        BY <2>2, <3>1, SeqElement
      <4> HIDE DEF x
      <4> QED BY <2>1, <4>1
    <3>3. path \in Files
      <4> HIDE DEF x, path
      <4> QED BY <2>1, <3>2 DEF Patch
    <3> HIDE DEF path
    <3> QED BY <3>3, SourceAssumption
  <2>4. choices # {} /\ x = WrapPatch(path, arg, guard)
    BY <2>1, <2>2 DEF RenderFix
  <2>5. w \in choices
    <3> HIDE DEF choices
    <3> QED BY <2>4
  <2>6. /\ sink.args # NoCall
        /\ w \in NthPositionalArg(sink.args, finding.policy.wrap) \X guards
        /\ arg.from < arg.to /\ Row(src, arg.from) = Row(src, arg.to)
    <3> HIDE DEF w, finding
    <3> QED BY <2>5 DEF Wrapping
  <2> HIDE DEF w
  <2>7. arg \in NthPositionalArg(sink.args, finding.policy.wrap) /\ guard \in guards
    BY <2>6
  <2>8. /\ sink.args \in Seq(Argument) /\ arg \in Argument
        /\ arg.from \in 1..arg.to /\ arg.to <= Len(src) + 1
    <3>1. sink = report[i].sink
      OBVIOUS
    <3> HIDE DEF sink, guards
    <3> QED BY <2>6, <2>7, <3>1, ArgumentPlaced
  <2>9. arg = IntendedArg(sink.args, finding.policy.wrap)
    <3>1. ~HasComment(sink.args)
      OBVIOUS
    <3> HIDE DEF sink, finding, arg
    <3> QED BY <2>7, <2>8, <3>1, IntendedIsNth
  <2>10. guard = CHOOSE g \in guards : TRUE
    <3>1. guards = {guard}
      BY <2>7, OneGuard
    <3> HIDE DEF guards
    <3> QED BY <3>1
  <2> DEFINE from == arg.from
             to == arg.to
             L == Row(src, from)
             text == disk[path]
  <2>11. /\ from \in Nat \ {0} /\ to \in Nat /\ from <= to /\ to <= Len(src) + 1 /\ Spans(arg, from, to)
         /\ L = Row(src, from) /\ L = Row(src, to)
    BY <2>6, <2>8 DEF Argument, Spans
  <2>12. x.line = L /\ x.new = WrapPatch(path, arg, guard).new
    <3>1. WrapPatch(path, arg, guard).line = L
      BY DEF WrapPatch
    <3> HIDE DEF x
    <3> QED BY <2>4, <3>1
  <2>13. text \in Seq(Seq(Tokens)) /\ RewritesLine(text, src, x.line, x.new)
    BY <2>3, RewrittenLine
  <2>14. /\ NL \in U /\ guard \in U /\ "(" \in U /\ ")" \in U /\ src \in Seq(U) /\ text \in Seq(Seq(U))
         /\ src = Source[path]
    <3>1. Tokens \subseteq U /\ guard \in U /\ "(" \in U /\ ")" \in U /\ src = Source[path]
      OBVIOUS
    <3> HIDE DEF U, src, text
    <3>2. Seq(Tokens) \subseteq Seq(U)
      BY <3>1
    <3>3. Seq(Seq(Tokens)) \subseteq Seq(Seq(U))
      BY <3>2
    <3> QED BY <2>3, <2>13, <3>1, <3>2, <3>3, SourceAssumption
  <2> HIDE DEF U, src, text, L, from, to, arg, guard, path, x
  <2>15. RewritesLine(text, src, L, x.new)
    BY <2>12, <2>13
  <2>16. JoinsToWrapped(text, src, arg, guard)
    BY <2>11, <2>12, <2>14, <2>15, WrappedOnce
  <2>17. Joined(text) = Wrapped(src, arg, guard)
    BY <2>16 DEF JoinsToWrapped
  <2> QED BY <2>9, <2>10, <2>17 DEF text, src, path
<1> QED BY <1>1, InitInv, NextInv, InitCount, NextCount, InitDone, NextDone, InitKept, NextKept,
           PTL DEF Spec
=============================================================================
