---------------------------- MODULE ApplyPatches ----------------------------
(***************************************************************************)
(* `check --apply` (internal/cli/cli.go, applyPatches): the structured     *)
(* patches of a report, written to the source files one file after the     *)
(* other, in the order of a Go map, while other tools may be editing them. *)
(***************************************************************************)
EXTENDS Naturals, Sequences, FiniteSets, Functions

CONSTANTS
    Files,        \* the source files
    Texts,        \* what a line may hold
    EditTexts,    \* the texts among them that other tools write
    Findings,     \* the reports explored: sequences of patches and NoPatch
    NoPatch,      \* a finding without a structured patch
    Snapshot,     \* file |-> its lines when the report was made
    Cuts(_),      \* what a write that fails may leave of a line
    MaxEdits      \* bounds the other tools' edits

Patch == [path : Files, line : Nat \ {0}, old : Texts, new : Texts]

ASSUME SnapshotAssumption == Snapshot \in [Files -> Seq(Texts)]
ASSUME EditTextsAssumption == EditTexts \subseteq Texts
ASSUME CutsAssumption == \A text \in Texts : Cuts(text) \subseteq Texts
ASSUME BoundAssumption == MaxEdits \in Nat
ASSUME NoPatchAssumption == NoPatch \notin Patch
(* A patch is made from a line of its file and changes it: the engine's    *)
(* only kind puts a call around a part of it.                              *)
ASSUME FindingsAssumption ==
    /\ Findings \subseteq Seq(Patch \cup {NoPatch})
    /\ \A fs \in Findings : \A x \in Range(fs) \ {NoPatch} :
           /\ x.line \in DOMAIN Snapshot[x.path]
           /\ x.old = Snapshot[x.path][x.line] /\ x.new # x.old

VARIABLES
    findings,   \* the report, read only
    disk,       \* file |-> its lines
    pc,         \* "next", "patch" or "done"
    todo,       \* the files not yet taken from the map
    file,       \* the file under way
    lines,      \* its lines in memory
    patches,    \* its patches still to do, from the last line up
    patched,    \* the lines of the file already patched
    applied,    \* patches counted as applied in the files finished
    failed,     \* whether some file failed
    code,       \* the exit code, 9 until there is one
    edits,      \* how many edits other tools have made
    theirs,     \* file |-> its lines, had only the other tools edited it
    late,       \* the <<file, line>> they changed while the file was under way
    fate        \* file |-> "kept", "written" or, when its write failed, "torn"

fileVars == <<file, lines, patches, patched>>
vars == <<findings, disk, pc, todo, fileVars, applied, failed, code, edits, theirs, late, fate>>

PatchesOf(f) == {i \in DOMAIN findings : findings[i] # NoPatch /\ findings[i].path = f}

TypeOK ==
    /\ findings \in Seq(Patch \cup {NoPatch})
    /\ disk \in [Files -> Seq(Texts)]
    /\ pc \in {"next", "patch", "done"}
    /\ todo \subseteq Files /\ file \in Files
    /\ lines \in Seq(Texts) /\ patches \in Seq(Patch)
    /\ patched \subseteq DOMAIN lines
    /\ applied \in Nat
    /\ failed \in BOOLEAN
    /\ code \in {0, 1, 9}
    /\ edits \in 0..MaxEdits
    /\ theirs \in [Files -> Seq(Texts)]
    /\ fate \in [Files -> {"kept", "written", "torn"}]

Init ==
    /\ findings \in Findings
    /\ disk = Snapshot
    /\ pc = "next"
    /\ todo = {f \in Files : PatchesOf(f) # {}}
    /\ file \in Files
    /\ lines = <<>>
    /\ patches = <<>>
    /\ patched = {}
    /\ applied = 0
    /\ failed = FALSE
    /\ code = 9
    /\ edits = 0
    /\ theirs = Snapshot
    /\ late = {}
    /\ fate = [f \in Files |-> "kept"]

-----------------------------------------------------------------------------
FirstLines(text, n) == [l \in DOMAIN text \cap 1..n |-> text[l]]

UnderWay(f) == pc = "patch" /\ file = f

(* Another tool changes a line, or drops the last one.  It reads and       *)
(* writes the file in one step, as it is on disk.                          *)
OtherToolEdits(f) ==
    /\ edits < MaxEdits
    /\ pc # "done"
    /\ \E l \in DOMAIN disk[f] :
           /\ \/ \E text \in EditTexts :
                     /\ disk[f][l] # text
                     /\ disk' = [disk EXCEPT ![f][l] = text]
                     /\ theirs' = IF l \in DOMAIN theirs[f]
                                  THEN [theirs EXCEPT ![f][l] = text]
                                  ELSE theirs
              \/ /\ l = Len(disk[f]) /\ l > 1
                 /\ disk' = [disk EXCEPT ![f] = FirstLines(@, l - 1)]
                 /\ theirs' = [theirs EXCEPT ![f] = FirstLines(@, l - 1)]
           /\ late' = IF UnderWay(f) THEN late \cup {<<f, l>>} ELSE late
    /\ edits' = edits + 1
    /\ UNCHANGED <<findings, pc, todo, fileVars, applied, failed, code, fate>>

(* Mutant of ReadFile: the lines patched in the file before are remembered. *)
ReadKeepingPatched(f) ==
    /\ pc = "next"
    /\ f \in todo
    /\ todo' = todo \ {f}
    /\ file' = f
    /\ lines' = disk[f]
    /\ \E order \in Bijection(1..Cardinality(PatchesOf(f)), PatchesOf(f)) :
           /\ \A i, j \in DOMAIN order :
                  i < j => findings[order[i]].line >= findings[order[j]].line
           /\ patches' = [i \in DOMAIN order |-> findings[order[i]]]
    /\ pc' = "patch"
    /\ UNCHANGED <<findings, disk, patched, applied, failed, code, edits, theirs, late, fate>>

(* Take a file from the map, sort its patches from the last line up (the   *)
(* sort leaves those of one line in any order) and read it.                *)
ReadFile(f) ==
    /\ pc = "next"
    /\ f \in todo
    /\ todo' = todo \ {f}
    /\ file' = f
    /\ lines' = disk[f]
    /\ \E order \in Bijection(1..Cardinality(PatchesOf(f)), PatchesOf(f)) :
           /\ \A i, j \in DOMAIN order :
                  i < j => findings[order[i]].line >= findings[order[j]].line
           /\ patches' = [i \in DOMAIN order |-> findings[order[i]]]
    /\ patched' = {}
    /\ pc' = "patch"
    /\ UNCHANGED <<findings, disk, applied, failed, code, edits, theirs, late, fate>>

FailToRead(f) ==
    /\ pc = "next"
    /\ f \in todo
    /\ todo' = todo \ {f}
    /\ failed' = TRUE
    /\ UNCHANGED <<findings, disk, pc, fileVars, applied, code, edits, theirs, late, fate>>

(* The file has become shorter: its other patches are given up. *)
OutOfRange ==
    /\ pc = "patch"
    /\ patches # <<>>
    /\ Head(patches).line \notin DOMAIN lines
    /\ failed' = TRUE
    /\ applied' = applied + Cardinality(patched)
    /\ pc' = "next"
    /\ UNCHANGED <<findings, disk, todo, fileVars, code, edits, theirs, late, fate>>

InRange == pc = "patch" /\ patches # <<>> /\ Head(patches).line \in DOMAIN lines

(* Two patches for one line, or a line that changed since the report. *)
SkipPatch ==
    /\ InRange
    /\ \/ Head(patches).line \in patched
       \/ lines[Head(patches).line] # Head(patches).old
    /\ patches' = Tail(patches)
    /\ UNCHANGED <<findings, disk, pc, todo, file, lines, patched, applied, failed, code,
                   edits, theirs, late, fate>>

(* Mutant of PatchLine: the line is not compared with the report's. *)
PatchUnchecked ==
    /\ InRange
    /\ Head(patches).line \notin patched
    /\ lines' = [lines EXCEPT ![Head(patches).line] = Head(patches).new]
    /\ patched' = patched \cup {Head(patches).line}
    /\ patches' = Tail(patches)
    /\ UNCHANGED <<findings, disk, pc, todo, file, applied, failed, code, edits, theirs, late, fate>>

PatchLine ==
    /\ InRange
    /\ Head(patches).line \notin patched
    /\ lines[Head(patches).line] = Head(patches).old
    /\ lines' = [lines EXCEPT ![Head(patches).line] = Head(patches).new]
    /\ patched' = patched \cup {Head(patches).line}
    /\ patches' = Tail(patches)
    /\ UNCHANGED <<findings, disk, pc, todo, file, applied, failed, code, edits, theirs, late, fate>>

(* Mutant of WriteFile: every patch of the file counts as applied. *)
WriteCountingAll ==
    /\ pc = "patch"
    /\ patches = <<>>
    /\ IF patched = {}
       THEN UNCHANGED <<disk, fate>>
       ELSE disk' = [disk EXCEPT ![file] = lines] /\ fate' = [fate EXCEPT ![file] = "written"]
    /\ applied' = applied + Cardinality(PatchesOf(file))
    /\ pc' = "next"
    /\ UNCHANGED <<findings, todo, fileVars, failed, code, edits, theirs, late>>

(* The lines in memory replace the file, whatever it holds by now.  A file *)
(* none of whose patches applied is not written.                           *)
WriteFile ==
    /\ pc = "patch"
    /\ patches = <<>>
    /\ IF patched = {}
       THEN UNCHANGED <<disk, fate>>
       ELSE disk' = [disk EXCEPT ![file] = lines] /\ fate' = [fate EXCEPT ![file] = "written"]
    /\ applied' = applied + Cardinality(patched)
    /\ pc' = "next"
    /\ UNCHANGED <<findings, todo, fileVars, failed, code, edits, theirs, late>>

(* The file cannot be opened for writing, or it has been truncated and the *)
(* write stops anywhere: in the first line, in another, or at the end.     *)
FailToWrite ==
    /\ pc = "patch"
    /\ patches = <<>>
    /\ patched # {}
    /\ \/ UNCHANGED <<disk, fate>>
       \/ /\ \E l \in DOMAIN lines : \E rest \in Cuts(lines[l]) :
                 disk' = [disk EXCEPT ![file] = [FirstLines(lines, l) EXCEPT ![l] = rest]]
          /\ fate' = [fate EXCEPT ![file] = "torn"]
    /\ failed' = TRUE
    /\ applied' = applied + Cardinality(patched)
    /\ pc' = "next"
    /\ UNCHANGED <<findings, todo, fileVars, code, edits, theirs, late>>

Finish ==
    /\ pc = "next"
    /\ todo = {}
    /\ code' = IF failed \/ NoPatch \in Range(findings) THEN 1 ELSE 0
    /\ pc' = "done"
    /\ UNCHANGED <<findings, disk, todo, fileVars, applied, failed, edits, theirs, late, fate>>

Apply ==
    \/ \E f \in Files : ReadFile(f) \/ FailToRead(f)
    \/ OutOfRange \/ SkipPatch \/ PatchLine
    \/ WriteFile \/ FailToWrite
    \/ Finish

Next == Apply \/ \E f \in Files : OtherToolEdits(f)

(* The command runs to its end; other tools need do nothing. *)
Spec == Init /\ [][Next]_vars /\ WF_vars(Apply)

-----------------------------------------------------------------------------
(* A patch of the report says so of line l of file f, and the line was     *)
(* what the report saw.                                                    *)
Reported(f, l, was, text) ==
    /\ was = Snapshot[f][l]
    /\ \E i \in PatchesOf(f) : findings[i].line = l /\ findings[i].new = text

(* The line is as other tools left it, or as a patch for that very line    *)
(* rewrites what they left of it.                                          *)
Stands(f, l, text) ==
    /\ l \in DOMAIN theirs[f]
    /\ text = theirs[f][l] \/ Reported(f, l, theirs[f][l], text)

(* Other tools may edit before the command reads a file, while it has it   *)
(* under way and after it wrote it.  Of all they did, what is lost is what *)
(* they did to a file while it was under way, if that file then is written *)
(* (the write replaces it whole).  All else stands, but for the reported   *)
(* lines that still were what the report saw.  A file not written is as    *)
(* they left it; one that is written loses no line; one whose write failed *)
(* holds the beginning of that, its last line perhaps cut.                 *)
OnlyReportedLinesChange ==
    \A f \in Files :
        /\ fate[f] = "kept" => disk[f] = theirs[f]
        /\ fate[f] = "written" => DOMAIN theirs[f] \subseteq DOMAIN disk[f]
        /\ \A l \in DOMAIN disk[f] :
               \/ Stands(f, l, disk[f][l])
               \/ fate[f] # "kept" /\ <<f, l>> \in late
               \/ fate[f] = "torn" /\ l = Len(disk[f])

(* The disk and the command's memory of it, at every step. *)
DiskInv == TypeOK /\ OnlyReportedLinesChange

(* The summary's count is the number of lines that changed on disk. *)
CountIsHonest ==
    pc = "done" /\ ~failed /\ edits = 0 =>
        LET places == UNION {{f} \X DOMAIN disk[f] : f \in Files}
        IN  applied = Cardinality({x \in places : disk[x[1]][x[2]] # Snapshot[x[1]][x[2]]})

(* What the comment on applyPatches says of exit code 0: every finding had *)
(* a patch and all patches were applied.                                   *)
ZeroMeansAllApplied ==
    pc = "done" /\ code = 0 => NoPatch \notin Range(findings) /\ applied = Len(findings)

=============================================================================
