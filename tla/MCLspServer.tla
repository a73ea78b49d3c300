---------------------------- MODULE MCLspServer ----------------------------
(* LspServer on two files; a guard in either silences both. *)
EXTENDS LspServer

MCFiles == {1, 2}

(* A file may be clean, reach the sink unguarded, or hold the guard that   *)
(* every path goes through.                                                *)
MCContents == {"clean", "leak", "guard"}

MCFindings(files) ==
    [f \in MCFiles |->
        IF files[f] = "leak" /\ \A h \in MCFiles : files[h] # "guard"
        THEN {"finding"}
        ELSE {}]
=============================================================================
