------------------------------- MODULE Lists -------------------------------
(* A part of a sequence, in its order, by the places it takes.             *)
EXTENDS Naturals, Sequences

(* SelectSeq with the places instead of a test. *)
SelectAt(s, places) ==
    LET upTo[n \in 0..Len(s)] ==
            IF n = 0 THEN <<>>
            ELSE IF n \in places THEN Append(upTo[n - 1], s[n])
            ELSE upTo[n - 1]
    IN  upTo[Len(s)]

(* Where each element of s stands first. *)
FirstPlaces(s) == {i \in DOMAIN s : \A j \in 1..i - 1 : s[j] # s[i]}

(* What the function f makes of each element. *)
Image(f, s) == [i \in DOMAIN s |-> f[s[i]]]
=============================================================================
