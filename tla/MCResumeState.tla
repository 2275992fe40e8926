--------------------------- MODULE MCResumeState ---------------------------
(* Small instances of ResumeState. *)
EXTENDS ResumeState

(* Two objects of the same length, and one that is all holes. *)
MCIds == {[c \in Chunks |-> 1], [c \in Chunks |-> IF c = 0 THEN 2 ELSE 1], Blank}
TwoIds == {[c \in Chunks |-> 1], [c \in Chunks |-> IF c = 0 THEN 2 ELSE 1]}
=============================================================================
