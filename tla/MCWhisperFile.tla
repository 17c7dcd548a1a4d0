--------------------------- MODULE MCWhisperFile ---------------------------
(***************************************************************************)
(* Instances of WhisperFile for TLC.  One point of the first archive is 12 *)
(* seconds, one of the second 24: like the shipped 60s:1d,180s:1w, a point *)
(* takes longer than the 12 bytes it occupies, so no product overflows.    *)
(***************************************************************************)
EXTENDS WhisperFile

(* 12s:96s,24s:72s: rings of 8 and of 3 points                              *)
TwoRings == <<[tpp |-> 12, store |-> 96], [tpp |-> 24, store |-> 72]>>

(* The first ring turns twice, with gaps; 30 is not aligned.                *)
TwoTurns == {12, 24, 30, 36, 96, 108, 120, 204}

(* What the theorems about WhisperFile ask of the constants holds here.     *)
ASSUME TheoremsApply == NoOverflow /\ WholeWindows /\ Archive # {}
=============================================================================
