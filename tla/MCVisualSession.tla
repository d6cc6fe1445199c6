--------------------------- MODULE MCVisualSession ---------------------------
(* Small instances of VisualSession.  Two contents let a frame show again   *)
(* what an earlier one showed; with a third one a patch may hit a picture   *)
(* it does not belong to.                                                   *)
EXTENDS VisualSession, TLC

CONSTANTS a, b, c

\* Contents are interchangeable, but for the one the first frame shows.
Symmetry == Permutations(Contents \ FirstContents)
=============================================================================
