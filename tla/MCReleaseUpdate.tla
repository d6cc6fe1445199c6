---------------------------- MODULE MCReleaseUpdate ----------------------------
(* Instances of ReleaseUpdate for TLC. *)
EXTENDS ReleaseUpdate, TLC

CONSTANTS u1, u2, v0, v1, v2

Symmetry == Permutations(Ids) \cup Permutations({v1, v2})
=============================================================================
