------------------------------ MODULE MCDeployment ------------------------------
(* Instances of Deployment for TLC. *)
EXTENDS Deployment, TLC

CONSTANTS d1, d2, d3, v0, v1, v2

Symmetry == Permutations(Ids) \cup Permutations({v1, v2})
=============================================================================
