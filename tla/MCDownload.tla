------------------------------- MODULE MCDownload -------------------------------
(* An instance of ArtifactDownload for TLC. *)
EXTENDS ArtifactDownload
=============================================================================
