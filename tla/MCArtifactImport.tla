-------------------------- MODULE MCArtifactImport -------------------------
(* Two requests over one import.                                         *)
EXTENDS ArtifactImport
=============================================================================
