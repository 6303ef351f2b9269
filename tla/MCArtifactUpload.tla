-------------------------- MODULE MCArtifactUpload --------------------------
(***************************************************************************)
(* Model-checking instances of ArtifactUpload.                             *)
(***************************************************************************)
EXTENDS ArtifactUpload

CONSTANTS a, b

TwoFiles == <<a, b>>
=============================================================================
