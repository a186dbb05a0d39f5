----------------------------- MODULE MCArtifact -----------------------------
(* Instances of Artifact for TLC. *)
EXTENDS Artifact
=============================================================================
