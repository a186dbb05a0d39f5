------------------------------ MODULE MCExport ------------------------------
(* Instances of Export for TLC. *)
EXTENDS Export
=============================================================================
