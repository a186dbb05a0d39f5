------------------------------ MODULE MCStream ------------------------------
(* A small instance of the stream for TLC. *)
EXTENDS Stream

CONSTANTS h1, h2, x1
=============================================================================
