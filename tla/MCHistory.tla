------------------------------ MODULE MCHistory -----------------------------
(* A small instance of the message history for TLC. *)
EXTENDS History, TLC

CONSTANTS r1, r2, w1

ReaderSymmetry == Permutations(Readers)
=============================================================================
