------------------------------ MODULE MCUserData ----------------------------
(* A small instance of the user's documents for TLC. *)
EXTENDS UserData

CONSTANTS t1, t2, b1, m1, m2
=============================================================================
