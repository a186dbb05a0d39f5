------------------------------ MODULE MCTurn -------------------------------
(* Instances of Turn for TLC. *)
EXTENDS TurnInvariant, TLC

TurnSymmetry == Permutations(Turns)
=============================================================================
