--------------------------- MODULE MCConversation ---------------------------
(* A small instance of the conversation metadata for TLC: the first write    *)
(* falls into the millisecond of the branch's creation.                      *)
EXTENDS BranchContext

CONSTANTS c1, c2, c3, o1, o2

MCMs == [t \in 0..MaxClock |-> IF t <= 4 THEN t ELSE t - 1]
MCIdRank == [c \in Convs |-> CASE c = c1 -> 1 [] c = c2 -> 2 [] c = c3 -> 3]
=============================================================================
