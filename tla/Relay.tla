-------------------------------- MODULE Relay --------------------------------
(***************************************************************************)
(* What the transactional outbox promises for the events of one            *)
(* conversation: every staged event reaches the topic, an event never      *)
(* before a smaller one that is waiting, save one that was passed over     *)
(* once.  Copies after the first are not seen here.                        *)
(***************************************************************************)
EXTENDS Naturals

CONSTANT Events

VARIABLE state

Init == state = [e \in Events |-> "none"]

Stage(e) ==
    /\ state[e] = "none"
    /\ state' = [state EXCEPT ![e] = "staged"]

Pass(e) ==
    /\ state[e] = "staged"
    /\ state' = [state EXCEPT ![e] = "passed"]

Publish(e) ==
    /\ state[e] \in {"staged", "passed"}
    /\ \A d \in Events : d < e => state[d] # "staged"
    /\ state' = [state EXCEPT ![e] = "published"]

Next == \E e \in Events : Stage(e) \/ Pass(e) \/ Publish(e)

Spec == Init /\ [][Next]_state
FairSpec == Spec /\ \A e \in Events : WF_state(Publish(e))
=============================================================================
