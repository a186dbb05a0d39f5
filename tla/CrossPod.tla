------------------------------ MODULE CrossPod ------------------------------
(***************************************************************************)
(* Turn with a record of the one race its code leaves open.                *)
(*                                                                         *)
(* A consumer, a timeout worker and a failing handler each read or know a  *)
(* row and write it without a condition afterwards.  They keep the event   *)
(* loop of their pod in between, which stops the other tasks of that pod   *)
(* and nobody else: the tasks of another pod may change the row that is    *)
(* about to be written.  crossed remembers those rows; Turn itself is      *)
(* neither restricted nor extended.                                        *)
(***************************************************************************)
EXTENDS Turn

VARIABLE crossed    \* history: rows changed between a task's read and write

crossVars == <<vars, crossed>>

\* A task is about to write the row, without a condition, and the step is not
\* that write.
StillToWrite(m) ==
    \/ \E p \in Pods : cpc[p] = "write" /\ cpc'[p] = "write" /\ Handled(p).msg = m
    \/ \E p \in Pods : tpc[p] = "write" /\ tpc'[p] = "write" /\ tid[p] = m
    \/ \E t \in Turns : hpc[t] = "discard" /\ hpc'[t] = "discard" /\ ResponseId(t) = m

Crossing == {m \in MsgId : rows'[m] # rows[m] /\ StillToWrite(m)}

CrossInit == Init /\ crossed = {}
CrossNext == Next /\ crossed' = crossed \cup Crossing

CrossSpec == CrossInit /\ [][CrossNext]_crossVars
CrossFairSpec == CrossSpec /\ Fairness

-----------------------------------------------------------------------------
\* A non-empty reply that is stored is only turned into a failure, by the
\* timeout worker or by a late error event, when another pod changed the row
\* after that task had read it.
FailedOnlyWhenCrossed ==
    [][\A m \in MsgId :
         /\ rows[m].sender = "assistant"
         /\ rows[m].status = "sent"
         /\ rows[m].content # ""
         => rows'[m].status # "failed" \/ m \in crossed]_rows

\* A reply that arrives after the timeout still wins, and one that arrived
\* before is kept, whichever pods handle it: once handled, a response for
\* which llm-service only ever sent the reply holds it, unless a client
\* deleted or replaced it, or two pods crossed on its row.
HandledReplyStands ==
    \A m \in inbox \ (withdrawn \cup crossed) :
        /\ \A i \in 1..Len(log) : log[i].msg = m => log[i].content = "reply"
        /\ \A t \in Turns : replaces[t] # m
        => rows[m].status = "sent" /\ rows[m].content = "reply"
=============================================================================
