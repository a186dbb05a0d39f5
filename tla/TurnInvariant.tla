--------------------------- MODULE TurnInvariant ---------------------------
(***************************************************************************)
(* The inductive invariant behind the safety properties of Turn.           *)
(*                                                                         *)
(* It says in which order a turn comes to life: nothing is staged while    *)
(* its handler opens the response, nothing is answered before it was       *)
(* published, and a marker only falls due once the handler has ended.  The *)
(* properties of Turn need that order, because a pending placeholder or a  *)
(* user's row written after the answer would undo it.                      *)
(***************************************************************************)
EXTENDS CrossPod

Ids(t) == {RequestId(t), ResponseId(t)}
Responses == {ResponseId(t) : t \in Turns}

\* The outcome of a response is in the table (perhaps deleted since).
Stored(m) == rows[m].status \notin {"absent", "pending"}

\* The batch is the last step of opening: until then no event exists.
OpeningIsUnstaged == \A t \in Turns : hpc[t] \in Opening => outbox[t] = "none"

\* Every final event answers a published request.
AnsweredWasPublished ==
    \A t \in Turns, i \in 1..Len(log) : log[i].msg \in Ids(t) => outbox[t] = "published"

\* So does every inbox entry.
InboxWasPublished == \A t \in Turns : Ids(t) \cap inbox # {} => outbox[t] = "published"

\* A response row is never the user's; markers only name responses.
ResponsesAreAssistants == \A m \in Responses : rows[m].sender # "user"
MarkersNameResponses ==
    /\ key \subseteq Responses
    /\ zset \subseteq Responses
    /\ due \subseteq Responses
    /\ \A p \in Pods : tpc[p] # "idle" => tid[p] \in due

\* What a consumer has read or written still stands when it acts on it.
WriteIsGuarded ==
    \A p \in Pods : cpc[p] = "write" => rows[Handled(p).msg].sender # "user"
ClearedIsStored ==
    \A p \in Pods : cpc[p] \in {"clearKey", "clearZset", "publish", "save"}
                        => Stored(Handled(p).msg)

TurnInv ==
    /\ OpeningIsUnstaged
    /\ AnsweredWasPublished
    /\ InboxWasPublished
    /\ ResponsesAreAssistants
    /\ MarkersNameResponses
    /\ WriteIsGuarded
    /\ ClearedIsStored
    /\ UserRowsIntact
    /\ InboxMeansAnswered

-----------------------------------------------------------------------------
(* For StagedIsProtected, when requests end before the response deadline.  *)

\* Both halves of the marker precede the batch.
StagingIsMarked ==
    \A t \in Turns :
        /\ hpc[t] \in {"zadd", "stage"} => ResponseId(t) \in key
        /\ hpc[t] = "stage" => ResponseId(t) \in zset

\* A deadline is registered by the ZADD and passes after the request ended.
DueIsEnded ==
    \A t \in Turns :
        /\ ResponseId(t) \in zset => hpc[t] \notin {"idle", "place", "set"}
        /\ ResponseId(t) \in due => hpc[t] \in Ended \ {"idle"}

\* The worker removes a marker only when the response no longer waits, when
\* the request was never accepted, or when the key had expired.
RemovedIsSettled ==
    \A p \in Pods :
        /\ tpc[p] \in {"publish", "del"} => rows[tid[p]].status # "pending"
        /\ tpc[p] = "zrem" =>
              \/ KeyMayExpire
              \/ rows[tid[p]].status # "pending"
              \/ \A t \in Turns : tid[p] = ResponseId(t) => ~Accepted(t)

ProtectionInv ==
    /\ StagingIsMarked
    /\ DueIsEnded
    /\ RemovedIsSettled
    /\ StagedIsProtected
-----------------------------------------------------------------------------
(* For ReplacedOnlyByAccepted: the row of a turn that is opened or accepted *)
(* is only deleted by a client or for the sake of an accepted turn.        *)

OpenOrAccepted(t) == hpc[t] \in Opening \cup {"replace", "ok", "lost"}

DeletedIsReplaced ==
    \A u \in Turns :
        /\ OpenOrAccepted(u)
        /\ rows[ResponseId(u)].status = "deleted"
        /\ ResponseId(u) \notin withdrawn
        => \E t \in Turns : replaces[t] = ResponseId(u) /\ Accepted(t)

-----------------------------------------------------------------------------
(* For the properties that only a crossing of two pods breaks.             *)

\* What a task has read is true when it writes, unless the row was crossed.
CheckStands ==
    /\ \A p \in Pods : cpc[p] = "write" /\ IsError(Handled(p)) =>
          Handled(p).msg \in crossed \/ ~AlreadyAnswered(Handled(p).msg)
    /\ \A p \in Pods : tpc[p] = "write" => tid[p] \in crossed \/ ~Completed(tid[p])

\* A turn chooses what it replaces once; one that was never staged has no
\* reply, and neither has one whose batch raised, when it is compensated.
TurnStarts ==
    \A t \in Turns :
        /\ hpc[t] = "idle" => replaces[t] = NoMsg
        /\ hpc[t] \in {"clearKey", "clearZset", "unplace"} => outbox[t] = "none"
        /\ outbox[t] = "none" => rows[ResponseId(t)].status # "sent"
        /\ hpc[t] = "discard" =>
              ResponseId(t) \in crossed \/ rows[ResponseId(t)].status # "sent"

\* Only ever answered with a reply, and neither deleted, replaced nor crossed.
OnlyReplied(m) ==
    /\ m \notin withdrawn \cup crossed
    /\ \A i \in 1..Len(log) : log[i].msg = m => log[i].content = "reply"
    /\ \A t \in Turns : replaces[t] # m

Replied(m) == rows[m] = [sender |-> "assistant", status |-> "sent", content |-> "reply"]

\* The reply stands from the write on.
ReplyStands ==
    /\ \A p \in Pods : /\ cpc[p] \in {"clearKey", "clearZset", "publish", "save"}
                       /\ OnlyReplied(Handled(p).msg)
                       => Replied(Handled(p).msg)
    /\ \A m \in inbox : OnlyReplied(m) => Replied(m)

CrossInv == CheckStands /\ TurnStarts /\ ReplyStands

-----------------------------------------------------------------------------
(* For what is crossed: a single pod crosses nothing.                      *)

OnePod == \A p, q \in Pods : p = q

\* A task between two Cassandra calls keeps the event loop of its pod.
LoopIsKept ==
    /\ \A p \in Pods : cpc[p] \in {"guard", "write"} => loop[p] = "consumer"
    /\ \A p \in Pods : tpc[p] = "write" => loop[p] = "timeout"
    /\ \A t \in Turns : hpc[t] \in {"replace", "discard"} => loop[hpod[t]] = "handler"
    /\ \A t, u \in Turns :
          /\ hpc[t] \in {"replace", "discard"}
          /\ hpc[u] \in {"replace", "discard"}
          /\ hpod[t] = hpod[u]
          => t = u
=============================================================================
