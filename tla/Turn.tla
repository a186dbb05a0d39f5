-------------------------------- MODULE Turn --------------------------------
(***************************************************************************)
(* A chat turn end to end: the request handlers, the outbox relay, the     *)
(* external llm-service, the response consumers and the timeout workers    *)
(* over one message store, with failing calls, crashes, rebalances and     *)
(* time.                                                                   *)
(***************************************************************************)
EXTENDS RequestHandler, ResponseConsumer, PendingTimeout

vars == <<storeVars, handlerVars, consumerVars, timeoutVars>>

TypeOK == StoreTypeOK /\ HandlerTypeOK /\ ConsumerTypeOK /\ OffsetsOK /\ TimeoutTypeOK

Init == StoreInit /\ HandlerInit /\ ConsumerInit /\ TimeoutInit

-----------------------------------------------------------------------------
\* The outbox workers put a staged event on the request topic (module Outbox
\* has their leases, retries and duplicates; llm-service drops duplicates).
Relay(t) ==
    /\ outbox[t] = "staged"
    /\ outbox' = [outbox EXCEPT ![t] = "published"]
    /\ UNCHANGED <<rows, inbox, key, zset, due, log, stream, withdrawn, loop, faults>>
    /\ UNCHANGED <<handlerVars, consumerVars, timeoutVars>>

Addressee(t, how) == IF how = "none" THEN NoMsg ELSE <<how, t>>

\* llm-service answers a request, perhaps more than once and with different
\* outcomes (it retries a job that crashed); a release before 2.1 sends no
\* response id, and a wrong one would name the request.
LlmReply(t, how, content) ==
    /\ outbox[t] = "published"
    /\ Len(log) < MaxReplies
    /\ log' = Append(log, [msg |-> Addressee(t, how), content |-> content])
    /\ UNCHANGED <<rows, outbox, inbox, key, zset, due, stream, withdrawn, loop, faults>>
    /\ UNCHANGED <<handlerVars, consumerVars, timeoutVars>>

\* PENDING_RESPONSE_TIMEOUT_SECONDS after the ZADD.
DeadlinePasses(t) ==
    /\ ResponseId(t) \in zset \ due
    /\ SlowHandlers \/ ~Live(t)
    /\ due' = due \cup {ResponseId(t)}
    /\ UNCHANGED <<rows, outbox, inbox, key, zset, log, stream, withdrawn, loop, faults>>
    /\ UNCHANGED <<handlerVars, consumerVars, timeoutVars>>

\* PENDING_RESPONSE_MARKER_GRACE_SECONDS after that, Redis drops the key.
KeyExpires(t) ==
    /\ KeyMayExpire
    /\ ResponseId(t) \in key \cap due
    /\ key' = key \ {ResponseId(t)}
    /\ UNCHANGED <<rows, outbox, inbox, zset, due, log, stream, withdrawn, loop, faults>>
    /\ UNCHANGED <<handlerVars, consumerVars, timeoutVars>>

\* A pod dies and is restarted: everything in memory is gone.
Crash(p) ==
    /\ Fault
    /\ HandlersDie(p)
    /\ ConsumerDies(p)
    /\ TimeoutDies(p)
    /\ Yield(p)
    /\ UNCHANGED <<rows, outbox, inbox, key, zset, due, log, stream, withdrawn>>
    /\ UNCHANGED <<hpod, replaces>>

Handlers ==
    \/ \E t \in Turns : HandlerStep(t)
    \/ \E p \in Pods, m \in MsgId : DeleteMessage(p, m)

Environment ==
    \/ \E t \in Turns : Relay(t) \/ DeadlinePasses(t) \/ KeyExpires(t)
    \/ \E t \in Turns, how \in Addressing, c \in {"", "reply", "error"} :
         LlmReply(t, how, c)
    \/ \E p \in Pods : Crash(p)

Next ==
    \/ Handlers /\ UNCHANGED <<consumerVars, timeoutVars>>
    \/ \E p \in Pods : ConsumerStep(p) /\ UNCHANGED <<handlerVars, timeoutVars>>
    \/ \E p \in Pods : TimeoutStep(p) /\ UNCHANGED <<handlerVars, consumerVars>>
    \/ Environment

Spec == Init /\ [][Next]_vars

\* The worker task polls for ever in every pod and time passes.  The loop of
\* a pod is given back, so the tasks that keep it go on too.
Fairness ==
    /\ \A t \in Turns : WF_vars(DeadlinePasses(t))
    /\ \A t \in Turns : WF_vars(HandlerStep(t) /\ UNCHANGED <<consumerVars, timeoutVars>>
                                /\ hpc[t] # "idle")
    /\ \A p \in Pods : WF_vars(TimeoutStep(p) /\ UNCHANGED <<handlerVars, consumerVars>>)
    /\ \A p \in Pods : WF_vars(ConsumerStep(p) /\ UNCHANGED <<handlerVars, timeoutVars>>)

FairSpec == Spec /\ Fairness

-----------------------------------------------------------------------------
\* Assistant output never replaces a user's own row, whatever response id
\* llm-service echoes (_is_writable_assistant_row is the last line of
\* defence): the row of a staged send stays the user's, with its text.
UserRowsIntact ==
    \A t \in Turns : replaces[t] = NoMsg /\ outbox[t] # "none" =>
        /\ rows[RequestId(t)].sender = "user"
        /\ rows[RequestId(t)].content = "prompt"
        /\ rows[RequestId(t)].status \in {"sent", "deleted"}

\* The inbox entry is written last: a response that later deliveries of its
\* final event skip has its outcome stored, whichever call of the handler
\* failed and wherever a pod crashed.
InboxMeansAnswered ==
    \A m \in inbox : rows[m].status \notin {"absent", "pending"}

\* send() and regenerate() fix placeholder and marker before the request can
\* be published: an accepted turn that still waits has both halves of its
\* marker, until the marker outlives its TTL.
StagedIsProtected ==
    \A t \in Turns :
        /\ Accepted(t)
        /\ rows[ResponseId(t)].status = "pending"
        /\ KeyMayExpire => ResponseId(t) \notin due
        => ResponseId(t) \in key \cap zset

\* What the timeout worker and fail_assistant_message promise ("never turn a
\* completed reply into a failure"): a non-empty reply that is stored never
\* becomes a failure.  Another pod may store it between their read and write.
CompletedNeverFailed ==
    [][\A m \in MsgId :
         /\ rows[m].sender = "assistant"
         /\ rows[m].status = "sent"
         /\ rows[m].content # ""
         => rows'[m].status # "failed"]_rows

\* A regeneration that was not staged costs the user nothing: an answer of
\* an accepted turn is only deleted by its client or by an accepted turn
\* that replaces it.
ReplacedOnlyByAccepted ==
    \A u \in Turns :
        /\ Accepted(u)
        /\ rows[ResponseId(u)].status = "deleted"
        /\ ResponseId(u) \notin withdrawn
        => \E t \in Turns : replaces[t] = ResponseId(u) /\ Accepted(t)

\* The client is never left waiting forever: an accepted turn does not stay
\* pending, whether llm-service answers or not, and although a final event
\* whose handler raised is never delivered again.
AcceptedIsAnswered ==
    \A t \in Turns :
        (Accepted(t) /\ rows[ResponseId(t)].status = "pending")
            ~> rows[ResponseId(t)].status # "pending"
=============================================================================
