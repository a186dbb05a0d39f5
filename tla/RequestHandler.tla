--------------------------- MODULE RequestHandler ---------------------------
(***************************************************************************)
(* The request side of a turn: MessageService.send, .regenerate and        *)
(* .delete as their API handlers run them, one step per awaited call or    *)
(* Cassandra statement, with the compensations of a failed step.           *)
(***************************************************************************)
EXTENDS TurnStore

VARIABLES
    hpc,        \* per turn: the next step of its handler
    hpod,       \* per turn: the pod running it
    replaces    \* per turn: the message it regenerates, NoMsg for a send

handlerVars == <<hpc, hpod, replaces>>

HandlerSteps == {"idle", "place", "set", "zadd", "stage", "replace",
                 "clearKey", "clearZset", "unplace",
                 "discard", "discardKey", "discardZset",
                 "ok", "error", "dead", "lost"}

\* Before the LOGGED BATCH that stages the request event.
Opening == {"idle", "place", "set", "zadd", "stage"}
Ended == {"idle", "ok", "error", "dead", "lost"}

\* The request was staged: the batch returned.
Accepted(t) == hpc[t] \in {"replace", "ok", "lost"}
Live(t) == hpc[t] \notin Ended

HandlerTypeOK ==
    /\ hpc \in [Turns -> HandlerSteps]
    /\ hpod \in [Turns -> Pods]
    /\ replaces \in [Turns -> MsgId \cup {NoMsg}]

HandlerInit ==
    /\ hpc = [t \in Turns |-> "idle"]
    /\ hpod \in [Turns -> Pods]
    /\ replaces = [t \in Turns |-> NoMsg]

Goto(t, step) == hpc' = [hpc EXCEPT ![t] = step]

-----------------------------------------------------------------------------
\* POST /messages: the response id is fixed first, history is read.
BeginSend(t) ==
    /\ hpc[t] = "idle"
    /\ Free(hpod[t])
    /\ Goto(t, "place")
    /\ UNCHANGED <<hpod, replaces>>
    /\ UNCHANGED storeVars

\* POST /regenerate: the target must be in the visible history.
BeginRegenerate(t, target) ==
    /\ hpc[t] = "idle"
    /\ Free(hpod[t])
    /\ target \in Visible
    /\ Goto(t, "place")
    /\ replaces' = [replaces EXCEPT ![t] = target]
    /\ UNCHANGED hpod
    /\ UNCHANGED storeVars

\* _open_pending_response: the INSERT is outside the try, a failure (whose
\* write may still have been applied) has no compensation.
PlacePending(t) ==
    /\ hpc[t] = "place"
    /\ Free(hpod[t])
    /\ \/ /\ rows' = WithRow(ResponseId(t), "assistant", "pending", "")
          /\ Goto(t, "set")
          /\ NoFault
       \/ /\ Fault
          /\ rows' \in {rows, WithRow(ResponseId(t), "assistant", "pending", "")}
          /\ Goto(t, "error")
    /\ UNCHANGED <<outbox, inbox, key, zset, due, log, stream, withdrawn, loop>>
    /\ UNCHANGED <<hpod, replaces>>

\* _register_pending_response, the SET of the marker.
RegisterKey(t) ==
    /\ hpc[t] = "set"
    /\ Free(hpod[t])
    /\ \/ /\ key' = key \cup {ResponseId(t)}
          /\ Goto(t, "zadd")
          /\ NoFault
       \/ /\ Fault
          /\ key' \in {key, key \cup {ResponseId(t)}}
          /\ Goto(t, "clearKey")
       \/ /\ Fault                          \* no Redis client at all
          /\ UNCHANGED key
          /\ Goto(t, "unplace")
    /\ UNCHANGED <<rows, outbox, inbox, zset, due, log, stream, withdrawn, loop>>
    /\ UNCHANGED <<hpod, replaces>>

\* _register_pending_response, the ZADD of the deadline.
RegisterDeadline(t) ==
    /\ hpc[t] = "zadd"
    /\ Free(hpod[t])
    /\ \/ /\ zset' = zset \cup {ResponseId(t)}
          /\ Goto(t, "stage")
          /\ NoFault
       \/ /\ Fault
          /\ zset' \in {zset, zset \cup {ResponseId(t)}}
          /\ Goto(t, "clearKey")
    /\ UNCHANGED <<rows, outbox, inbox, key, due, log, stream, withdrawn, loop>>
    /\ UNCHANGED <<hpod, replaces>>

\* create_with_outbox: one LOGGED BATCH with the row and the outbox event.
\* A send inserts the user's row, a regeneration its pending row again.
StagedRows(t) ==
    IF replaces[t] = NoMsg
    THEN WithRow(RequestId(t), "user", "sent", "prompt")
    ELSE WithRow(ResponseId(t), "assistant", "pending", "")

\* Only an assistant answer is soft-deleted by the regeneration replacing it.
ReplacesAnswer(t) ==
    replaces[t] # NoMsg /\ rows[replaces[t]].sender = "assistant"

\* The batch.  It may raise although it was applied (a write timeout).
Stage(t) ==
    /\ hpc[t] = "stage"
    /\ Free(hpod[t])
    /\ \/ /\ rows' = StagedRows(t)
          /\ outbox' = [outbox EXCEPT ![t] = "staged"]
          /\ IF ReplacesAnswer(t)
             THEN Goto(t, "replace") /\ Keep(hpod[t], "handler")
             ELSE Goto(t, "ok") /\ UNCHANGED loop
          /\ NoFault
       \/ /\ Fault
          /\ \/ rows' = StagedRows(t) /\ outbox' = [outbox EXCEPT ![t] = "staged"]
             \/ UNCHANGED <<rows, outbox>>
          /\ Goto(t, "discard")
          /\ Keep(hpod[t], "handler")
    /\ UNCHANGED <<inbox, key, zset, due, log, stream, withdrawn>>
    /\ UNCHANGED <<hpod, replaces>>

\* regenerate: the replaced answer is soft-deleted, an error is swallowed.
Replace(t) ==
    /\ hpc[t] = "replace"
    /\ Goto(t, "ok")
    /\ Yield(hpod[t])
    /\ \/ rows' = WithDeleted(replaces[t]) /\ NoFault
       \/ rows' \in {rows, WithDeleted(replaces[t])} /\ Fault
    /\ UNCHANGED <<outbox, inbox, key, zset, due, log, stream, withdrawn>>
    /\ UNCHANGED <<hpod, replaces>>

-----------------------------------------------------------------------------
\* Mutant: the caller goes on to the batch as if registration had worked.
AfterClearGoOn(step) == IF step \in {"clearKey", "clearZset"} THEN "stage" ELSE "error"

\* clear_pending_response as the compensation of a failed registration or
\* of a failed batch: DEL, then ZREM; an error ends both.
AfterClear(step) == IF step \in {"clearKey", "clearZset"} THEN "unplace" ELSE "error"

ClearKey(t) ==
    /\ hpc[t] \in {"clearKey", "discardKey"}
    /\ Free(hpod[t])
    /\ \/ /\ key' = key \ {ResponseId(t)}
          /\ Goto(t, IF hpc[t] = "clearKey" THEN "clearZset" ELSE "discardZset")
          /\ NoFault
       \/ /\ Fault
          /\ key' \in {key, key \ {ResponseId(t)}}
          /\ Goto(t, AfterClear(hpc[t]))
    /\ UNCHANGED <<rows, outbox, inbox, zset, due, log, stream, withdrawn, loop>>
    /\ UNCHANGED <<hpod, replaces>>

ClearZset(t) ==
    /\ hpc[t] \in {"clearZset", "discardZset"}
    /\ Free(hpod[t])
    /\ Goto(t, AfterClear(hpc[t]))
    /\ \/ zset' = zset \ {ResponseId(t)} /\ NoFault
       \/ zset' \in {zset, zset \ {ResponseId(t)}} /\ Fault
    /\ UNCHANGED <<rows, outbox, inbox, key, due, log, stream, withdrawn, loop>>
    /\ UNCHANGED <<hpod, replaces>>

\* _soft_delete_placeholder: best effort, on both failure paths.
Unplace(t) ==
    /\ hpc[t] = "unplace"
    /\ Free(hpod[t])
    /\ Goto(t, "error")
    /\ \/ rows' = WithDeleted(ResponseId(t)) /\ NoFault
       \/ rows' \in {rows, WithDeleted(ResponseId(t))} /\ Fault
    /\ UNCHANGED <<outbox, inbox, key, zset, due, log, stream, withdrawn, loop>>
    /\ UNCHANGED <<hpod, replaces>>

\* Mutant: the failed regeneration also deletes what it was to replace.
DiscardReplaced(t) ==
    /\ hpc[t] = "discard"
    /\ Goto(t, "discardKey")
    /\ Yield(hpod[t])
    /\ rows' = WithDeleted(replaces[t])
    /\ UNCHANGED <<outbox, inbox, key, zset, due, log, stream, withdrawn, faults>>
    /\ UNCHANGED <<hpod, replaces>>

\* _discard_pending_response keeps the loop from the batch's exception on.
Discard(t) ==
    /\ hpc[t] = "discard"
    /\ Goto(t, "discardKey")
    /\ Yield(hpod[t])
    /\ \/ rows' = WithDeleted(ResponseId(t)) /\ NoFault
       \/ rows' \in {rows, WithDeleted(ResponseId(t))} /\ Fault
    /\ UNCHANGED <<outbox, inbox, key, zset, due, log, stream, withdrawn>>
    /\ UNCHANGED <<hpod, replaces>>

\* DELETE /messages/{id}, for an id a client has been shown (m in Visible).
DeleteMessage(p, m) ==
    /\ Free(p)
    /\ m \in Visible
    /\ Cardinality(withdrawn \cup {m}) <= MaxDeletes
    /\ rows' = WithDeleted(m)
    /\ withdrawn' = withdrawn \cup {m}
    /\ UNCHANGED <<outbox, inbox, key, zset, due, log, stream, loop, faults>>
    /\ UNCHANGED handlerVars

HandlerStep(t) ==
    \/ BeginSend(t)
    \/ \E m \in MsgId : BeginRegenerate(t, m)
    \/ PlacePending(t)
    \/ RegisterKey(t)
    \/ RegisterDeadline(t)
    \/ Stage(t)
    \/ Replace(t)
    \/ ClearKey(t)
    \/ ClearZset(t)
    \/ Unplace(t)
    \/ Discard(t)

\* The handlers of a crashed pod stop where they are, uncompensated.
HandlersDie(p) ==
    hpc' = [t \in Turns |->
              IF hpod[t] # p \/ hpc[t] \in Ended THEN hpc[t]
              ELSE IF hpc[t] = "replace" THEN "lost" ELSE "dead"]
=============================================================================
