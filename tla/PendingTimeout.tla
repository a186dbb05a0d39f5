--------------------------- MODULE PendingTimeout ---------------------------
(***************************************************************************)
(* The pending-response timeout worker: process_expired_pending, one       *)
(* worker per pod and no lock between them.                                *)
(***************************************************************************)
EXTENDS TurnStore

VARIABLES
    tpc,    \* per pod: the next step of its worker
    tid     \* per pod: the id being processed

timeoutVars == <<tpc, tid>>

TimeoutSteps == {"idle", "check", "write", "publish", "del", "zrem"}

TimeoutTypeOK ==
    /\ tpc \in [Pods -> TimeoutSteps]
    /\ tid \in [Pods -> MsgId \cup {NoMsg}]
    /\ \A p \in Pods : tpc[p] # "idle" => tid[p] \in MsgId

TimeoutInit ==
    /\ tpc = [p \in Pods |-> "idle"]
    /\ tid = [p \in Pods |-> NoMsg]

TimeoutGoto(p, step) == tpc' = [tpc EXCEPT ![p] = step]

\* The entry is left, done or to be retried by a later poll.
LeaveEntry(p) == TimeoutGoto(p, "idle") /\ tid' = [tid EXCEPT ![p] = NoMsg]

-----------------------------------------------------------------------------
\* Mutant: the test for the key is the wrong way round.
TakeStale(p, m) ==
    /\ tpc[p] = "idle"
    /\ Free(p)
    /\ m \in (zset \cap due) \ key
    /\ tid' = [tid EXCEPT ![p] = m]
    /\ TimeoutGoto(p, "check")
    /\ UNCHANGED storeVars

\* ZRANGEBYSCORE and the GET of one listed id.  They are one step: whoever
\* removes an id from the zset has deleted its key before, so an entry that
\* is stale by the time of the GET only leads to a ZREM of nothing.
TakeExpired(p, m) ==
    /\ tpc[p] = "idle"
    /\ Free(p)
    /\ m \in zset \cap due
    /\ tid' = [tid EXCEPT ![p] = m]
    /\ TimeoutGoto(p, IF m \in key THEN "check" ELSE "zrem")
    /\ UNCHANGED storeVars

\* Mutant: a completed reply is not recognised.
NeverCompleted(m) == FALSE

\* The row that must not be touched any more.
Completed(m) == GetMessage(m).sender = "assistant" /\ GetMessage(m).status = "sent"

\* get_message: never turn a completed reply into a failure.
CheckCompleted(p) ==
    /\ tpc[p] = "check"
    /\ Free(p)
    /\ \/ Completed(tid[p]) /\ TimeoutGoto(p, "del") /\ UNCHANGED loop
       \/ ~Completed(tid[p]) /\ TimeoutGoto(p, "write") /\ Keep(p, "timeout")
    /\ UNCHANGED <<rows, outbox, inbox, key, zset, due, log, stream, withdrawn, faults>>
    /\ UNCHANGED tid

\* create_message_direct(status="failed"), in the same slice of the loop.
WriteTimeout(p) ==
    /\ tpc[p] = "write"
    /\ rows' = WithRow(tid[p], "assistant", "failed", "error")
    /\ Yield(p)
    /\ \/ NoFault /\ TimeoutGoto(p, "publish") /\ UNCHANGED tid
       \/ Fault /\ LeaveEntry(p)            \* applied, but the call raised
    /\ UNCHANGED <<outbox, inbox, key, zset, due, log, stream, withdrawn>>

\* publish_token of the failed terminal; a Redis error is swallowed.
PublishTimeout(p) ==
    /\ tpc[p] = "publish"
    /\ Free(p)
    /\ TimeoutGoto(p, "del")
    /\ \/ stream' = Push(tid[p], "failed") /\ NoFault
       \/ UNCHANGED stream /\ Fault
    /\ UNCHANGED <<rows, outbox, inbox, key, zset, due, log, withdrawn, loop>>
    /\ UNCHANGED tid

RemoveKey(p) ==
    /\ tpc[p] = "del"
    /\ Free(p)
    /\ key' = key \ {tid[p]}
    /\ \/ NoFault /\ TimeoutGoto(p, "zrem") /\ UNCHANGED tid
       \/ Fault /\ LeaveEntry(p)
    /\ UNCHANGED <<rows, outbox, inbox, zset, due, log, stream, withdrawn, loop>>

RemoveEntry(p) ==
    /\ tpc[p] = "zrem"
    /\ Free(p)
    /\ zset' = zset \ {tid[p]}
    /\ LeaveEntry(p)
    /\ UNCHANGED <<rows, outbox, inbox, key, due, log, stream, withdrawn, loop, faults>>

\* A call raised without effect: the entry is retried by the next poll.
EntryFails(p) ==
    /\ tpc[p] \in {"check", "write", "del", "zrem"}
    /\ loop[p] = IF tpc[p] = "write" THEN "timeout" ELSE "free"
    /\ Fault
    /\ Yield(p)
    /\ LeaveEntry(p)
    /\ UNCHANGED <<rows, outbox, inbox, key, zset, due, log, stream, withdrawn>>

TimeoutStep(p) ==
    \/ \E m \in MsgId : TakeExpired(p, m)
    \/ CheckCompleted(p)
    \/ WriteTimeout(p)
    \/ PublishTimeout(p)
    \/ RemoveKey(p)
    \/ RemoveEntry(p)
    \/ EntryFails(p)

TimeoutDies(p) == LeaveEntry(p)
=============================================================================
