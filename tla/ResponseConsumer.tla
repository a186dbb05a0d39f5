-------------------------- MODULE ResponseConsumer --------------------------
(***************************************************************************)
(* The Kafka consumer of chat.response.generated: start_kafka_consumer and *)
(* _handle_chat_response_generated, one consumer per pod in one group.     *)
(*                                                                         *)
(* The partition has one owner.  pos is the owner's next offset and        *)
(* committed the group's; a rebalance or restart resumes after committed.  *)
(* A handler still running on the previous owner is not interrupted.       *)
(***************************************************************************)
EXTENDS TurnStore

VARIABLES
    owner,      \* the pod the partition is assigned to
    pos,        \* the offset the owner delivers next
    committed,  \* number of offsets committed by the group
    cpc,        \* per pod: the next step of its consumer
    coff        \* per pod: the offset being handled

consumerVars == <<owner, pos, committed, cpc, coff>>

ConsumerSteps == {"idle", "guard", "write", "clearKey", "clearZset",
                  "publish", "save", "commit"}

Handled(p) == log[coff[p]]

ConsumerTypeOK ==
    /\ owner \in Pods
    /\ pos \in Nat \ {0}
    /\ committed \in Nat
    /\ cpc \in [Pods -> ConsumerSteps]
    /\ coff \in [Pods -> Nat]

\* The group never commits past what was delivered, and a busy consumer is
\* handling a delivered event; one with a response id, past the first test.
OffsetsOK ==
    /\ committed < pos /\ pos <= Len(log) + 1
    /\ \A p \in Pods : coff[p] <= Len(log) /\ (cpc[p] = "idle" <=> coff[p] = 0)
    /\ \A p \in Pods : cpc[p] \notin {"idle", "commit"} => Handled(p).msg \in MsgId

ConsumerInit ==
    /\ owner \in Pods
    /\ pos = 1
    /\ committed = 0
    /\ cpc = [p \in Pods |-> "idle"]
    /\ coff = [p \in Pods |-> 0]

IsError(e) == e.content = "error"
ConsumerGoto(p, step) == cpc' = [cpc EXCEPT ![p] = step]

Deliver(p) == coff' = [coff EXCEPT ![p] = pos]
Forget(p) == coff' = [coff EXCEPT ![p] = 0]

\* Mutant: the error is swallowed and the event still marked handled.
SwallowError(p) ==
    /\ Fault
    /\ ConsumerGoto(p, "save")
    /\ coff' = [coff EXCEPT ![p] = IF @ = 0 THEN pos ELSE @]
    /\ Yield(p)

\* The handler raised: no commit, and the loop goes on to the next offset.
GiveUp(p) ==
    /\ Fault
    /\ ConsumerGoto(p, "idle")
    /\ Forget(p)
    /\ Yield(p)

-----------------------------------------------------------------------------
\* async for msg: an event without a response id, or one already in the
\* inbox, only moves the offset.
Poll(p) ==
    /\ cpc[p] = "idle"
    /\ owner = p
    /\ Free(p)
    /\ pos <= Len(log)
    /\ pos' = pos + 1
    /\ \/ /\ log[pos].msg \in inbox \cup {NoMsg}
          /\ ConsumerGoto(p, "commit")
          /\ Deliver(p)
          /\ UNCHANGED loop
          /\ NoFault
       \/ /\ log[pos].msg \notin inbox \cup {NoMsg}
          /\ ConsumerGoto(p, "guard")
          /\ Deliver(p)
          /\ Keep(p, "consumer")
          /\ NoFault
       \/ /\ log[pos].msg # NoMsg            \* the inbox query raised
          /\ GiveUp(p)
    /\ UNCHANGED <<rows, outbox, inbox, key, zset, due, log, stream, withdrawn>>
    /\ UNCHANGED <<owner, committed>>

\* Mutant: the response id is trusted.
AlwaysWritable(m) == TRUE

\* _is_writable_assistant_row: never over a user's row.
Writable(m) == GetMessage(m).sender \in {"absent", "assistant"}

\* fail_assistant_message: a stored reply is kept, the failure is late.
AlreadyAnswered(m) ==
    /\ GetMessage(m).sender = "assistant"
    /\ GetMessage(m).status = "sent"
    /\ GetMessage(m).content # ""

\* The reads of finalize_ and fail_assistant_message.  The two reads of the
\* latter are one step: the first one only looks at the sender.
Guard(p) ==
    LET e == Handled(p) IN
    /\ cpc[p] = "guard"
    /\ \/ /\ ~Writable(e.msg)
          /\ ConsumerGoto(p, "commit")
          /\ UNCHANGED coff
          /\ Yield(p)
          /\ NoFault
       \/ /\ Writable(e.msg)
          /\ IsError(e) /\ AlreadyAnswered(e.msg)
          /\ ConsumerGoto(p, "clearKey")
          /\ UNCHANGED coff
          /\ Yield(p)
          /\ NoFault
       \/ /\ Writable(e.msg)
          /\ ~(IsError(e) /\ AlreadyAnswered(e.msg))
          /\ ConsumerGoto(p, "write")
          /\ UNCHANGED coff
          /\ UNCHANGED loop
          /\ NoFault
       \/ GiveUp(p)
    /\ UNCHANGED <<rows, outbox, inbox, key, zset, due, log, stream, withdrawn>>
    /\ UNCHANGED <<owner, pos, committed>>

\* Mutant: a late reply is dropped once the row is final.
FirstOutcomeWins(e) ==
    IF rows[e.msg].status = "failed" THEN rows
    ELSE WithRow(e.msg, "assistant", IF IsError(e) THEN "failed" ELSE "sent", e.content)

\* The INSERT of the outcome under the response id.
AnswerRows(e) ==
    WithRow(e.msg, "assistant", IF IsError(e) THEN "failed" ELSE "sent", e.content)

WriteAnswer(p) ==
    /\ cpc[p] = "write"
    /\ \/ /\ rows' = AnswerRows(Handled(p))
          /\ ConsumerGoto(p, "clearKey")
          /\ UNCHANGED coff
          /\ Yield(p)
          /\ NoFault
       \/ /\ GiveUp(p)
          /\ rows' \in {rows, AnswerRows(Handled(p))}
    /\ UNCHANGED <<outbox, inbox, key, zset, due, log, stream, withdrawn>>
    /\ UNCHANGED <<owner, pos, committed>>

\* clear_pending_response: DEL, then ZREM; an error skips the rest.
ConsumerClearKey(p) ==
    /\ cpc[p] = "clearKey"
    /\ Free(p)
    /\ \/ /\ key' = key \ {Handled(p).msg}
          /\ ConsumerGoto(p, "clearZset")
          /\ NoFault
       \/ /\ Fault
          /\ key' \in {key, key \ {Handled(p).msg}}
          /\ ConsumerGoto(p, "publish")
    /\ UNCHANGED <<rows, outbox, inbox, zset, due, log, stream, withdrawn, loop>>
    /\ UNCHANGED <<owner, pos, committed, coff>>

ConsumerClearZset(p) ==
    /\ cpc[p] = "clearZset"
    /\ Free(p)
    /\ ConsumerGoto(p, "publish")
    /\ \/ zset' = zset \ {Handled(p).msg} /\ NoFault
       \/ zset' \in {zset, zset \ {Handled(p).msg}} /\ Fault
    /\ UNCHANGED <<rows, outbox, inbox, key, due, log, stream, withdrawn, loop>>
    /\ UNCHANGED <<owner, pos, committed, coff>>

\* publish_token of the terminal event; a Redis error is swallowed.
PublishFinal(p) ==
    /\ cpc[p] = "publish"
    /\ Free(p)
    /\ ConsumerGoto(p, "save")
    /\ \/ /\ stream' = Push(Handled(p).msg,
                            IF IsError(Handled(p)) THEN "failed" ELSE "completed")
          /\ NoFault
       \/ UNCHANGED stream /\ Fault
    /\ UNCHANGED <<rows, outbox, inbox, key, zset, due, log, withdrawn, loop>>
    /\ UNCHANGED <<owner, pos, committed, coff>>

\* inbox_repo.save, last.
SaveInbox(p) ==
    /\ cpc[p] = "save"
    /\ Free(p)
    /\ \/ /\ inbox' = inbox \cup {Handled(p).msg}
          /\ ConsumerGoto(p, "commit")
          /\ UNCHANGED <<coff, loop>>
          /\ NoFault
       \/ /\ GiveUp(p)
          /\ inbox' \in {inbox, inbox \cup {Handled(p).msg}}
    /\ UNCHANGED <<rows, outbox, key, zset, due, log, stream, withdrawn>>
    /\ UNCHANGED <<owner, pos, committed>>

\* The offsets delivered so far.
Delivered == pos - 1

\* consumer.commit(): the position of the assigned partition, i.e. every
\* offset delivered so far, those whose handler raised included.
Commit(p) ==
    /\ cpc[p] = "commit"
    /\ Free(p)
    /\ ConsumerGoto(p, "idle")
    /\ Forget(p)
    /\ \/ owner = p /\ committed' = Delivered /\ NoFault
       \/ owner # p /\ UNCHANGED committed /\ NoFault
       \/ UNCHANGED committed /\ Fault
    /\ UNCHANGED <<rows, outbox, inbox, key, zset, due, log, stream, withdrawn, loop>>
    /\ UNCHANGED <<owner, pos>>

\* The group moves the partition; the new owner starts after committed.
Rebalance(p) ==
    /\ owner # p
    /\ Fault
    /\ owner' = p
    /\ pos' = committed + 1
    /\ UNCHANGED <<rows, outbox, inbox, key, zset, due, log, stream, withdrawn, loop>>
    /\ UNCHANGED <<committed, cpc, coff>>

ConsumerStep(p) ==
    \/ Poll(p)
    \/ Guard(p)
    \/ WriteAnswer(p)
    \/ ConsumerClearKey(p)
    \/ ConsumerClearZset(p)
    \/ PublishFinal(p)
    \/ SaveInbox(p)
    \/ Commit(p)
    \/ Rebalance(p)

\* A restarted consumer resumes from the committed offset.
ConsumerDies(p) ==
    /\ ConsumerGoto(p, "idle")
    /\ Forget(p)
    /\ pos' = IF owner = p THEN committed + 1 ELSE pos
    /\ UNCHANGED <<owner, committed>>
=============================================================================
