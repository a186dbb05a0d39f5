----------------------------- MODULE TurnStore -----------------------------
(***************************************************************************)
(* The state that the parts of a chat turn share, and the single store     *)
(* operations they perform on it.                                          *)
(*                                                                         *)
(* A turn is one accepted request for an assistant reply: a send() or a    *)
(* regenerate() of MessageService.  It owns two message ids: its request   *)
(* id (the user's row for a send, a bare correlation id for a              *)
(* regeneration) and its response id (the assistant row it will fill).     *)
(*                                                                         *)
(* Every pod runs one asyncio event loop.  Cassandra calls are synchronous *)
(* and therefore keep the loop; Redis and Kafka calls are awaited and give *)
(* it back.  loop[p] names the task that keeps the loop of pod p between   *)
(* two Cassandra calls, so that inside a pod no other task runs there,     *)
(* while the tasks of the other pods do.                                   *)
(***************************************************************************)
EXTENDS Naturals, Sequences, FiniteSets

CONSTANTS
    Turns,          \* identities of the requests
    Pods,           \* replicas of the service
    NoMsg,          \* an event without a usable response_message_id
    MaxFaults,      \* bound: failed calls, crashes and rebalances of a run
    MaxReplies,     \* bound: final events llm-service publishes in a run
    MaxDeletes,     \* bound: messages clients delete in a run
    Addressing,     \* what the response_message_id of those events may name
    KeyMayExpire,   \* the worker may be down for longer than the marker's TTL
    SlowHandlers    \* a request may take longer than the response deadline

RequestId(t) == <<"request", t>>
ResponseId(t) == <<"response", t>>
MsgId == {"request", "response"} \X Turns

ASSUME TurnsAssumption == NoMsg \notin MsgId
ASSUME PodsAssumption == Pods # {}
ASSUME BoundsAssumption == MaxFaults \in Nat /\ MaxReplies \in Nat /\ MaxDeletes \in Nat
ASSUME AddressingAssumption == Addressing \subseteq {"response", "request", "none"}
ASSUME TimingAssumption == KeyMayExpire \in BOOLEAN /\ SlowHandlers \in BOOLEAN

VARIABLES
    rows,       \* messages_by_conversation: MsgId -> Row
    outbox,     \* transactional_outbox: the request event of each turn
    inbox,      \* inbox_events: responses whose final event was handled
    key,        \* ids with a pending_response:<id> key in Redis
    zset,       \* ids in pending_response:zset
    due,        \* ids whose score in the zset is in the past
    log,        \* the chat.response.generated partition
    stream,     \* terminal events pushed to the conversation's SSE stream
    withdrawn,  \* history: ids a client asked to delete
    loop,       \* per pod: the task keeping the event loop
    faults      \* failures so far

storeVars == <<rows, outbox, inbox, key, zset, due, log, stream, withdrawn, loop, faults>>

Senders == {"absent", "user", "assistant"}
Statuses == {"absent", "pending", "sent", "failed", "deleted"}
Contents == {"", "prompt", "reply", "error"}
Row == [sender : Senders, status : Statuses, content : Contents]
NoRow == [sender |-> "absent", status |-> "absent", content |-> ""]

\* A final event: content "error" stands for status other than success.
Event == [msg : MsgId \cup {NoMsg}, content : {"", "reply", "error"}]
Terminal == [msg : MsgId, status : {"completed", "failed"}]
Tasks == {"free", "handler", "consumer", "timeout"}

StoreTypeOK ==
    /\ rows \in [MsgId -> Row]
    /\ outbox \in [Turns -> {"none", "staged", "published"}]
    /\ inbox \in SUBSET MsgId
    /\ key \in SUBSET MsgId
    /\ zset \in SUBSET MsgId
    /\ due \in SUBSET MsgId
    /\ log \in Seq(Event)
    /\ stream \in SUBSET Terminal
    /\ withdrawn \in SUBSET MsgId
    /\ loop \in [Pods -> Tasks]
    /\ faults \in Nat

StoreInit ==
    /\ rows = [m \in MsgId |-> NoRow]
    /\ outbox = [t \in Turns |-> "none"]
    /\ inbox = {}
    /\ key = {}
    /\ zset = {}
    /\ due = {}
    /\ log = <<>>
    /\ stream = {}
    /\ withdrawn = {}
    /\ loop = [p \in Pods |-> "free"]
    /\ faults = 0

-----------------------------------------------------------------------------
\* create_message_direct: an INSERT, so it also replaces an existing row.
WithRow(m, sender, status, content) ==
    [rows EXCEPT ![m] = [sender |-> sender, status |-> status, content |-> content]]

\* delete: an UPDATE of the status column alone.
WithDeleted(m) == [rows EXCEPT ![m].status = "deleted"]

\* get_message: a status outside MessageStatus ('deleted') is reported FAILED.
GetMessage(m) ==
    [rows[m] EXCEPT !.status = IF @ = "deleted" THEN "failed" ELSE @]

\* history: the rows a client can name.
Visible == {m \in MsgId : rows[m].status \notin {"absent", "deleted"}}

\* publish_token swallows every Redis error, so a terminal may be lost.
Push(m, status) == stream \cup {[msg |-> m, status |-> status]}

Free(p) == loop[p] = "free"
Keep(p, task) == loop' = [loop EXCEPT ![p] = task]
Yield(p) == Keep(p, "free")

\* A call that raises, within the bound of the run.
Fault == faults < MaxFaults /\ faults' = faults + 1
NoFault == UNCHANGED faults
=============================================================================
