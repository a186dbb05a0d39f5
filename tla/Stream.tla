------------------------------- MODULE Stream -------------------------------
(***************************************************************************)
(* The events of one conversation's stream, from the handlers that publish *)
(* them to the clients that follow them over SSE: publish_token appends to *)
(* the replay log (XADD, which gives the id) and then publishes on the     *)
(* Pub/Sub channel, in two calls; subscribe listens first, replays the     *)
(* log, then follows the channel.  Publishers run on different pods and    *)
(* take turns between any two calls.                                       *)
(***************************************************************************)
EXTENDS Naturals, Sequences, FiniteSets, SequencesExt

CONSTANTS Handlers,     \* consumers of chat.response.chunk, one partition
          Followers,    \* SSE clients
          MaxChunks,    \* bound: chunks of the turn
          MaxConnects,  \* bound: connections of a follower
          MaxFaults,    \* bound: failed calls, crashes, rebalances
          MaxCuts       \* bound: connections closed by client or deadline

ASSUME HandlersAssumption == Handlers # {} /\ Handlers \cap {"final", "watchdog"} = {}
ASSUME BoundsAssumption == /\ MaxChunks \in Nat /\ MaxConnects \in Nat
                           /\ MaxFaults \in Nat /\ MaxCuts \in Nat

VARIABLES
    log,        \* conversation:{id}:events: entries [id, ev] in id order
    writer,     \* publishers: step, event and id of the event in hand
    chunkOwner, next, committed,    \* the chunk partition's consumer group
    inbox,      \* chunk numbers marked as handled
    f,          \* the followers
    faults, cuts,
    top,        \* history: the highest id published on the channel
    inverted,   \* history: an event was published after one with a higher id
    dropped     \* history: a Redis call failed or a chunk was skipped

chunkVars == <<chunkOwner, next, committed, inbox>>
history == <<top, inverted, dropped>>
vars == <<log, writer, chunkVars, f, faults, cuts, history>>

\* Chunks are never final; the two terminal events carry is_final.
Chunk(n) == [kind |-> "chunk", n |-> n]
Terminal(k) == [kind |-> k, n |-> 0]
Events == [kind : {"chunk", "completed", "failed"}, n : 0..MaxChunks]
IsFinal(ev) == ev.kind # "chunk"

\* The handler of the turn's final event, and the timeout worker.
Enders == {"final", "watchdog"}
Writers == Handlers \cup Enders
Message == [id : Nat, ev : Events]
Writer == [pc : {"idle", "append", "publish", "save", "done"}, ev : Events, id : Nat]
Follower == [pc : {"off", "replay", "live", "ended"}, since : Nat, last : Nat,
             buf : Seq(Message), got : Seq(Message), late : BOOLEAN, known : Nat,
             told : BOOLEAN, connects : 0..MaxConnects]

Quiet == [pc |-> "idle", ev |-> Chunk(0), id |-> 0]
Off == [pc |-> "off", since |-> 0, last |-> 0, buf |-> << >>, got |-> << >>,
        late |-> FALSE, known |-> 0, told |-> FALSE, connects |-> 0]

TypeOK ==
    /\ log \in Seq(Message)
    /\ writer \in [Writers -> Writer]
    /\ chunkOwner \in Handlers
    /\ next \in 1..(MaxChunks + 1)
    /\ committed \in 0..MaxChunks
    /\ inbox \subseteq 1..MaxChunks
    /\ f \in [Followers -> Follower]
    /\ faults \in 0..MaxFaults
    /\ cuts \in 0..MaxCuts
    /\ top \in Nat
    /\ inverted \in BOOLEAN
    /\ dropped \in BOOLEAN

Init ==
    /\ log = << >>
    /\ writer = [w \in Writers |-> Quiet]
    /\ chunkOwner = CHOOSE h \in Handlers : TRUE
    /\ next = 1
    /\ committed = 0
    /\ inbox = {}
    /\ f = [x \in Followers |-> Off]
    /\ faults = 0
    /\ cuts = 0
    /\ top = 0
    /\ inverted = FALSE
    /\ dropped = FALSE

Fault == faults < MaxFaults /\ faults' = faults + 1

-----------------------------------------------------------------------------
(***************************************************************************)
(* What a connection sends to its client.                                  *)
(***************************************************************************)
\* The elements of s at the positions S, in their order.
Pick(s, S) == [k \in 1..Cardinality(S) |-> s[CHOOSE i \in S : Cardinality({j \in S : j < i}) = k - 1]]

\* The positions of s in S up to the first terminal event.
UpToFinal(s, S) == {i \in S : \A j \in S : j < i => ~IsFinal(s[j].ev)}

Ends(s) == \E m \in ToSet(s) : IsFinal(m.ev)
Highest(id, s) == Max({id} \cup {m.id : m \in ToSet(s)})

\* A client that was sent the messages s, and where its connection goes on.
Sent(r, s, step) ==
    [r EXCEPT !.got = @ \o s, !.last = Highest(@, s), !.known = Highest(@, s),
              !.told = @ \/ Ends(s), !.pc = IF Ends(s) THEN "ended" ELSE step]

\* Mutant of PassedOver: ids are not compared.
NothingPassedOver(last, m) == FALSE

\* An id not above the last one sent is passed over.
PassedOver(last, m) == m.id # 0 /\ m.id <= last

\* One pass of the loop over the channel's messages.
Follow(r, m) == IF PassedOver(r.last, m) THEN r ELSE Sent(r, <<m>>, "live")

(***************************************************************************)
(* publish_token.  Each of its two calls may fail; the failure is logged   *)
(* and the next call is made all the same.                                 *)
(***************************************************************************)
NextId == IF log = << >> THEN 1 ELSE Last(log).id + 1

\* Mutant of Xadd: a terminal event is logged and not published.
XaddOnly(w) ==
    /\ writer[w].pc = "append"
    /\ log' = Append(log, [id |-> NextId, ev |-> writer[w].ev])
    /\ writer' = [writer EXCEPT ![w].pc = IF w \in Enders THEN "done" ELSE "publish",
                                ![w].id = NextId]
    /\ UNCHANGED <<chunkVars, f, faults, cuts, history>>

Xadd(w) ==
    /\ writer[w].pc = "append"
    /\ \/ /\ log' = Append(log, [id |-> NextId, ev |-> writer[w].ev])
          /\ writer' = [writer EXCEPT ![w].pc = "publish", ![w].id = NextId]
          /\ UNCHANGED <<faults, dropped>>
       \/ /\ Fault
          /\ dropped' = TRUE
          /\ writer' = [writer EXCEPT ![w].pc = "publish", ![w].id = 0]
          /\ UNCHANGED log
    /\ UNCHANGED <<chunkVars, f, cuts, top, inverted>>

AfterPublish(w) == IF w \in Handlers THEN "save" ELSE "done"

\* A live client's loop takes the message; until the replay is over the
\* subscription keeps it.
Hear(r, m) == IF r.pc = "live" THEN Follow(r, m)
              ELSE IF r.pc = "replay" THEN [r EXCEPT !.buf = Append(@, m)]
              ELSE r

Publish(w) ==
    LET m == [id |-> writer[w].id, ev |-> writer[w].ev] IN
    /\ writer[w].pc = "publish"
    /\ writer' = [writer EXCEPT ![w].pc = AfterPublish(w), ![w].id = 0]
    /\ \/ /\ f' = [x \in Followers |-> Hear(f[x], m)]
          /\ top' = IF m.id > top THEN m.id ELSE top
          /\ inverted' = (inverted \/ (m.id # 0 /\ m.id < top))
          /\ UNCHANGED <<faults, dropped>>
       \/ /\ Fault
          /\ dropped' = TRUE
          /\ UNCHANGED <<f, top, inverted>>
    /\ UNCHANGED <<log, chunkVars, cuts>>

-----------------------------------------------------------------------------
(***************************************************************************)
(* chat.response.chunk: look in the inbox, publish, mark as handled and    *)
(* commit.  The partition has one owner; after a rebalance the group       *)
(* resumes at the committed offset while the old handler runs on.          *)
(***************************************************************************)
\* Mutant of Deliver: the chunk is marked as handled before it is published.
DeliverMarked(h) ==
    /\ h = chunkOwner
    /\ writer[h].pc = "idle"
    /\ next <= MaxChunks
    /\ next' = next + 1
    /\ inbox' = inbox \cup {next}
    /\ IF next \in inbox THEN committed' = next /\ UNCHANGED writer
       ELSE /\ writer' = [writer EXCEPT ![h] = [pc |-> "append", ev |-> Chunk(next), id |-> 0]]
            /\ UNCHANGED committed
    /\ UNCHANGED <<log, chunkOwner, f, faults, cuts, history>>

Deliver(h) ==
    /\ h = chunkOwner
    /\ writer[h].pc = "idle"
    /\ next <= MaxChunks
    /\ next' = next + 1
    /\ IF next \in inbox THEN committed' = next /\ UNCHANGED writer
       ELSE /\ writer' = [writer EXCEPT ![h] = [pc |-> "append", ev |-> Chunk(next), id |-> 0]]
            /\ UNCHANGED committed
    /\ UNCHANGED <<log, chunkOwner, inbox, f, faults, cuts, history>>

SaveInbox(h) ==
    /\ writer[h].pc = "save"
    /\ inbox' = inbox \cup {writer[h].ev.n}
    /\ committed' = IF h = chunkOwner THEN writer[h].ev.n ELSE committed
    /\ writer' = [writer EXCEPT ![h] = Quiet]
    /\ UNCHANGED <<log, chunkOwner, next, f, faults, cuts, history>>

\* Cassandra fails: no commit, and the loop goes on to the next offset.
HandlerRaises(h) ==
    /\ h = chunkOwner
    /\ \/ writer[h].pc = "idle" /\ next <= MaxChunks /\ next' = next + 1
       \/ writer[h].pc = "save" /\ UNCHANGED next
    /\ Fault
    /\ dropped' = TRUE
    /\ writer' = [writer EXCEPT ![h] = Quiet]
    /\ UNCHANGED <<log, chunkOwner, committed, inbox, f, cuts, top, inverted>>

Rebalance(h) ==
    /\ h # chunkOwner
    /\ writer[h].pc = "idle"
    /\ Fault
    /\ chunkOwner' = h
    /\ next' = committed + 1
    /\ UNCHANGED <<log, writer, committed, inbox, f, cuts, history>>

(***************************************************************************)
(* The terminal events, once their handlers (module Turn) get to publish:  *)
(* the answer ends the turn as completed or failed, and the timeout worker *)
(* may have given the turn up before that.                                 *)
(***************************************************************************)
Endings(w) == IF w = "final" THEN {"completed", "failed"} ELSE {"failed"}

End(w) ==
    /\ w \in Enders
    /\ writer[w].pc = "idle"
    /\ \E k \in Endings(w) :
        writer' = [writer EXCEPT ![w].pc = "append", ![w].ev = Terminal(k)]
    /\ UNCHANGED <<log, chunkVars, f, faults, cuts, history>>

-----------------------------------------------------------------------------
(***************************************************************************)
(* subscribe, with message_id: listen on the channel, replay, follow.      *)
(* since is the last id the client was given (0: none); a client that was  *)
(* told the end does not come back.  The claim stream:{id} that subscribe  *)
(* also keeps is read by no one and left out.                              *)
(* A live client takes each message as it is published: a delay in taking  *)
(* it is the same, to the client, as a later publication.                  *)
(***************************************************************************)
Logged(k) == \E i \in 1..Len(log) : log[i].ev = Terminal(k)

Listening(r) == [r EXCEPT !.pc = "replay", !.since = r.known, !.last = 0, !.got = << >>,
                          !.late = Logged("completed"), !.connects = @ + 1]

Connect(x) ==
    /\ f[x].pc = "off" /\ ~f[x].told
    /\ f[x].connects < MaxConnects
    /\ f' = [f EXCEPT ![x] = Listening(@)]
    /\ UNCHANGED <<log, writer, chunkVars, faults, cuts, history>>

\* Mutant of Retained: the timeout's failure is replayed with the answer.
RetainedAll(since) == {i \in 1..Len(log) : log[i].id > since}

\* The retained events of the turn after `since`, as positions in the log; a
\* failure of the watchdog is dropped when the real answer is there too.
Retained(since) ==
    LET rows == {i \in 1..Len(log) : log[i].id > since} IN
    IF \E i \in rows : log[i].ev.kind = "completed"
    THEN {i \in rows : log[i].ev.kind # "failed"}
    ELSE rows

\* The rows that are sent: nothing follows the first terminal event.
Rows(since) == UpToFinal(log, Retained(since))

\* Going live: the loop takes what the subscription kept meanwhile, in order,
\* but for the ids not above what was sent before or came earlier.
Kept(r) == {i \in 1..Len(r.buf) : /\ ~PassedOver(r.last, r.buf[i])
                                 /\ \A j \in 1..(i - 1) : ~PassedOver(r.buf[j].id, r.buf[i])}
Live(r) == [(IF r.pc = "live" THEN Sent(r, Pick(r.buf, UpToFinal(r.buf, Kept(r))), "live") ELSE r)
               EXCEPT !.buf = << >>]

Replay(x) ==
    /\ f[x].pc = "replay"
    /\ \/ /\ f' = [f EXCEPT ![x] = Live(Sent(@, Pick(log, Rows(@.since)), "live"))]
          /\ UNCHANGED <<faults, dropped>>
       \/ /\ Fault
          /\ dropped' = TRUE
          /\ f' = [f EXCEPT ![x] = Live([@ EXCEPT !.pc = "live"])]
    /\ UNCHANGED <<log, writer, chunkVars, cuts, top, inverted>>

\* The client remembers what it was given.
Left(r) == [r EXCEPT !.pc = "off", !.buf = << >>, !.got = << >>, !.since = 0, !.last = 0,
                     !.late = FALSE]

\* The client goes away in the middle of the replay.
ReplayCut(x) ==
    LET rows == Rows(f[x].since) IN
    /\ f[x].pc = "replay"
    /\ cuts < MaxCuts
    /\ cuts' = cuts + 1
    /\ \E n \in {0} \cup rows :
          f' = [f EXCEPT ![x] = Left(Sent(@, Pick(log, {i \in rows : i <= n}), "off"))]
    /\ UNCHANGED <<log, writer, chunkVars, faults, history>>

\* The client disconnects, its pod is lost or STREAM_MAX_CONNECTION_SECONDS
\* pass.
Cut(x) ==
    /\ f[x].pc = "live"
    /\ cuts < MaxCuts
    /\ cuts' = cuts + 1
    /\ f' = [f EXCEPT ![x] = Left(@)]
    /\ UNCHANGED <<log, writer, chunkVars, faults, history>>

-----------------------------------------------------------------------------
WriterStep(w) == Xadd(w) \/ Publish(w) \/ End(w)
HandlerStep(h) == Deliver(h) \/ SaveInbox(h)

Next ==
    \/ \E w \in Writers : WriterStep(w)
    \/ \E h \in Handlers : HandlerStep(h) \/ HandlerRaises(h) \/ Rebalance(h)
    \/ \E x \in Followers : Connect(x) \/ Replay(x) \/ ReplayCut(x) \/ Cut(x)

Spec == Init /\ [][Next]_vars

\* Every turn gets its terminal event (module Turn).
FairSpec == Spec /\ WF_vars(WriterStep("final"))

-----------------------------------------------------------------------------
(***************************************************************************)
(* Properties.                                                             *)
(***************************************************************************)
\* One connection never sends an event twice or out of order
\* (stream_service.py:160-164, 224-226): replay and live overlap, and yet the
\* ids a client following a turn is sent only grow.
InOrderOnce ==
    \A x \in Followers :
        \A i, j \in 1..Len(f[x].got) :
            i < j /\ f[x].got[i].id # 0 /\ f[x].got[j].id # 0 => f[x].got[i].id < f[x].got[j].id

\* No hole in the streamed text (stream_service.py:197-204): a client that
\* follows a turn from its start and is sent a chunk was sent all chunks
\* before it, with redelivery after a rebalance, unless a call failed or two
\* publishers overtook each other between log and channel.
NoGap ==
    \A x \in Followers : f[x].since = 0 /\ ~dropped /\ ~inverted =>
        \A i \in 1..Len(f[x].got) :
            \A n \in 1..(f[x].got[i].ev.n - 1) :
                \E j \in 1..(i - 1) : f[x].got[j].ev = Chunk(n)

\* The real outcome (stream_service.py:114-116): a client that connects to a
\* turn after its answer was logged, at an id above its own `since`, is never
\* told that the turn failed.
RealOutcome ==
    \A x \in Followers :
        f[x].late /\ ~dropped
        /\ (\A i \in 1..Len(log) : log[i].ev = Terminal("completed") => log[i].id > f[x].since)
        => \A i \in 1..Len(f[x].got) : f[x].got[i].ev.kind # "failed"

\* A client following a turn is told how it ends (stream_service.py:160-164),
\* whether it connects before, while or after the terminal event is
\* published, unless it is cut off, a call fails or two publishers overtake
\* each other between log and channel.
ToldTheEnd ==
    \A x \in Followers :
        (f[x].pc = "live" /\ ~f[x].told)
            ~> (f[x].told \/ f[x].pc # "live" \/ dropped \/ inverted)
=============================================================================
