------------------------------- MODULE History ------------------------------
(***************************************************************************)
(* The message history of one conversation: its rows in Cassandra, the     *)
(* Redis list conversation:{id}:last50, the readers that fill the list     *)
(* (MessageService.history), the requests that change a row and evict the  *)
(* list, and the worker that attaches summaries.  Every call to Cassandra  *)
(* or Redis is one step.                                                   *)
(***************************************************************************)
EXTENDS Naturals, Sequences, FiniteSets

CONSTANTS Readers, Writers,
          Limits,       \* page sizes that callers ask for
          MaxMessages,  \* bound: rows of messages
          MaxReads,     \* bound: reads
          MaxSummaries, \* bound: conversation.summary.generated events
          MaxFaults     \* bound: failed calls and crashes

ASSUME BoundsAssumption == /\ MaxMessages \in Nat /\ MaxReads \in Nat
                           /\ MaxSummaries \in Nat /\ MaxFaults \in Nat
ASSUME LimitsAssumption == Limits \subseteq Nat \ {0}

VARIABLES
    rows,       \* messages_by_conversation: the state of each message
    cache,      \* the list, newest first: << >> when there is no key
    ttl,        \* the list has an expiry
    reader,     \* per reader: step, limit and the page it fetched
    reads,
    wpc,        \* per writer: idle, a send with its placeholder written, or the
                \* list still to be evicted
    placed,     \* per writer: the placeholder of its open send, or 0
    spc, offset, committed, inbox,      \* the summary worker
    attached,   \* history: how often each summary was attached
    raised,     \* history: summaries whose handler raised
    raced,      \* history: a fill overlapped a change or another fill, and
                \* the list was not removed since
    abandoned,  \* history: rows that failed sends wrote, and no eviction
                \* followed, since the list was removed
    untimed,    \* history: a reader died before it set the expiry, and the
                \* list was not removed since
    faults

summaryVars == <<spc, offset, committed, inbox, attached, raised>>
writerVars == <<wpc, placed>>
raceVars == <<raced, abandoned>>
vars == <<rows, cache, ttl, reader, reads, writerVars, summaryVars, raceVars, untimed, faults>>

\* Places in the table, oldest first.  A message has a time-ordered id; a summary
\* has a random one of an older version of uuid, which Cassandra sorts below.
SummaryIds == 1..(MaxSummaries + MaxFaults)
MessageIds == (MaxSummaries + MaxFaults + 1)..(MaxSummaries + MaxFaults + MaxMessages)
Ids == SummaryIds \cup MessageIds
Item == [id : Ids, state : {"pending", "sent"}]
AtRest == [pc |-> "idle", limit |-> 1, page |-> << >>]

TypeOK ==
    /\ rows \in [Ids -> {"absent", "pending", "sent", "deleted"}]
    /\ cache \in Seq(Item)
    /\ ttl \in BOOLEAN
    /\ reader \in [Readers -> [pc : {"idle", "fetch", "del", "push", "expire"},
                               limit : Limits \cup {1}, page : Seq(Item)]]
    /\ reads \in 0..MaxReads
    /\ wpc \in [Writers -> {"idle", "open", "evict"}]
    /\ placed \in [Writers -> Ids \cup {0}]
    /\ spc \in {"idle", "attach", "evict", "save", "commit"}
    /\ offset \in 0..MaxSummaries
    /\ committed \in 0..MaxSummaries
    /\ inbox \subseteq 1..MaxSummaries
    /\ attached \in [1..MaxSummaries -> Nat]
    /\ raised \subseteq 1..MaxSummaries
    /\ raced \in BOOLEAN
    /\ abandoned \subseteq Ids
    /\ untimed \in BOOLEAN
    /\ faults \in 0..MaxFaults

Init ==
    /\ \E first \in {"absent", "sent"} :
         rows = [i \in Ids |-> IF i = MaxSummaries + MaxFaults + 1 THEN first ELSE "absent"]
    /\ cache = << >>
    /\ ttl = FALSE
    /\ reader = [r \in Readers |-> AtRest]
    /\ reads = 0
    /\ wpc = [w \in Writers |-> "idle"]
    /\ placed = [w \in Writers |-> 0]
    /\ spc = "idle"
    /\ offset = 0
    /\ committed = 0
    /\ inbox = {}
    /\ attached = [n \in 1..MaxSummaries |-> 0]
    /\ raised = {}
    /\ raced = FALSE
    /\ abandoned = {}
    /\ untimed = FALSE
    /\ faults = 0

Fault == faults < MaxFaults /\ faults' = faults + 1

\* How many of the places S are newer than i.
Newer(i, S) == Cardinality({j \in S : j > i})

\* SELECT ... LIMIT on the rows f, newest first; the deleted rows it returned
\* are dropped.
PageOf(f, limit) ==
    LET existing == {i \in Ids : f[i] # "absent"}
        shown == {i \in existing : Newer(i, existing) < limit /\ f[i] # "deleted"}
        Nth(k) == CHOOSE i \in shown : Newer(i, shown) = k - 1
    IN [k \in 1..Cardinality(shown) |-> [id |-> Nth(k), state |-> f[Nth(k)]]]

\* A reader between its SELECT and the end of its RPUSH.
Filling(r) == reader[r].pc \in {"del", "push"}
AnyFilling == \E r \in Readers : Filling(r)

\* The list is removed, and with it what a race left in it, unless a fill is
\* under way.
Drop == /\ cache' = << >>
        /\ ttl' = FALSE
        /\ raced' = AnyFilling
        /\ abandoned' = {}
        /\ untimed' = FALSE

-----------------------------------------------------------------------------
(***************************************************************************)
(* MessageService.history without a cursor.  (A page with a cursor goes to *)
(* the table and leaves the list alone.)                                   *)
(***************************************************************************)
\* LRANGE 0 limit-1: a key that exists is a hit, which changes nothing; a Redis
\* error is a miss.
Read(r) ==
    \E n \in Limits :
        /\ reader[r].pc = "idle"
        /\ reads < MaxReads
        /\ reads' = reads + 1
        /\ IF cache = << >> THEN UNCHANGED faults ELSE Fault
        /\ reader' = [reader EXCEPT ![r] = [pc |-> "fetch", limit |-> n, page |-> << >>]]
        /\ UNCHANGED <<rows, cache, ttl, writerVars, summaryVars, raceVars, untimed>>

Fetch(r) ==
    LET page == PageOf(rows, reader[r].limit) IN
    /\ reader[r].pc = "fetch"
    /\ reader' = [reader EXCEPT ![r] = IF page = << >> THEN AtRest
                                       ELSE [@ EXCEPT !.pc = "del", !.page = page]]
    /\ raced' = (raced \/ (page # << >> /\ AnyFilling))
    /\ UNCHANGED <<rows, cache, ttl, reads, writerVars, summaryVars, abandoned, untimed, faults>>

\* Mutant: the list is appended to the one that is there.
KeepOld(r) ==
    /\ reader[r].pc = "del"
    /\ reader' = [reader EXCEPT ![r].pc = "push"]
    /\ UNCHANGED <<rows, cache, ttl, reads, writerVars, summaryVars, raceVars, untimed, faults>>

\* set_last_50_messages: DEL, RPUSH, EXPIRE.
Clear(r) ==
    /\ reader[r].pc = "del"
    /\ cache' = << >>
    /\ ttl' = FALSE
    /\ reader' = [reader EXCEPT ![r].pc = "push"]
    /\ abandoned' = {}
    /\ untimed' = FALSE
    /\ UNCHANGED <<rows, reads, writerVars, summaryVars, raced, faults>>

Push(r) ==
    /\ reader[r].pc = "push"
    /\ cache' = cache \o reader[r].page
    /\ reader' = [reader EXCEPT ![r] = [AtRest EXCEPT !.pc = "expire"]]
    /\ UNCHANGED <<rows, ttl, reads, writerVars, summaryVars, raceVars, untimed, faults>>

\* Mutant: no EXPIRE.
NoExpiry(r) ==
    /\ reader[r].pc = "expire"
    /\ reader' = [reader EXCEPT ![r] = AtRest]
    /\ UNCHANGED <<rows, cache, ttl, reads, writerVars, summaryVars, raceVars, untimed, faults>>

SetExpiry(r) ==
    /\ reader[r].pc = "expire"
    /\ ttl' = (cache # << >>)
    /\ reader' = [reader EXCEPT ![r] = AtRest]
    /\ UNCHANGED <<rows, cache, reads, writerVars, summaryVars, raceVars, untimed, faults>>

\* A Redis call of the fill fails (swallowed), or the reader's pod is lost.
FillStops(r) ==
    /\ reader[r].pc \in {"del", "push", "expire"}
    /\ Fault
    /\ untimed' = (untimed \/ reader[r].pc = "expire")
    /\ reader' = [reader EXCEPT ![r] = AtRest]
    /\ UNCHANGED <<rows, cache, ttl, reads, writerVars, summaryVars, raceVars>>

Expire ==
    /\ ttl
    /\ Drop
    /\ UNCHANGED <<rows, reader, reads, writerVars, summaryVars, faults>>

-----------------------------------------------------------------------------
(***************************************************************************)
(* Changes: the row first, then the list is evicted; a send writes the     *)
(* placeholder of the reply first, and a send that fails does not evict.   *)
(***************************************************************************)
Absent == {i \in Ids : rows[i] = "absent"}
Unsent == Absent \cap MessageIds
Live == {i \in Ids : rows[i] \in {"pending", "sent"}}
Opened == {placed[w] : w \in Writers}

\* _open_pending_response of send, whose user's message gets the id before the
\* placeholder's, or of regenerate.
Open(w) ==
    \E i \in Unsent :
        /\ wpc[w] = "idle"
        /\ \A j \in MessageIds : j > i => j \in Unsent
        /\ i - 1 \in Unsent => i - 2 \notin Unsent
        /\ rows' = [rows EXCEPT ![i] = "pending"]
        /\ wpc' = [wpc EXCEPT ![w] = "open"]
        /\ placed' = [placed EXCEPT ![w] = i]
        /\ raced' = (raced \/ AnyFilling)
        /\ UNCHANGED <<cache, ttl, reader, reads, summaryVars, abandoned, untimed, faults>>

\* create_with_outbox of send writes the user's message.
WithMessage(w) == [i \in Ids |-> IF i = placed[w] - 1 /\ i \in Unsent THEN "sent" ELSE rows[i]]

\* regenerate also deletes the replaced answer, or fails to.
Stage(w) ==
    /\ wpc[w] = "open"
    /\ \/ rows' = WithMessage(w)
       \/ /\ placed[w] - 1 \notin Unsent
          /\ \E i \in Live \ {placed[w]} : rows' = [rows EXCEPT ![i] = "deleted"]
    /\ wpc' = [wpc EXCEPT ![w] = "evict"]
    /\ placed' = [placed EXCEPT ![w] = 0]
    /\ raced' = (raced \/ AnyFilling)
    /\ UNCHANGED <<cache, ttl, reader, reads, summaryVars, abandoned, untimed, faults>>

\* The marker or the batch raised (the batch may be applied all the same): the
\* placeholder is deleted, or that fails too or the pod is lost.  Nothing is
\* evicted.
Compensate(w) ==
    \E f \in {rows, WithMessage(w)} :
        /\ wpc[w] = "open"
        /\ Fault
        /\ rows' \in {f, [f EXCEPT ![placed[w]] = "deleted"]}
        /\ wpc' = [wpc EXCEPT ![w] = "idle"]
        /\ placed' = [placed EXCEPT ![w] = 0]
        /\ abandoned' = abandoned \cup {i \in Ids : i = placed[w] \/ rows'[i] # rows[i]}
        /\ raced' = (raced \/ AnyFilling)
        /\ UNCHANGED <<cache, ttl, reader, reads, summaryVars, untimed>>

\* A reply filled in or failed, or a soft delete.
Changes ==
    {[rows EXCEPT ![i] = "sent"] : i \in {k \in Ids \ Opened : rows[k] = "pending"}}
    \cup {[rows EXCEPT ![i] = "deleted"] : i \in Live}

Change(w) ==
    /\ wpc[w] = "idle"
    /\ rows' \in Changes
    /\ wpc' = [wpc EXCEPT ![w] = "evict"]
    /\ raced' = (raced \/ AnyFilling)
    /\ UNCHANGED <<cache, ttl, reader, reads, placed, summaryVars, abandoned, untimed, faults>>

Evict(w) ==
    /\ wpc[w] = "evict"
    /\ wpc' = [wpc EXCEPT ![w] = "idle"]
    /\ Drop
    /\ UNCHANGED <<rows, reader, reads, placed, summaryVars, faults>>

\* delete_last_50_messages swallows a Redis error: the old list stays.
EvictFails(w) ==
    /\ wpc[w] = "evict"
    /\ Fault
    /\ wpc' = [wpc EXCEPT ![w] = "idle"]
    /\ raced' = (raced \/ cache # << >>)
    /\ UNCHANGED <<rows, cache, ttl, reader, reads, placed, summaryVars, abandoned, untimed>>

-----------------------------------------------------------------------------
(***************************************************************************)
(* The summary worker: inbox, attach_summary (a new system row under a     *)
(* fresh id, then the eviction), inbox, commit.                            *)
(***************************************************************************)
\* Mutant: the offset is committed before the summary is attached.
ConsumeAndCommit ==
    /\ spc = "idle"
    /\ offset < MaxSummaries
    /\ offset' = offset + 1
    /\ committed' = offset + 1
    /\ spc' = IF offset + 1 \in inbox THEN "commit" ELSE "attach"
    /\ UNCHANGED <<rows, cache, ttl, reader, reads, writerVars, inbox, attached, raised,
                   raceVars, untimed, faults>>

Consume ==
    /\ spc = "idle"
    /\ offset < MaxSummaries
    /\ offset' = offset + 1
    /\ spc' = IF offset + 1 \in inbox THEN "commit" ELSE "attach"
    /\ UNCHANGED <<rows, cache, ttl, reader, reads, writerVars, committed, inbox, attached, raised,
                   raceVars, untimed, faults>>

Attach ==
    /\ spc = "attach"
    /\ \E i \in Absent \cap SummaryIds : rows' = [rows EXCEPT ![i] = "sent"]
    /\ attached' = [attached EXCEPT ![offset] = @ + 1]
    /\ raced' = (raced \/ AnyFilling)
    /\ spc' = "evict"
    /\ UNCHANGED <<cache, ttl, reader, reads, writerVars, offset, committed, inbox, raised, abandoned,
                   untimed, faults>>

EvictSummary ==
    /\ spc = "evict"
    /\ Drop
    /\ spc' = "save"
    /\ UNCHANGED <<rows, reader, reads, writerVars, offset, committed, inbox, attached, raised, faults>>

\* The Redis error is swallowed here too.
EvictSummaryFails ==
    /\ spc = "evict"
    /\ Fault
    /\ raced' = (raced \/ cache # << >>)
    /\ spc' = "save"
    /\ UNCHANGED <<rows, cache, ttl, reader, reads, writerVars, offset, committed, inbox, attached, raised,
                   abandoned, untimed>>

Save ==
    /\ spc = "save"
    /\ inbox' = inbox \cup {offset}
    /\ spc' = "commit"
    /\ UNCHANGED <<rows, cache, ttl, reader, reads, writerVars, offset, committed, attached, raised,
                   raceVars, untimed, faults>>

Commit ==
    /\ spc = "commit"
    /\ committed' = offset
    /\ spc' = "idle"
    /\ UNCHANGED <<rows, cache, ttl, reader, reads, writerVars, offset, inbox, attached, raised,
                   raceVars, untimed, faults>>

\* Cassandra fails: nothing is committed, and the loop takes the next event.
WorkerRaises ==
    /\ spc \in {"attach", "save"}
    /\ Fault
    /\ spc' = "idle"
    /\ raised' = raised \cup {offset}
    /\ UNCHANGED <<rows, cache, ttl, reader, reads, writerVars, offset, committed, inbox, attached,
                   raceVars, untimed>>

\* The worker is restarted after its last commit.  A list not yet evicted
\* stays as it is.
WorkerCrashes ==
    /\ spc # "idle"
    /\ Fault
    /\ spc' = "idle"
    /\ offset' = committed
    /\ raced' = (raced \/ (spc = "evict" /\ cache # << >>))
    /\ UNCHANGED <<rows, cache, ttl, reader, reads, writerVars, committed, inbox, attached, raised,
                   abandoned, untimed>>

FillStep(r) == Fetch(r) \/ Clear(r) \/ Push(r) \/ SetExpiry(r)
SummaryStep == Consume \/ Attach \/ EvictSummary \/ Save \/ Commit

Next ==
    \/ \E r \in Readers : Read(r) \/ FillStep(r) \/ FillStops(r)
    \/ \E w \in Writers : Open(w) \/ Stage(w) \/ Compensate(w) \/ Change(w) \/ Evict(w) \/ EvictFails(w)
    \/ Expire \/ SummaryStep \/ EvictSummaryFails \/ WorkerRaises \/ WorkerCrashes

Spec == Init /\ [][Next]_vars

-----------------------------------------------------------------------------
(***************************************************************************)
(* Properties.                                                             *)
(***************************************************************************)
\* What the list may be a page of: the rows as they are, but for those of a
\* send that is under way or failed, which it may lack or show as pending.
Loose == abandoned \cup Opened
Known == {f \in [Ids -> {"absent", "pending", "sent", "deleted"}] :
             \A i \in Ids : f[i] = rows[i] \/ (i \in Loose /\ f[i] \in {"absent", "pending"})}

\* The cached list is true (cache_service.py:125-150, message_service.py:66-71,
\* 339-364): once every change has evicted it, it shows the newest messages of
\* the table as they are now, each once, unless a fill overlapped a change or
\* another fill; and the next removal of the list ends that too.  A send that
\* fails after its placeholder evicts nothing (message_service.py:207-210,
\* 284-292): only the rows it wrote may then be wrong in the list, and only in
\* that they are missing or still pending.
CacheIsTrue ==
    (~raced /\ cache # << >> /\ spc # "evict" /\ \A w \in Writers : wpc[w] # "evict")
        => \E n \in Limits, f \in Known : cache = PageOf(f, n)

\* A wrong list does not stay (cache_service.py:127, 146-148): every list has an
\* expiry, or a reader is about to set it, whatever fills, evictions and
\* expiries interleave, unless a reader died between RPUSH and EXPIRE.
ListExpires == cache # << >> => ttl \/ untimed \/ \E r \in Readers : reader[r].pc = "expire"

\* A summary that the group has passed was attached (summary_worker.py:60-86),
\* whatever crash came between, unless its handler raised.
SummaryNotLost == \A n \in 1..committed : attached[n] > 0 \/ n \in raised
=============================================================================
