------------------------------- MODULE Outbox -------------------------------
(***************************************************************************)
(* The transactional outbox of one bucket: DistributedOutboxWorker and     *)
(* DistributedRetryWorker, their Redis leases, and the events they put on  *)
(* the Kafka topic.  A conversation has one bucket, and the buckets do not *)
(* interact.                                                               *)
(*                                                                         *)
(* Both classes share every method but two: the name of the lock key, and  *)
(* what process_bucket does with a young or a failed event.                *)
(***************************************************************************)
EXTENDS Naturals, FiniteSets

CONSTANTS
    Events,         \* event ids; timeuuids, so ordered
    OutboxWorkers,
    RetryWorkers,
    BatchLimit,     \* LIMIT of fetch_unpublished
    MaxFaults,      \* bound: failed calls, crashes, shutdowns and lapses
    None,           \* no lease
    Gone            \* a lease of a worker id that no longer exists

Workers == OutboxWorkers \cup RetryWorkers
Kinds == {"outbox", "retry"}
Kind(w) == IF w \in OutboxWorkers THEN "outbox" ELSE "retry"

ASSUME EventsAreOrdered == Events \subseteq Nat
ASSUME WorkersAssumption == OutboxWorkers \cap RetryWorkers = {} /\ {None, Gone} \cap Workers = {}
ASSUME NoneIsNotGone == None # Gone
ASSUME BoundsAssumption == BatchLimit \in Nat \ {0} /\ MaxFaults \in Nat

VARIABLES
    staged,     \* rows of transactional_outbox
    flagged,    \* those with published = true
    old,        \* those older than OUTBOX_STALE_THRESHOLD_SECONDS
    topic,      \* events of which the topic holds a copy
    lock,       \* per kind: the value of the bucket's lock key
    held,       \* workers with the bucket in locked_buckets
    wpc,        \* per worker: the next step
    batch,      \* per worker: fetched events it has still to process
    lapsed,     \* history: live workers that failed to renew in time
    passed,     \* history: events whose send raised in a retry worker, which
                \* then went on to the next one
    faults

vars == <<staged, flagged, old, topic, lock, held, wpc, batch, lapsed, passed, faults>>

Steps == {"idle", "fetch", "send", "mark", "release", "delete"}

TypeOK ==
    /\ staged \in SUBSET Events
    /\ flagged \in SUBSET Events
    /\ old \in SUBSET Events
    /\ topic \in SUBSET Events
    /\ lock \in [Kinds -> Workers \cup {None, Gone}]
    /\ held \in SUBSET Workers
    /\ wpc \in [Workers -> Steps]
    /\ batch \in [Workers -> SUBSET Events]
    /\ lapsed \in SUBSET Workers
    /\ passed \in SUBSET Events
    /\ faults \in Nat

Init ==
    /\ staged = {} /\ flagged = {} /\ old = {} /\ topic = {}
    /\ lock = [k \in Kinds |-> None]
    /\ held = {}
    /\ wpc = [w \in Workers |-> "idle"]
    /\ batch = [w \in Workers |-> {}]
    /\ lapsed = {}
    /\ passed = {}
    /\ faults = 0

Fault == faults < MaxFaults /\ faults' = faults + 1
NoFault == UNCHANGED faults
Goto(w, step) == wpc' = [wpc EXCEPT ![w] = step]

\* ORDER BY event_id ASC LIMIT n.
First(S, n) == {e \in S : Cardinality({d \in S : d < e}) < n}
IsNext(w, e) == e \in batch[w] /\ \A d \in batch[w] : e <= d

\* process_bucket goes on with events B; it ends when there is none.
GoOn(w, B) ==
    /\ batch' = [batch EXCEPT ![w] = B]
    /\ Goto(w, IF B = {} THEN "idle" ELSE "send")

-----------------------------------------------------------------------------
\* Mutant: the lock is taken over without NX.
AcquireAnyway(w) ==
    /\ wpc[w] = "idle"
    /\ w \notin held
    /\ lock' = [lock EXCEPT ![Kind(w)] = w]
    /\ held' = held \cup {w}
    /\ Goto(w, "fetch")
    /\ UNCHANGED <<staged, flagged, old, topic, batch, lapsed, passed, faults>>

\* acquire_lock: SET NX EX; an error is no lease, although it may be set.
Acquire(w) ==
    /\ wpc[w] = "idle"
    /\ w \notin held
    /\ lock[Kind(w)] = None
    /\ \/ /\ lock' = [lock EXCEPT ![Kind(w)] = w]
          /\ held' = held \cup {w}
          /\ Goto(w, "fetch")
          /\ NoFault
       \/ /\ lock' = [lock EXCEPT ![Kind(w)] = w]
          /\ Fault
          /\ UNCHANGED <<held, wpc>>
    /\ UNCHANGED <<staged, flagged, old, topic, batch, lapsed, passed>>

\* start: a bucket in locked_buckets is processed without asking Redis.
Enter(w) ==
    /\ wpc[w] = "idle"
    /\ w \in held
    /\ Goto(w, "fetch")
    /\ UNCHANGED <<staged, flagged, old, topic, lock, held, batch, lapsed, passed, faults>>

\* fetch_unpublished; the retry worker then skips young events.
Fetched(w) ==
    LET rows == First(staged \ flagged, BatchLimit)
    IN  IF Kind(w) = "retry" THEN rows \cap old ELSE rows

Fetch(w) ==
    /\ wpc[w] = "fetch"
    /\ \/ GoOn(w, Fetched(w)) /\ NoFault
       \/ GoOn(w, {}) /\ Fault
    /\ UNCHANGED <<staged, flagged, old, topic, lock, held, lapsed, passed>>

\* Mutant: a failed event is skipped by both.
SkipFailed(w, e) == batch[w] \ {e}

\* An event that failed: the outbox worker breaks off, the retry worker
\* continues with the next one.
AfterFailure(w, e) == IF Kind(w) = "retry" THEN batch[w] \ {e} ELSE {}

\* Mutant: an event that could not be sent is flagged all the same.
SendAndForget(w, e) ==
    /\ wpc[w] = "send"
    /\ IsNext(w, e)
    /\ Goto(w, "mark")
    /\ \/ topic' = topic \cup {e} /\ NoFault
       \/ UNCHANGED topic /\ Fault
    /\ UNCHANGED <<staged, flagged, old, lock, held, batch, lapsed, passed>>

\* kafka_producer_client.publish; it may raise although the event was sent.
Send(w, e) ==
    /\ wpc[w] = "send"
    /\ IsNext(w, e)
    /\ \/ /\ topic' = topic \cup {e}
          /\ Goto(w, "mark")
          /\ UNCHANGED <<batch, passed>>
          /\ NoFault
       \/ /\ topic' \in {topic, topic \cup {e}}
          /\ GoOn(w, AfterFailure(w, e))
          /\ passed' = IF Kind(w) = "retry" THEN passed \cup {e} ELSE passed
          /\ Fault
    /\ UNCHANGED <<staged, flagged, old, lock, held, lapsed>>

\* mark_published.
Mark(w, e) ==
    /\ wpc[w] = "mark"
    /\ IsNext(w, e)
    /\ \/ flagged' = flagged \cup {e} /\ GoOn(w, batch[w] \ {e}) /\ NoFault
       \/ flagged' \in {flagged, flagged \cup {e}} /\ GoOn(w, AfterFailure(w, e)) /\ Fault
    /\ UNCHANGED <<staged, old, topic, lock, held, lapsed, passed>>

-----------------------------------------------------------------------------
\* renew_locks: a lease that is another's by now is dropped from the list,
\* but what is being processed goes on.  EXPIRE only moves the TTL.
Renew(w) ==
    /\ w \in held
    /\ wpc[w] \notin {"release", "delete"}
    /\ lock[Kind(w)] # w
    /\ held' = held \ {w}
    /\ UNCHANGED <<staged, flagged, old, topic, lock, wpc, batch, lapsed, passed, faults>>

\* The process ends; its successor has another worker id.
End(w, k) ==
    /\ held' = held \ {w}
    /\ Goto(w, "idle")
    /\ batch' = [batch EXCEPT ![w] = {}]
    /\ lock' = IF k[Kind(w)] = w THEN [k EXCEPT ![Kind(w)] = Gone] ELSE k

\* The task is cancelled while it waits; an event may be on its way.
Stop(w) ==
    /\ wpc[w] \in {"idle", "fetch", "send"}
    /\ Fault
    /\ topic' \in {topic} \cup {topic \cup {e} : e \in {e \in batch[w] : IsNext(w, e)}}
    /\ IF w \in held
       THEN Goto(w, "release") /\ batch' = [batch EXCEPT ![w] = {}] /\ UNCHANGED <<lock, held>>
       ELSE End(w, lock)
    /\ UNCHANGED <<staged, flagged, old, lapsed, passed>>

\* release_lock: GET, and DELETE of whatever is there by then.
ReleaseGet(w) ==
    /\ wpc[w] = "release"
    /\ \/ /\ lock[Kind(w)] = w
          /\ Goto(w, "delete")
          /\ UNCHANGED <<lock, held, batch>>
          /\ NoFault
       \/ lock[Kind(w)] # w /\ End(w, lock) /\ NoFault
       \/ End(w, lock) /\ Fault
    /\ UNCHANGED <<staged, flagged, old, topic, lapsed, passed>>

ReleaseDelete(w) ==
    /\ wpc[w] = "delete"
    /\ \/ End(w, [lock EXCEPT ![Kind(w)] = None]) /\ NoFault
       \/ End(w, lock) /\ Fault
    /\ UNCHANGED <<staged, flagged, old, topic, lapsed, passed>>

Crash(w) ==
    /\ Fault
    /\ End(w, lock)
    /\ UNCHANGED <<staged, flagged, old, topic, lapsed, passed>>

-----------------------------------------------------------------------------
\* A request handler's batch; the client waits for one before the next.
Stage(e) ==
    /\ e \notin staged
    /\ \A d \in Events : d < e => d \in staged
    /\ staged' = staged \cup {e}
    /\ UNCHANGED <<flagged, old, topic, lock, held, wpc, batch, lapsed, passed, faults>>

Age(e) ==
    /\ e \in staged \ old
    /\ \A d \in staged : d < e => d \in old
    /\ old' = old \cup {e}
    /\ UNCHANGED <<staged, flagged, topic, lock, held, wpc, batch, lapsed, passed, faults>>

\* Mutant: a lease without EX.
NeverExpires(k) == FALSE /\ UNCHANGED vars

\* The TTL of a lease nobody renews, or that was not renewed in time.
LeaseExpires(k) ==
    /\ lock[k] # None
    /\ \/ lock[k] \notin held /\ UNCHANGED lapsed /\ NoFault
       \/ lock[k] \in held /\ lapsed' = lapsed \cup {lock[k]} /\ Fault
    /\ lock' = [lock EXCEPT ![k] = None]
    /\ UNCHANGED <<staged, flagged, old, topic, held, wpc, batch, passed>>

WorkerStep(w) ==
    \/ Acquire(w)
    \/ Enter(w)
    \/ Fetch(w)
    \/ \E e \in Events : Send(w, e) \/ Mark(w, e)
    \/ Renew(w)
    \/ Stop(w)
    \/ ReleaseGet(w)
    \/ ReleaseDelete(w)
    \/ Crash(w)

Next ==
    \/ \E w \in Workers : WorkerStep(w)
    \/ \E e \in Events : Stage(e) \/ Age(e)
    \/ \E k \in Kinds : LeaseExpires(k)

Spec == Init /\ [][Next]_vars

\* The workers poll for ever and Redis expires what is not renewed.
Fairness ==
    /\ \A w \in Workers : WF_vars(WorkerStep(w))
    /\ \A k \in Kinds : WF_vars(LeaseExpires(k))

FairSpec == Spec /\ Fairness

-----------------------------------------------------------------------------
\* At least once: an event flagged published, which no worker will ever
\* look at again, is on the topic, whatever raised, lapsed or crashed.
FlaggedIsSent == flagged \subseteq topic

\* The leases keep the workers of one class out of each other's way until
\* one lapses, through crashes, restarts, failed calls and releases.
Busy(w) == wpc[w] \in {"fetch", "send", "mark"}
OneOutboxWorker ==
    lapsed = {} => \A v, w \in OutboxWorkers : Busy(v) /\ Busy(w) => v = w

\* The outbox implements Relay: every staged event reaches the topic, and its
\* first copy never before that of a smaller waiting event, unless the send of
\* the smaller one raised in a retry worker, which goes on where the outbox
\* worker breaks off (retry_worker.py, outbox_worker.py).
relayed == [e \in Events |-> IF e \in topic THEN "published"
                             ELSE IF e \in passed THEN "passed"
                             ELSE IF e \in staged THEN "staged" ELSE "none"]
R == INSTANCE Relay WITH state <- relayed

InOrder == R!Spec
RelayedInOrder == R!FairSpec
=============================================================================
