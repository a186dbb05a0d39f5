# TLA+ verification of conversation-service

conversation-service is a FastAPI service that accepts chat messages, hands
them to an external llm-service over Kafka and stores and streams the replies.
This directory holds TLA+ models of its core, TLC configurations that check
them on small instances, and TLAPS proofs for every size.

## The system

Every pod runs one asyncio event loop with the HTTP handlers and six workers
(`app/main.py`, `lifespan`). Cassandra calls are synchronous and keep the loop;
Redis, Kafka and PostgreSQL calls are awaited and give it back. The pods share

* Cassandra (LOCAL_QUORUM, no lightweight transactions on messages): messages,
  conversations, `transactional_outbox`, `inbox_events` (7-day TTL);
* Redis: timeout markers, outbox leases, idempotency keys, history cache,
  stream log and Pub/Sub;
* Kafka: the request topic out, response, chunk and title topics in;
* PostgreSQL and an object store: preferences, artifacts, exports.

| Component | State | Operations | Hard behaviours | What makes it correct |
|---|---|---|---|---|
| Turn, request side (`MessageService.send`, `regenerate`, `delete`) | message rows, marker key and zset, outbox row | place pending row, SET, ZADD, batch, compensations | each call may fail, or be applied and still raise; crash between any two | an accepted response keeps its timeout marker; a failed regeneration costs nothing |
| Response consumer (`events/consumers.py`) | rows, inbox, offsets | poll, guard, write, clear marker, push terminal, save inbox, commit | redelivery, rebalances, duplicates with other outcomes, wrong response ids, exceptions | a handled response is stored; a stored reply stays; a prompt is never overwritten; commits cover handled events |
| Timeout worker | zset, key, rows | scan, check, fail, push, remove | no lock between pods; races the consumer; key TTL | nobody waits for ever; a completed reply is failed only when two pods cross |
| Outbox and retry workers | outbox rows, leases, `locked_buckets` | acquire, renew, release, fetch, send, mark | lapsing leases, read-then-delete, two lock keys, crash between send and mark | at least once, in order but for a failed send of a retry worker, one outbox worker per bucket |
| Idempotency | key: absent, `processing`, response | claim, read, save, evict | races of claim, read and evict, Redis errors, crash after the claim | one key, one message, one answer |
| Streaming, chunks (`StreamService`, chunk handler) | replay log, Pub/Sub | append, publish, replay, follow | publishers on several pods, replay beside live, reconnection, redelivered chunks | events once and in order, no hole, the real outcome, the end is told |
| Summary worker | inbox, offsets, summary rows | attach, evict, save inbox, commit | crash between any two | no committed summary is lost |
| History cache (`CacheService`, `MessageService.history`) | Redis list | get, fetch, del, rpush, expire, evict | stale fill after an eviction, overlapping fills, failed sends that do not evict | the list is the table's newest page, and it expires |
| Conversations, titles, catalogue | two tables and a Redis copy | create, get, rename, set title, archive, delete, list | non-transactional move of a catalogue row, stale copies, writes in one millisecond | one catalogue entry per conversation, pages list each once |
| Branches, hierarchy | parents, branch points | lineage walk, inherited history, tree, scope | ancestors that change during the walk, deleted ones | nothing later than the branch is inherited, in order; scope is the tree |
| Cleanup worker | offsets | evict, purge messages, purge rows, commit | crash between any two, racing requests | a deleted conversation is purged and stays so |
| Artifacts (`ArtifactService`, its endpoints) | PostgreSQL row with lease, object | claim, dispatch, poll, upload, adopt, retry, mark missing | lease lapses during a render, lost jobs and files, late workers | a ready row has its object and is final; every render ends |
| Exports (`ExportService`, `ExportCollector`) | PostgreSQL rows with leases, objects | create, claim, collect, upload, publish, sweep | the conversation changes, crash after the upload, sweeper beside workers | the file ends at the snapshot; ready has its object; nothing stays behind |
| Preferences, modes, notes, source edits | versioned PostgreSQL rows | read, compare-and-set, count under lock, migrate | two tabs in overlapping transactions, retries, locks | no lost update, limits hold, no deadlock |

`PROJECT.json` lists the components, the hazards with the line where each one
bites, and the lines each definition models.

## Modules

* `TurnStore`: the tables, markers, log and event loops the parts of a turn
  share, and the single store operations (`create_message_direct`, `delete`,
  `get_message`, `history`, `publish_token`).
* `RequestHandler`, `ResponseConsumer`, `PendingTimeout`: the three components
  of a turn. Each EXTENDS `TurnStore` and adds a program counter per turn or pod.
  A step is one Cassandra statement or one awaited call with the code up to the
  next one; `loop[p]` is kept between two Cassandra calls of one task and free
  at every await.
* `Turn`: their composition with the outbox relay, llm-service, time and
  crashes; the properties.
* `CrossPod`: `Turn` with one history variable, `crossed`: the rows that changed
  while a task which had read them was still to write them. It restricts
  nothing; its specification is `CrossSpec`.
* `TurnInvariant`: the inductive invariants `TurnInv`, `ProtectionInv`,
  `DeletedIsReplaced` and `CrossInv`. `TurnProofs`: theorems.
* `Relay`: what the outbox promises, as a specification. `Outbox`: the leases
  and both worker classes for one bucket; `relayed` is the refinement mapping.
* `Idempotency`: `POST /messages` under one key. `DeliveryProofs`: theorems about
  `Outbox` and `Idempotency`.
* `Artifact`, `ArtifactProofs`: the life of one animation; a worker is one call
  of `advance()`, a client one request for the media or a retry.
* `Export`, `ExportProofs`: the jobs of one conversation, with `POST /exports`,
  `process()` and `cleanup()`.
* `Conversation`: the two tables, the Redis copy, the requests, the walk up the
  ancestors and the cleanup worker. `BranchContext` EXTENDS it with what is
  derived from the tables: inherited history, tree, scope and pages, as pure
  operators that the properties compare with what a reader of the API expects, in
  every reachable state. Sorted lists are given by rank (the k-th has k - 1
  before it) and loops by recursive functions on an interval, so that proofs can
  use them. `ConversationProofs`: theorems about both.
* `Stream`, `StreamProofs`: one turn's events from the handlers that publish them
  to the clients that follow, with the chunk partition's consumer group.
* `History`, `HistoryProofs`: the table, the cached list, readers, writers and
  summary worker.
* `Session`: versioned rows, tabs and request-scoped transactions in PostgreSQL
  with READ COMMITTED and row locks. `Documents` (notes, source edits) and
  `Settings` (preferences, modes, the migration) EXTEND it; `UserData` composes
  them. `UserDataProofs`: theorems.
* `MC...`: the instances for TLC.

Some properties hold but for one race or failure that the code leaves open. A
history variable then records exactly that event (`crossed`, `lapsed`,
`passed`, `mishaps`, `lost`, `tied`, `skipped`, `raced`, `abandoned`,
`untimed`, `inverted`, `reborn`), no guard reads it, and the property says that
nothing else breaks it. The race itself is then not excluded by the code: it is listed under "Known limits" below.

Operators whose comment starts with "Mutant:" are deliberate bugs. They are
part of no specification; each replaces the definition after it to show that a
property notices.

### How the models correspond to the code

* A failing call is a disjunct with `Fault`, bounded by `MaxFaults`. A write
  that raises may have been applied (a Cassandra write timeout, a lost Redis
  answer): the model takes both.
* `Stage` is the LOGGED BATCH of `create_with_outbox`, atomic by Cassandra's
  batch log. For a regeneration it inserts the pending row a second time.
* `get_message` reports the status `deleted` as FAILED, so `Guard` and
  `CheckCompleted` go through `GetMessage` and not through the row.
* `Commit` commits the position of the partition, as `consumer.commit()` does:
  every offset delivered so far. After an exception the loop takes the next
  offset; only a rebalance or restart goes back to `committed`.
* A rebalance does not interrupt the handler running on the old owner.
* `committed = 0` is the group's committed offset when the run starts; a group
  that has never committed would start at the end of the topic instead.
* `TakeExpired` is ZRANGEBYSCORE and the GET of one entry. Whoever removes a
  zset entry has deleted the key before, so a scan result that is stale at the
  GET leads to a ZREM of nothing.
* `_invalidate_cache` swallows its errors; the cache is not part of these
  modules, its await is a point where the loop is given back.
* The outbox topic is the set of events with a copy on it: later copies are
  dropped by llm-service, which deduplicates on the request id. Events are
  staged in the order of their ids. `event_id` is drawn before the batch, so two
  sends that overlap in one conversation could be staged the other way round;
  the model is about clients that wait for their 202.
* A retry worker goes on after a failed send (`passed`); an outbox worker breaks
  off. `Relay` has the same exception: `Pass(e)` lets later events overtake `e`.
* A lease has no clock: one that nobody renews may expire at any time, one of a
  live worker may lapse as a fault (remembered in `lapsed`). A restarted worker
  has a new id, its old lease belongs to `Gone`.
* In `Idempotency` `send()` is one step that stores the message, or raises
  before or after that; `mishaps` remembers what has gone wrong but for crashes.
* In `Artifact` and `Export` a step is one transaction, one object-store call or
  one call of llm-service. `LeaseExpires` is the end of a lease nobody works
  under, `LeaseLapses` (a fault) of one that is too short for its worker.
  `_release` clears the lease without asking who holds it, and so does
  `Release`. `advance()` leaves its loop after five steps; the model
  lets it leave after any.
* `Adopt` returns `None` when the row is settled, which the callers take for
  "no object": the worker goes on and its later compare-and-set fails.
* In `Conversation` `Reread` and the batch of `update_with_outbox` are two steps:
  the batch deletes the catalogue entry of the row that was read. The Redis copy
  is what `create`, `rename` and `archive` put there, without the branch message
  where the code loses it (`Cached`).
* The clock of `Conversation` counts instants, and the tables keep what
  `datetime.now()` gives to the millisecond: `Ms` maps instants to milliseconds,
  any number to one. Rows are compared, replaced, deleted and paged by their
  millisecond. Two entries of one millisecond stand in the order of their
  conversation ids (`IdRank`). The batch of `update_with_outbox` inserts the new
  catalogue entry and deletes the one of the row it read in one statement list
  with one timestamp: when both have the same key the deletion wins, and `tied`
  remembers that the conversation has no entry.
* In `Stream` XADD gives the id and PUBLISH follows in a call of its own; a
  subscriber listens before it reads the log, drops live events at or below the
  last id it sent, and ends at the terminal event.
* In `History` a summary row has a random id of another uuid version, which
  Cassandra sorts below every time-ordered one.
* `Open`, `Stage` and `Compensate` are the request that inserts a placeholder,
  stages the batch or fails. A send that fails after its placeholder deletes it,
  or fails at that too, and evicts nothing; `abandoned` names the rows it wrote
  until the list is next removed. `EvictFails` and `EvictSummaryFails` are a
  Redis error that `delete_last_50_messages` swallows.
* In `Session` a statement sees what is committed when it runs and waits for the
  row lock of another request; `get_db` commits after the handler, and the
  commit and the answer are one step. A tab sends the version it was shown last.
* The migration is three steps: a legacy row may be saved (`updated_at` and
  version may be null there), `ReadLegacy` puts the row into a batch as
  `transform` gives it (version at least 1, a missing `updated_at` becomes
  now()), and `Upsert` is the conditional upsert and its commit.

## Runs

| Run | Instance | Distinct states | Shows |
|---|---|---|---|
| `turn_pods` | 1 turn, 2 pods, 1 fault, 2 replies | 639,000 | `InboxMeansAnswered`, `StagedIsProtected`, `HandledReplyStands`, `FailedOnlyWhenCrossed`, `AcceptedIsAnswered` |
| `turn_regenerate` | 2 turns, 1 pod, 1 fault, 1 reply with every addressing, 1 delete, expiring markers | 3.9 million | `UserRowsIntact`, `ReplacedOnlyByAccepted` |
| `turn_completed` | violation: 1 turn, 2 pods | | `CompletedNeverFailed`: a timeout worker fails a reply that a consumer on the other pod stored after the worker's check |
| `outbox` | 3 events, 2 outbox and 1 retry worker, batches of 2, 2 faults | 587,000 | `FlaggedIsSent`, `OneOutboxWorker`; the outbox implements `Relay` (`InOrder`, with fairness `RelayedInOrder`) |
| `idempotency_attempts` | 5 requests under one key, everything may fail | 49,000 | `AtMostOneMessage`, `AnswersAreStored` |
| `artifact` | 2 workers, 1 client, 2 attempts, 1 retry, 1 fault, 1 damage | 731,000 | `ReadyHasObject`, `ReadyStands`, `OneAdvancer`, `ActiveEnds` |
| `export` | 1 job id, 1 client, 2 workers, sweeper, 2 messages, 2 faults | 577,000 | `FileWithinSnapshot`, `ReadyHasObject`, `JobsEnd`, `LeftoversGo` |
| `conversation` | 3 conversations, 2 requests, cleanup worker, 1 fault, two writes in one millisecond | 347,000 | `CatalogueMatches`, `PurgedStays`, `DeletedIsPurged`, `NeverLater`, `Chronological`, `ScopeIsTree`, `ListReachesAll` |
| `stream` | 2 chunks, 2 handlers, final and timeout, 1 client connecting twice, 1 fault, 1 cut | 1.4 million | `InOrderOnce`, `NoGap`, `RealOutcome`, `ToldTheEnd` |
| `history` | 2 messages, 2 readers, 1 writer, 1 summary, 1 fault | 1.7 million | `CacheIsTrue`, `ListExpires`, `SummaryNotLost` |
| `user_data` | 2 tabs, 3 writing requests, note, block, 2 modes, preferences, the migration | 829,000 | `ReplacesWhatWasSeen`, `UnsentFieldsStand`, `ModeLimit`, `PreferencesMoveOn`, `RequestsEnd`; deadlock is checked |
| `conversation_branch_point` | violation | | a rename or an archive caches a branch without its branch message, and the next walk of the lineage reaches past the branch point |

Both violations contradict a docstring and are `findings` in `PROJECT.json`.
`conversation_branch_point` is against `branch_context_service.py:7`; `NeverLater`
shows what is left: the walk falls back to the creation time, and nothing later
than that is inherited. `turn_completed` is against "never touched" in
`pending_timeout_worker.py:32`; `FailedOnlyWhenCrossed` shows what is left: only a
change by another pod between the read and the write does it.

Each module with a specification has a type invariant (`TypeOK`, `KeyTypeOK` in
`Idempotency`). It is proved; it is not listed in the configurations, whose
properties all say more than types.

Bounds. *Turn*: one turn has every step of every component, two turns are what a
regeneration needs (the row of one turn is touched by another only through
`replaces` and the shared offsets), and they run in one pod because two turns in
two pods are too many for TLC (what that run shows is proved for any number);
two pods make every pair of components concurrent;
two replies give duplicates, contradictions and late events; a
single fault reaches each failing call at each point of the others. *Outbox*:
three events with batches of two make a worker fetch twice and leave an event
behind a failed one, and a retry worker pass over it. *Artifact*: two attempts have a resubmission and its
limit, two workers a late one beside its successor, one damage the path of
`mark_object_missing`. *Export*: two messages have one on each side of the
snapshot, two faults let a process die on both attempts. *Conversation*: a root,
a branch and one more that is created, at either end of the chain; depth 2 and
pages of 1 make the depth limit and every cursor matter; the branch's
creation and the first write after it share a millisecond, so that a batch can meet its own entry and two
conversations the end of one page. *Stream*: two chunks, so
one can be missing; two connections, so one is a resumption. *History*: two
readers can overlap, a page of 2 has both messages or a summary. *User data*: two
tabs with a read, a conflict and a retry; one mode allowed of two. The theorems
below remove the bounds from every safety property of the table.

`CHECK_DEADLOCK FALSE` is set where requests, turns and jobs end. The outbox
workers poll for ever and tabs may always read: those runs check for deadlock.

Fairness. A deadline passes, a live handler, consumer and timeout worker
continue: the tasks share a loop that every task gives back, and a crashed pod
is restarted. Clients need not send, llm-service need not answer and the outbox
relay of `Turn` need not run. In `Outbox` the workers poll for ever and Redis
expires what nobody renews; staging is not fair. In `Artifact` and `Export` the
background loop claims what is free, a running call goes on, an abandoned lease
runs out and time passes; renders and clients need not end. `Export`
adds that the cleanup goes on and, as each of its calls looks at every object,
that one which is due again and again is removed (strong fairness). In
`Conversation` only the cleanup worker's loop is fair; `History` needs no
fairness. In `Stream` the turn gets its
terminal event, which is `AcceptedIsAnswered` of `Turn`. In `UserData` handlers
run and PostgreSQL grants a free lock.

## Theorems

For every number of turns, pods, events, workers, clients, requests, tabs,
conversations, messages and faults:

| Theorem | Statement |
|---|---|
| `TurnProofs!TypeCorrect` | types, and offsets in order: nothing is committed that was not delivered |
| `UserRowsStayIntact`, `InboxImpliesAnswered` | `Spec => []UserRowsIntact`, `Spec => []InboxMeansAnswered` |
| `StagedStaysProtected` | `~SlowHandlers => (Spec => []StagedIsProtected)` |
| `ReplacedOnlyByAcceptedTurns` | `Spec => []ReplacedOnlyByAccepted`, with any number of pods |
| `OnlyCrossingFails`, `HandledRepliesStand` | `CrossSpec => FailedOnlyWhenCrossed`, `CrossSpec => []HandledReplyStands`, with any number of pods |
| `OnePodCrossesNothing` | `OnePod => (CrossSpec => [](crossed = {}))`: the two exceptions above take a second pod |
| `OutboxTypeCorrect`, `FlaggedWasSent`, `DeliveryProofs!LeaseExcludes` | types, at-least-once, exclusion until a lease lapses |
| `OutboxImplementsRelay` | `Spec => InOrder`: with any outbox and retry workers every step is a step of `Relay` or a stutter |
| `IdempotencyTypeCorrect`, `AnswersStayStored`, `OneMessagePerKey`, `OneAnswerPerKey` | for `KeySpec`: one key, one message, one answer (`AnswersAgree`, which the other two imply) |
| `StreamTypes`, `SentOnce` | types, `Spec => []InOrderOnce` |
| `TextHasNoHole`, `OutcomeIsReal` | `Spec => []NoGap`, `Spec => []RealOutcome` |
| `ArtifactProofs!TypeCorrect` | types, and attempts and retries within their limits |
| `ReadyIsStored`, `ReadyIsFinal`, `ArtifactProofs!LeaseExcludes` | `Spec => []ReadyHasObject`, `Spec => ReadyStands`, `Spec => []OneAdvancer` |
| `ExportTypes`, `NothingAfterSnapshot`, `DownloadExists` | types, `Spec => []FileWithinSnapshot`, `Spec => []ReadyHasObject` |
| `ConversationTypes`, `CatalogueAgrees`, `PurgeStands` | types, `Spec => []CatalogueMatches`, `Spec => PurgedStays` |
| `NothingLaterInherited`, `InheritedInOrder`, `HistoryIsChronological` | `Spec => []NeverLater`, `Spec => []AncestorsInOrder`, `Spec => []Chronological` |
| `EveryConversationListed`, `ScopesAreTrees` | `Spec => []ListReachesAll`, `Spec => []ScopeIsTree` |
| `HistoryTypes`, `CachedListIsTrue`, `EveryListExpires`, `NoSummaryLost` | types, `Spec => []CacheIsTrue`, `Spec => []ListExpires`, `Spec => []SummaryNotLost` |
| `UserDataTypes`, `NoBlindOverwrite`, `PatchKeepsTheRest`, `LimitHoldsUnderRaces`, `NothingOlder` | types, `Spec => []ReplacesWhatWasSeen`, `Spec => []UnsentFieldsStand`, `Spec => []ModeLimit`, `Spec => PreferencesMoveOn` |

The assumptions are the named ASSUMEs of the modules, which say that limits are
numbers (a page has at least one entry, as CONVERSATION_LIST_MIN_LIMIT demands),
that sentinels (`NoMsg`, `NoConv`, `None`, `Gone`) are no ids, that the
publishers of the terminal event are no chunk handlers, that milliseconds never
decrease from one instant to the next and are positive after instant 0 (`MsAssumption`) and that
conversation ids are ordered (`IdAssumption`), and the two hypotheses that stand
in the statements: `~SlowHandlers`, and `OnePod` in `OnePodCrossesNothing` alone.
Every invariant below was checked by TLC on the instances above before it was
proved.

*The argument for a turn.* `InboxMeansAnswered` is not inductive: a pending row
written after the answer would undo it. `TurnInv` adds the order in which a turn
comes to life: while its handler opens the response nothing is staged, only a
published request is answered, so no placeholder and no prompt is written once
an event exists; markers name response ids only, so the timeout worker never
meets a user's row; what a consumer has read or written still stands when it
acts on it. The proofs first show that every step changes the table in one of
five ways (`RowStep`), then one lemma per conjunct. `ProtectionInv` adds that
both halves of the marker precede the batch, that a deadline passes after the
request has ended, and that the worker removes an entry only when it is settled.

*Replacement.* `ReplacedOnlyByAccepted` speaks of accepted turns, and a turn may
become accepted after its row was touched; `DeletedIsReplaced` says the same of
the turns that are still being opened. The deletion of the old answer follows the
batch in the handler, and a compensation only deletes the placeholder of a turn
that will not be accepted.

*Crossing.* Worker, consumer and handler each read a row and write it without a
condition. `CrossInv` says that what they read is still true when they write
(`CheckStands`) or the row is in `crossed`. `TurnStarts` orders the beginning of a
turn: what it replaces is chosen once, and a batch that raised is compensated
before anybody looks at its answer, unless the row was crossed. `ReplyStands` then
follows the reply from its write to its inbox entry, for rows that got no other
outcome and were neither deleted, replaced nor crossed (`OnlyReplied`). That the
exception is no excuse is `OnePodCrossesNothing`: a task between two Cassandra
calls keeps the loop (`LoopIsKept`), and in one pod only the holder of the loop
changes rows.

*The assumption `~SlowHandlers`.* The deadline runs from the ZADD. If the batch
of a regeneration takes longer than the response timeout (120 s), the worker
fails the placeholder and removes the marker, and the batch then inserts the
pending row again, unprotected.

*The argument for the outbox.* `FlaggedIsSent` needs that a worker about to mark
an event has sent it. `LeaseInv`: `locked_buckets` tells the truth and only
holders process. For the refinement, `OrderInv`: a batch holds every unsent
smaller event of its events that was not passed over, because a fetch returns
an initial part of what is unpublished, an outbox worker breaks off at a failure
and a retry worker leaves an event of its batch unsent only by passing it over.

*Idempotency.* Until a mishap only the attempt that won the SET NX is active,
and the key is never free again.

*Streaming.* `Base`: XADD numbers the log without gaps, so a message is its
position, and what a connection was sent rises up to its `last` id: a replay
sends the log after `since`, and a live event is sent only above `last`. That is
`InOrderOnce`. For `RealOutcome`, `Busy` says what each publisher has
in hand, and `Settled` that a client which comes after the answer takes it
from the replay and ends there, so it never waits where a late failure could
reach it. `NoGap` has two halves. `Orderly` is about the partition: until a call
fails the owner is never further than one chunk past the committed offset, what
is committed, in the inbox or waiting to be saved is published, and each chunk
stands in the log after all chunks before it, whatever a rebalance delivers
again. `CaughtUp` is about the client: what was published and it was not sent is
still in a publisher's hand, and above its `last` unless it was overtaken.

*Artifacts.* `ReadyHasObject` is not inductive, for a worker may be about to
publish. `Intact` adds that, while the store loses nothing, no object is invalid
(so nobody deletes one), the workers at `adopt`, `confirm` and `publish` have a
valid object, and so have the requests that saw a ready row (so nobody marks it
missing). `Exclusive` says that the row of a working call is leased or settled,
which no claim accepts. `Sane` carries the comparison with a limit from the step
that made it to the step that increments. Two lemmas, for steps that only move a
program counter and for steps that end in a compare-and-set, cover all workers.

*Exports.* Until a lease lapses one call of `process()` owns a job's row, and
what the sweeper has chosen stays due until it acts, so nobody deletes the
object of a row that another is about to publish. For the snapshot: a message in
it is visible or deleted, and what a collector has read ends there; no retry goes
further than the snapshot taken at `create`.

*Conversations.* Rows are copied to the cache, to requests and to the walk, and
are stale when they are used. `RowFits` says what of a copy is still true: the
creation time, the parent and, unless Redis lost it, the branch message are
those the conversation was made with, in every copy that is not a ghost.
`RequestsFit` carries this through the program counters. A walk's segment
(`SegmentFits`) ends before its child began, and the ancestors it has passed are
not older than the one it is at (`WalkFits`), because a parent is made before its
child (`MadeInOrder`) and a message after its conversation (`MessagesFit`).
`NeverLater` and the order of the segments follow. `CreatorsAlone` (an id being
created has one creator and no row yet) makes an insert no overwrite, which
`CatalogueMatches` and `PurgedStays` need. `AncestorsInOrder` is the part of
`Chronological` that depends on interleavings; the rest is that rows counted off
by the order in which they were read, and turned around, are in the order they
were written: a finite set with a strict order can be counted off by it (`Ranking`,
which the pages and the siblings rest on too). Two messages of one millisecond
may stand either way round.

*Pages and trees.* `EntriesFit`: two entries differ in their millisecond or in
their conversation, as the key of the table wants, and an entry has the parent
its conversation was created with. So `Ahead` and `Elder` are strict orders. For
`ListReachesAll`, a full page leaves exactly what is below the millisecond of its
last entry, or in that millisecond and not on the page, and a short one nothing
(`PageStep`): after n pages an entry is listed, below the n-th cursor, or in the
millisecond of a cursor before, and at least n are listed. For `ScopeIsTree` the entries form a `Forest`: parents are
older. So the chain upwards never meets itself and ends at a root within as many
steps as there are conversations (`ChainUp`); the walk below the root never
reaches a conversation twice and forgets no child of one it has recorded
(`WalkAt`); the set it ends with is closed under the links, and any set that is
so closed and has the conversation holds all of it. The climb from a child is one
step and then the climb from its parent (`OneLevelBelow`). Inductions over the
loops go by the least counterexample (`LeastOf`, `UpTo`), and `Iterate` shows that
the recursive functions exist.

*History.* `Page` picks positions by counting newer rows, so that it can be
reasoned about without recursion. Unless a fill raced there is one filler, and
what it has fetched is a page of the table now, but for rows in `abandoned` and
the placeholders of open sends, which may be missing in it or still pending; with
a writer between its change and its eviction nothing is claimed. `ListExpires`
needs that a reader which has pushed is about to set the expiry. `WorkerInOrder` ties the summary worker's program counter to
its offsets and its inbox.

*User data.* A row written in an open transaction is locked, so what a request
writes follows the committed row it was compared with; until a deletion a version
names one row, so a version that matches is the row that was seen; and the
advisory lock keeps the count of modes true until the insert. Times only grow, the
upsert's condition is evaluated while no transaction holds the row, and a batch
row was saved when its `updated_at` says, or `transform` made that up.

Only model-checked: liveness (`AcceptedIsAnswered`, the fairness part of
`RelayedInOrder`, `ActiveEnds`, `JobsEnd`, `LeftoversGo`, `DeletedIsPurged`,
`ToldTheEnd`, `RequestsEnd`), which is out of the prover's reach. Every
safety property of the passing runs is proved.

## Known limits of the code, not claimed by any property

Turn, outbox, idempotency:

* A message that a client deletes while its reply is on the way comes back: the
  late INSERT does not look at the deletion.
* A marker whose key expires before any worker has looked at it (no worker ran
  for the TTL) is taken for answered, and the row stays pending.
* The timeout worker of one pod, or the handler of a late error event there, can
  fail a reply that another pod stored after it had read the row, although
  `pending_timeout_worker.py:32` says such a message is "never touched": the
  violation `turn_completed`.
* An event whose handler raised is passed over: the commit of a later event of
  the partition covers its offset. The turn then ends by its timeout.
* A crash between the placeholder and the batch leaves a pending row without a
  request; it was never accepted, and only its marker, if complete, fails it.
* An outbox and a retry worker hold different keys and may process one bucket at
  the same time. This costs duplicates. A retry worker goes on after a failed
  send, so an event may reach Kafka after later ones of its conversation
  (`passed`), where `docs/updates/task_update_7.md:55` speaks of "strict ordering"
  and `docs/lld.md:541` of ordering "end to end".
* A worker that lost its lease reads the key and deletes it in two calls, and may
  delete the lease of its successor; `OneOutboxWorker` claims nothing then.
* A crash after the claim leaves an idempotency key `processing` for 24 hours. A
  claim that reads the key after it was evicted, or a retry after a send that
  raised although its batch was applied, creates a second message.

Streaming, history, summaries:

* An event is passed over as "already sent" when another publisher got a higher
  id and published first (`inverted`): after a terminal event the client then
  waits for its deadline, and a chunk redelivered to another pod can leave a hole
  in the text (three chunks are needed for that). `NoGap` and `ToldTheEnd` exclude
  both.
* `since` does not initialise the id below which live events are dropped.
* A list cached for a small limit also answers later reads; a fill that overlaps
  a change or another fill leaves a wrong list until the next removal (`raced`).
* A send that fails after its placeholder was inserted does not evict
  (`message_service.py:207-210, 284-292`): a list filled in between shows the
  deleted placeholder as pending, and one whose batch was applied although it
  raised misses the user's message, until the next removal (`abandoned`).
* A reader that dies between RPUSH and EXPIRE leaves a list without the "1-hour
  TTL" of `cache_service.py:127`, until the next change evicts it (`untimed`).
* A summary whose worker dies before the inbox entry is attached twice, and its
  random id makes it the oldest message of the conversation.

Conversations:

* Rename and archive write from the cached row: the title of another request is
  lost, and archiving a soft-deleted conversation brings it back until its purge.
* Two writers of one row leave a second catalogue entry, and a batch that races
  the purge leaves a row (`lost` marks both).
* A batch in the very millisecond of the row it replaces deletes the catalogue
  entry it has just inserted (`conversation_repository.py:120`): the conversation
  is in no listing until its next update (`tied`).
* A page ends at `updated_at < ?` (`conversation_repository.py:191`). The cursor
  carries the conversation's id too, but the query does not use it: entries in the
  millisecond a full page ends with that did not fit on the page are skipped.
* A branch without its branch message inherits what was written in the millisecond
  it was created in, and children of one millisecond stand by their ids.
* The cleanup worker evicts the cache before it deletes the rows, and passes over
  an event whose purge failed.
* A soft-deleted entry shortens its page, and a short page has no cursor.

Artifacts, exports, user data:

* `_release` clears a lease that belongs to another worker when the row was
  reopened meanwhile, and a retry counts from the value it read.
* An export of a conversation that was empty at the snapshot, or whose newest
  message was deleted since, holds whatever is there at the collection.
* A `process()` that finds its row published after its lease lapsed deletes the
  object of the published row.
* After a reset or a discard the versions start again at 1, so an older version
  may match a new row; running the migration after a reset brings the legacy row
  back; two tabs can together pass the limit of source edits.
* A legacy row without `updated_at` counts as saved now
  (`preferences_to_postgres.py:86`, as `test_migration.py:111-115` expects): with
  a higher version it overwrites preferences that are newer, which lines 7-9 of
  that file rule out. `PreferencesMoveOn` excludes such rows.
* Where FastAPI runs the end of a dependency after the response, an answer may be
  sent and its commit fail; the model takes them as one step.
* A PATCH is refused while the saved default mode is archived.

## Not modelled

* Rendering of documents and export files: formatting without state.
* Connection set-up, settings, logging and authentication: no state of their
  own, or only I/O whose failures appear as failing calls.
* Streaming: the mode without `message_id`, the `stream:{id}` ownership key (which
  nothing reads) and the trimming of the log.
* Artifacts: diagrams (ready when registered), thumbnails (best effort), the list
  query, and the janitor, which touches no registered artifact.
* Exports: the replacement of an expired job by a new request needs two job ids,
  and runs with one; an expired job is pruned and its id used again.
* User data: `resolve_for_message`, which only reads, and the check that a
  conversation is open before its notes are saved.
* History inherited by a branch is cut by number of messages, not of characters,
  and the tree is built from all of the owner's conversations, not the newest 2000.
