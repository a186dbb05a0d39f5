---------------------------- MODULE Conversation ----------------------------
(***************************************************************************)
(* Conversation metadata: the table `conversations`, the catalogue         *)
(* `conversations_by_user` (keyed by updated_at), the Redis copy of each   *)
(* row, the requests that read and write them (ConversationService), the   *)
(* walk up the branches (BranchContextService.lineage) and the worker that *)
(* purges deleted conversations.  Requests run on any pod: each call to    *)
(* Cassandra or Redis is one step and any other step may fall between two  *)
(* of them.  One owner; instants come from one clock and a message's id is *)
(* its instant.  The program sees created_at and updated_at only as the    *)
(* tables keep them, to the millisecond: Ms.                               *)
(***************************************************************************)
EXTENDS Naturals, Sequences

CONSTANTS Convs,        \* conversation ids
          Root, Branch, \* the conversations that exist at the start
          Ops,          \* requests (and title events) in flight at one time
          MaxOps,       \* bound: requests started
          MaxClock,     \* bound: timestamps handed out
          MaxFaults,    \* bound: failures and crashes of the cleanup worker
          MaxDepth,     \* MAX_LINEAGE_DEPTH
          Ms            \* the millisecond of each instant: a CQL timestamp

ASSUME RootAssumption == Root \in Convs /\ Branch \in Convs /\ Root # Branch
ASSUME BoundsAssumption == /\ MaxOps \in Nat /\ MaxFaults \in Nat /\ MaxDepth \in Nat
                           /\ MaxClock \in Nat /\ MaxClock >= 4

VARIABLES
    table,      \* conversations: a row or NoRow per id
    catalogue,  \* conversations_by_user: the rows of the owner
    cache,      \* conversation:{id} in Redis: a copy of a row or NoRow
    messages,   \* messages_by_conversation: the message times per conversation
    clock,
    op,         \* the requests in flight
    started,    \* requests started so far
    purge,      \* conversation.deleted events the worker has not committed
    cleaner,    \* the cleanup worker: its step, conversation and row read
    faults,
    made,       \* history: the row each conversation was created with
    lost,       \* history: conversations written from a row read before
                \* another request changed it
    tied,       \* history: conversations last written in the millisecond of
                \* the row that was replaced
    skipped     \* history: conversations whose purge failed and was skipped

vars == <<table, catalogue, cache, messages, clock, op, started, purge, cleaner,
          faults, made, lost, tied, skipped>>

Times == 0..MaxClock

\* Several writes may fall into one millisecond.
ASSUME MsAssumption == /\ Ms \in [Times -> Nat]
                       /\ \A s, t \in Times : s <= t => Ms[s] <= Ms[t]
                       /\ \A t \in Times : 0 < t => 0 < Ms[t]

Titles == {"given", "renamed", "generated"}
Statuses == {"active", "archived", "deleted"}
NoConv == "noconv"
ASSUME NoConvAssumption == NoConv \notin Convs
Kinds == {"get", "rename", "archive", "delete", "title", "create", "context"}

\* A branch records its parent and, in `branch`, the last message of the
\* parent in scope (0: None).
Row == [title : Titles, created : Times, stamp : Times, status : Statuses,
        parent : Convs \cup {NoConv}, branch : Times]
NoRow == [title |-> "given", created |-> 0, stamp |-> 0, status |-> "deleted",
          parent |-> NoConv, branch |-> 0]

\* A row left by an UPDATE of a purged conversation: user_id and created_at
\* are null.
Ghost(r) == r # NoRow /\ r.created = 0

Entry(c, r) == [conv |-> c, stamp |-> r.stamp, title |-> r.title, status |-> r.status,
                parent |-> r.parent]
Entries == [conv : Convs, stamp : Times, title : Titles, status : Statuses,
            parent : Convs \cup {NoConv}]

\* The part of an ancestor that `child` inherits: up to message `upto`, or up
\* to time `time` when `child` shows no branch message.
Segments == [conv : Convs, child : Convs, upto : Times, time : Times]

\* conv: the conversation asked for; at: the one being fetched; held: what get
\* returned; sel: the row the repository read last; title: what will be
\* written; cur/below: the walk's current row and its id; segs: the walk so
\* far, nearest first.
Idle == [pc |-> "idle", kind |-> "get", conv |-> Root, at |-> Root, checked |-> FALSE,
         held |-> NoRow, sel |-> NoRow, title |-> "given", cur |-> NoRow, below |-> Root,
         segs |-> << >>]
Steps == {"idle", "cache", "select", "fill", "retitle", "reread", "batch", "point", "insert",
          "after", "report"}
OpType == [pc : Steps, kind : Kinds, conv : Convs, at : Convs, checked : BOOLEAN,
           held : Row, sel : Row, title : Titles, cur : Row, below : Convs,
           segs : Seq(Segments)]

Rest == [pc |-> "idle", conv |-> Root, sel |-> NoRow]

TypeOK ==
    /\ table \in [Convs -> Row]
    /\ catalogue \subseteq Entries
    /\ cache \in [Convs -> Row]
    /\ messages \in [Convs -> SUBSET Times]
    /\ clock \in Times
    /\ op \in [Ops -> OpType]
    /\ started \in 0..MaxOps
    /\ purge \in [Convs -> Nat]
    /\ cleaner \in [pc : {"idle", "evicted", "emptied", "selected", "commit"},
                    conv : Convs, sel : Row]
    /\ faults \in 0..MaxFaults
    /\ made \in [Convs -> Row]
    /\ lost \subseteq Convs
    /\ tied \subseteq Convs
    /\ skipped \subseteq Convs

RootRow == [title |-> "given", created |-> 1, stamp |-> 1, status |-> "active",
            parent |-> NoConv, branch |-> 0]
BranchRow == [title |-> "given", created |-> 4, stamp |-> 4, status |-> "active",
              parent |-> Root, branch |-> 2]

\* A conversation with two messages, branched from the first one since.
Init ==
    /\ table = [c \in Convs |-> IF c = Root THEN RootRow
                               ELSE IF c = Branch THEN BranchRow ELSE NoRow]
    /\ catalogue = {Entry(Root, RootRow), Entry(Branch, BranchRow)}
    /\ cache = [c \in Convs |-> NoRow]
    /\ messages = [c \in Convs |-> IF c = Root THEN {2, 3} ELSE {}]
    /\ clock = 4
    /\ op = [o \in Ops |-> Idle]
    /\ started = 0
    /\ purge = [c \in Convs |-> 0]
    /\ cleaner = Rest
    /\ faults = 0
    /\ made = table
    /\ lost = {}
    /\ tied = {}
    /\ skipped = {}

Tick == clock < MaxClock /\ clock' = clock + 1
Set(o, r) == op' = [op EXCEPT ![o] = r]
End(o) == Set(o, Idle)

(***************************************************************************)
(* The API: a request names a conversation; require_conversation_owner     *)
(* fetches it before the handler does.  A new conversation has no owner    *)
(* check: a branch goes to its parent, a root straight to the insert.      *)
(* conversation.title.generated events go straight to update_title.        *)
(***************************************************************************)
Begin(o, r) ==
    /\ op[o].pc = "idle"
    /\ started < MaxOps
    /\ started' = started + 1
    /\ Set(o, r)
    /\ UNCHANGED <<table, catalogue, cache, messages, clock, purge, cleaner, faults, made, lost, tied, skipped>>

Request(o) ==
    \E k \in {"get", "rename", "archive", "delete", "context"}, c \in Convs :
        /\ made[c] # NoRow
        /\ Begin(o, [Idle EXCEPT !.pc = "cache", !.kind = k, !.conv = c, !.at = c,
                                 !.below = c])

TitleEvent(o) ==
    \E c \in Convs :
        /\ made[c] # NoRow
        /\ Begin(o, [Idle EXCEPT !.pc = "reread", !.kind = "title", !.conv = c, !.at = c,
                                 !.title = "generated"])

Free(c) == made[c] = NoRow /\ \A o \in Ops : ~(op[o].kind = "create" /\ op[o].conv = c)

CreateBranch(o) ==
    \E c, p \in Convs :
        /\ Free(c) /\ made[p] # NoRow
        /\ Begin(o, [Idle EXCEPT !.pc = "cache", !.kind = "create", !.conv = c, !.at = p,
                                 !.checked = TRUE])

CreateRoot(o) ==
    \E c \in Convs :
        /\ Free(c)
        /\ Begin(o, [Idle EXCEPT !.pc = "insert", !.kind = "create", !.conv = c, !.at = c,
                                 !.checked = TRUE])

(***************************************************************************)
(* What a request does with the conversation that get returned: operators  *)
(* from the request's state to its next one, up to its next call.          *)
(***************************************************************************)
\* Mutant of Boundary: no fallback to the creation time.
WholeParent(child, row) == [conv |-> row.parent, child |-> child, upto |-> row.branch,
                            time |-> IF row.branch = 0 THEN MaxClock ELSE 0]

\* What a row of the chain lets its reader see of the parent.
Boundary(child, row) == [conv |-> row.parent, child |-> child, upto |-> row.branch,
                         time |-> IF row.branch = 0 THEN row.created ELSE 0]

OnPath(r) == {r.conv} \cup {r.segs[i].conv : i \in 1..Len(r.segs)}

\* The loop's head in lineage: another ancestor to fetch (no depth limit, no
\* cycle), or the walk is done.
Climb(r) == IF /\ r.cur.parent # NoConv
               /\ Len(r.segs) < MaxDepth
               /\ r.cur.parent \notin OnPath(r)
            THEN [r EXCEPT !.pc = "cache", !.at = r.cur.parent]
            ELSE [r EXCEPT !.pc = "report"]

\* The loop's body: the chain stops at a missing, foreign or deleted ancestor.
Ancestor(r) == IF r.held = NoRow \/ Ghost(r.held) \/ r.held.status = "deleted"
               THEN [r EXCEPT !.pc = "report"]
               ELSE Climb([r EXCEPT !.segs = Append(@, Boundary(r.below, r.cur)),
                                    !.cur = r.held, !.below = r.at])

\* require_conversation_owner: 404 or 403, or the handler starts.
Owner(r) == IF r.held = NoRow \/ Ghost(r.held) \/ r.kind = "get" THEN Idle
            ELSE IF r.kind = "context" THEN Climb([r EXCEPT !.checked = TRUE, !.cur = r.held])
            ELSE [r EXCEPT !.checked = TRUE, !.pc = "cache"]

\* rename and archive: what get returned supplies the half of (title, status)
\* that the request does not change.
Handler(r) == IF r.held = NoRow THEN Idle
              ELSE [r EXCEPT !.pc = IF r.kind = "delete" THEN "retitle" ELSE "reread",
                             !.title = IF r.kind = "rename" THEN "renamed" ELSE r.held.title]

\* create: the parent must exist, be active and be the caller's.
Parent(r) == IF r.held = NoRow \/ r.held.status # "active" \/ Ghost(r.held) THEN Idle
             ELSE [r EXCEPT !.pc = "point"]

Got(r) == CASE ~r.checked -> Owner(r)
            [] r.checked /\ r.kind = "context" -> Ancestor(r)
            [] r.checked /\ r.kind = "create" -> Parent(r)
            [] OTHER -> Handler(r)

(***************************************************************************)
(* ConversationService.get: the cache, else the table, then the cache is   *)
(* filled with what the table said.                                        *)
(***************************************************************************)
ReadCache(o) ==
    LET hit == cache[op[o].at] IN
    /\ op[o].pc = "cache"
    /\ Set(o, IF hit = NoRow THEN [op[o] EXCEPT !.pc = "select"]
              ELSE Got([op[o] EXCEPT !.held = hit]))
    /\ UNCHANGED <<table, catalogue, cache, messages, clock, started, purge, cleaner, faults,
                   made, lost, tied, skipped>>

ReadTable(o) ==
    LET row == table[op[o].at] IN
    /\ op[o].pc = "select"
    /\ Set(o, IF row = NoRow THEN Got([op[o] EXCEPT !.held = row])
              ELSE [op[o] EXCEPT !.held = row, !.pc = "fill"])
    /\ UNCHANGED <<table, catalogue, cache, messages, clock, started, purge, cleaner, faults,
                   made, lost, tied, skipped>>

\* set_conversation cannot serialise a row without created_at: nothing is set.
Fill(o) ==
    /\ op[o].pc = "fill"
    /\ cache' = [cache EXCEPT ![op[o].at] = IF Ghost(op[o].held) THEN @ ELSE op[o].held]
    /\ Set(o, Got(op[o]))
    /\ UNCHANGED <<table, catalogue, messages, clock, started, purge, cleaner, faults, made,
                   lost, tied, skipped>>

(***************************************************************************)
(* The repository's writes read the row once more, then apply one batch:   *)
(* the catalogue entry under the old updated_at goes, a new one comes, and *)
(* the row is UPDATEd, which creates it if it is gone.  All of a batch has *)
(* one write time, at which a deletion wins over an insertion: under one   *)
(* and the same updated_at the entry goes and none comes.                  *)
(***************************************************************************)
\* delete_with_outbox reads the title it keeps in a query of its own.
Retitle(o) ==
    LET row == table[op[o].conv] IN
    /\ op[o].pc = "retitle"
    /\ IF row = NoRow THEN End(o)
       ELSE Set(o, [op[o] EXCEPT !.pc = "reread", !.title = row.title])
    /\ UNCHANGED <<table, catalogue, cache, messages, clock, started, purge, cleaner, faults,
                   made, lost, tied, skipped>>

\* Mutant of Reread: the row's absence is not noticed.
RereadBlindly(o) ==
    /\ op[o].pc = "reread"
    /\ Set(o, [op[o] EXCEPT !.pc = "batch", !.sel = table[op[o].conv]])
    /\ UNCHANGED <<table, catalogue, cache, messages, clock, started, purge, cleaner, faults,
                   made, lost, tied, skipped>>

\* None ends the request; a ghost has no user_id to key the batch with.
Reread(o) ==
    LET row == table[op[o].conv] IN
    /\ op[o].pc = "reread"
    /\ IF row = NoRow \/ Ghost(row) THEN End(o)
       ELSE Set(o, [op[o] EXCEPT !.pc = "batch", !.sel = row])
    /\ UNCHANGED <<table, catalogue, cache, messages, clock, started, purge, cleaner, faults,
                   made, lost, tied, skipped>>

NewStatus(r) == CASE r.kind = "rename" -> r.held.status
                  [] r.kind = "archive" -> "archived"
                  [] r.kind = "delete" -> "deleted"
                  [] OTHER -> r.sel.status

\* The row the batch describes: the one that was read, renamed and restamped.
Written(r, now) == [r.sel EXCEPT !.title = r.title, !.stamp = now, !.status = NewStatus(r)]

\* UPDATE conversations SET title, updated_at and (not for set_title) status.
Updated(row, r, new) ==
    IF r.kind = "title"
    THEN [row EXCEPT !.title = new.title, !.stamp = new.stamp]
    ELSE [row EXCEPT !.title = new.title, !.stamp = new.stamp, !.status = new.status]

\* Mutant of Replace: the entry under the old updated_at stays.
AddOnly(c, sel, new) == catalogue \cup {Entry(c, new)}

SameMs(s, t) == Ms[s] = Ms[t]

Replace(c, sel, new) ==
    {e \in catalogue : e.conv = c => ~SameMs(e.stamp, sel.stamp) /\ ~SameMs(e.stamp, new.stamp)}
        \cup {e \in {Entry(c, new)} : ~SameMs(sel.stamp, new.stamp)}

Batch(o) ==
    LET c == op[o].conv
        new == Written(op[o], clock + 1) IN
    /\ op[o].pc = "batch"
    /\ Tick
    /\ table' = [table EXCEPT ![c] = Updated(@, op[o], new)]
    /\ catalogue' = Replace(c, op[o].sel, new)
    /\ purge' = IF op[o].kind = "delete" THEN [purge EXCEPT ![c] = @ + 1] ELSE purge
    /\ lost' = IF table[c] # op[o].sel THEN lost \cup {c} ELSE lost
    /\ tied' = IF SameMs(op[o].sel.stamp, new.stamp) THEN tied \cup {c} ELSE tied \ {c}
    /\ Set(o, [op[o] EXCEPT !.pc = "after", !.held = new])
    /\ UNCHANGED <<cache, messages, started, cleaner, faults, made, skipped>>

\* update_with_outbox returns a Conversation built without branch_message_id,
\* and rename and archive cache that; delete and set_title evict.
Cached(r) == IF r.kind \in {"delete", "title"} THEN NoRow
             ELSE IF r.kind = "create" THEN r.held
             ELSE [r.held EXCEPT !.branch = 0]

After(o) ==
    /\ op[o].pc = "after"
    /\ cache' = [cache EXCEPT ![op[o].conv] = Cached(op[o])]
    /\ End(o)
    /\ UNCHANGED <<table, catalogue, messages, clock, started, purge, cleaner, faults, made, lost, tied, skipped>>

(***************************************************************************)
(* create: the branch point is a message of the parent, or the parent's    *)
(* latest message now; then one batch, and the cache.                      *)
(***************************************************************************)
\* An explicit message of the parent, or else its latest message.
Points(p) == IF messages[p] = {} THEN {0} ELSE messages[p]

Point(o) ==
    \E m \in Points(op[o].at) :
        /\ op[o].pc = "point"
        /\ Set(o, [op[o] EXCEPT !.pc = "insert", !.cur = [op[o].held EXCEPT !.branch = m]])
        /\ UNCHANGED <<table, catalogue, cache, messages, clock, started, purge, cleaner,
                       faults, made, lost, tied, skipped>>

Insert(o) ==
    LET r == op[o]
        new == [title |-> "given", created |-> clock + 1, stamp |-> clock + 1,
                status |-> "active",
                parent |-> IF r.at = r.conv THEN NoConv ELSE r.at,
                branch |-> IF r.at = r.conv THEN 0 ELSE r.cur.branch] IN
    /\ r.pc = "insert"
    /\ Tick
    /\ table' = [table EXCEPT ![r.conv] = new]
    /\ catalogue' = catalogue \cup {Entry(r.conv, new)}
    /\ made' = [made EXCEPT ![r.conv] = new]
    /\ Set(o, [r EXCEPT !.pc = "after", !.held = new])
    /\ UNCHANGED <<cache, messages, started, purge, cleaner, faults, lost, tied, skipped>>

\* The walk is over: the inherited messages are read and the answer is sent.
Report(o) ==
    /\ op[o].pc = "report"
    /\ End(o)
    /\ UNCHANGED <<table, catalogue, cache, messages, clock, started, purge, cleaner, faults,
                   made, lost, tied, skipped>>

(***************************************************************************)
(* The cleanup worker: caches first, then the messages, then the rows.  An *)
(* exception is logged and the event committed all the same; a crash       *)
(* leaves the event to be delivered again.                                 *)
(***************************************************************************)
Consume ==
    \E c \in Convs :
        /\ cleaner.pc = "idle"
        /\ purge[c] > 0
        /\ cleaner' = [pc |-> "evicted", conv |-> c, sel |-> NoRow]
        /\ cache' = [cache EXCEPT ![c] = NoRow]
        /\ UNCHANGED <<table, catalogue, messages, clock, op, started, purge, faults, made, lost, tied, skipped>>

PurgeMessages ==
    /\ cleaner.pc = "evicted"
    /\ messages' = [messages EXCEPT ![cleaner.conv] = {}]
    /\ cleaner' = [cleaner EXCEPT !.pc = "emptied"]
    /\ UNCHANGED <<table, catalogue, cache, clock, op, started, purge, faults, made, lost, tied, skipped>>

PurgeRead ==
    LET row == table[cleaner.conv] IN
    /\ cleaner.pc = "emptied"
    /\ cleaner' = [cleaner EXCEPT !.sel = row,
                                  !.pc = IF row = NoRow \/ Ghost(row) THEN "commit" ELSE "selected"]
    /\ UNCHANGED <<table, catalogue, cache, messages, clock, op, started, purge, faults, made, lost, tied, skipped>>

PurgeRow ==
    LET c == cleaner.conv IN
    /\ cleaner.pc = "selected"
    /\ table' = [table EXCEPT ![c] = NoRow]
    /\ catalogue' = {e \in catalogue : ~(e.conv = c /\ SameMs(e.stamp, cleaner.sel.stamp))}
    /\ lost' = IF table[c] # cleaner.sel THEN lost \cup {c} ELSE lost
    /\ cleaner' = [cleaner EXCEPT !.pc = "commit"]
    /\ UNCHANGED <<cache, messages, clock, op, started, purge, faults, made, tied, skipped>>

Commit ==
    /\ cleaner.pc = "commit"
    /\ purge' = [purge EXCEPT ![cleaner.conv] = @ - 1]
    /\ cleaner' = Rest
    /\ UNCHANGED <<table, catalogue, cache, messages, clock, op, started, faults, made, lost, tied, skipped>>

CleanupFails ==
    /\ cleaner.pc \in {"evicted", "emptied", "selected"}
    /\ faults < MaxFaults
    /\ faults' = faults + 1
    /\ skipped' = skipped \cup {cleaner.conv}
    /\ cleaner' = [cleaner EXCEPT !.pc = "commit"]
    /\ UNCHANGED <<table, catalogue, cache, messages, clock, op, started, purge, made, lost, tied>>

\* Mutant of CleanupCrashes: the offset was committed before the work.
CrashCommitted ==
    /\ cleaner.pc # "idle"
    /\ faults < MaxFaults
    /\ faults' = faults + 1
    /\ cleaner' = Rest
    /\ purge' = [purge EXCEPT ![cleaner.conv] = @ - 1]
    /\ UNCHANGED <<table, catalogue, cache, messages, clock, op, started, made, lost, tied, skipped>>

CleanupCrashes ==
    /\ cleaner.pc # "idle"
    /\ faults < MaxFaults
    /\ faults' = faults + 1
    /\ cleaner' = Rest
    /\ UNCHANGED <<table, catalogue, cache, messages, clock, op, started, purge, made, lost, tied, skipped>>

(***************************************************************************)
(* Around the metadata: messages arrive, and cache entries expire.         *)
(***************************************************************************)
NewMessage(c) ==
    /\ table[c] # NoRow \/ cache[c] # NoRow
    /\ Tick
    /\ messages' = [messages EXCEPT ![c] = @ \cup {clock + 1}]
    /\ UNCHANGED <<table, catalogue, cache, op, started, purge, cleaner, faults, made, lost, tied, skipped>>

Expire(c) ==
    /\ cache[c] # NoRow
    /\ cache' = [cache EXCEPT ![c] = NoRow]
    /\ UNCHANGED <<table, catalogue, messages, clock, op, started, purge, cleaner, faults,
                   made, lost, tied, skipped>>

GetSteps(o) == ReadCache(o) \/ ReadTable(o) \/ Fill(o)
HandlerSteps(o) == \/ Retitle(o) \/ Reread(o) \/ Batch(o) \/ After(o)
                   \/ Point(o) \/ Insert(o) \/ Report(o)
Cleanup == Consume \/ PurgeMessages \/ PurgeRead \/ PurgeRow \/ Commit

Next ==
    \/ \E o \in Ops : \/ Request(o) \/ TitleEvent(o) \/ CreateBranch(o) \/ CreateRoot(o)
                      \/ GetSteps(o) \/ HandlerSteps(o)
    \/ Cleanup \/ CleanupFails \/ CleanupCrashes
    \/ \E c \in Convs : NewMessage(c) \/ Expire(c)

Spec == Init /\ [][Next]_vars

\* The consumer loop takes the next event as long as it runs.
FairSpec == Spec /\ WF_vars(Cleanup)

-----------------------------------------------------------------------------
(***************************************************************************)
(* Properties.                                                             *)
(***************************************************************************)
\* The two tables agree (conversation_repository.py:120-146): unless a batch
\* was applied to a row that changed after it was read, a conversation has
\* exactly one catalogue entry, with the row's updated_at, title and status,
\* and none once it is purged, or while its last batch fell into the very
\* millisecond of the row it replaced.
CatalogueMatches ==
    \A c \in Convs \ lost :
        {e \in catalogue : e.conv = c} =
            IF table[c] = NoRow \/ c \in tied THEN {} ELSE {Entry(c, table[c])}

\* A purged conversation stays purged (conversation_repository.py:116-118,
\* 225-227): whatever request still holds or caches its row, only a write
\* that raced the purge between its read and its batch brings a row back.
PurgedStays == [][\A c \in Convs : (/\ made[c] # NoRow /\ table[c] = NoRow
                                    /\ table'[c] # NoRow) => c \in lost']_vars

\* A soft delete ends in the purge of the row (cleanup_worker.py:42-74), with
\* one crash of the worker too; not when the worker skips a failed event or
\* a batch raced the purge.
DeletedIsPurged ==
    \A c \in Convs : purge[c] > 0 ~> (table[c] = NoRow \/ c \in lost \cup skipped)
=============================================================================
