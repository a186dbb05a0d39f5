---------------------------- MODULE BranchContext ---------------------------
(***************************************************************************)
(* What is derived from the conversation tables: the messages a branch     *)
(* inherits (BranchContextService), the tree a conversation belongs to     *)
(* (hierarchy_service) and the pages of the conversation list.             *)
(***************************************************************************)
EXTENDS Conversation, FiniteSets, SequencesExt

CONSTANTS MaxInherited,     \* INHERITED_MAX_MESSAGES
          PageLimit,        \* `limit` of GET /conversations
          IdRank            \* the order of conversation ids (a uuid's)

\* CONVERSATION_LIST_MIN_LIMIT is 1.
ASSUME LimitAssumption == PageLimit \in Nat \ {0}

ASSUME IdAssumption == /\ IdRank \in [Convs -> Nat]
                       /\ \A c, d \in Convs : IdRank[c] = IdRank[d] => c = d

\* ORDER BY message_id DESC LIMIT n.
Latest(S, n) == {m \in S : Cardinality({k \in S : k > m}) < n}

-----------------------------------------------------------------------------
(***************************************************************************)
(* Inherited history.  The query's limit comes before the time filter; the *)
(* rows of a segment are taken newest first.                               *)
(***************************************************************************)
SegmentMessages(seg) ==
    LET limit == 2 * MaxInherited IN
    IF seg.upto # 0
    THEN Latest({m \in messages[seg.conv] : m <= seg.upto}, limit)
    ELSE {m \in Latest(messages[seg.conv], limit) : Ms[m] <= Ms[seg.time]}

\* The rows of all segments, each message where it is seen first, and the order
\* in which the loops come to them: the nearest ancestor first, newest first.
Readable(segs) ==
    UNION {{<<i, m>> : m \in SegmentMessages(segs[i])
                             \ UNION {SegmentMessages(segs[j]) : j \in 1..(i - 1)}} : i \in 1..Len(segs)}

ReadBefore(a, b) == a[1] < b[1] \/ (a[1] = b[1] /\ a[2] > b[2])

Picked(segs) ==
    {a \in Readable(segs) : Cardinality({b \in Readable(segs) : ReadBefore(b, a)}) < MaxInherited}

\* Mutant of InheritedHistory: the picked rows are left in the order they were
\* read in.
NotReversed(segs) ==
    LET P == Picked(segs) IN
    [k \in 1..Cardinality(P) |->
        (CHOOSE a \in P : Cardinality({b \in P : ReadBefore(b, a)}) = k - 1)[2]]

\* picked.reverse(): the k-th of the list has k - 1 rows picked after it.
InheritedHistory(segs) ==
    LET P == Picked(segs) IN
    [k \in 1..Cardinality(P) |->
        (CHOOSE a \in P : Cardinality({b \in P : ReadBefore(a, b)}) = k - 1)[2]]

\* Requests whose walk up the ancestors has come to its end.
Resolved == {o \in Ops : op[o].pc = "report"}

\* Nothing the parent says after the branch was made reaches the branch
\* (branch_context_service.py:6-9), however old the cached rows the walk was
\* given are and whether or not they still carry the branch message: up to the
\* millisecond if the boundary is the creation time.
NeverLater ==
    \A o \in Resolved : \A i \in 1..Len(op[o].segs) :
        \A m \in SegmentMessages(op[o].segs[i]) :
            Ms[m] <= Ms[made[op[o].segs[i].child].created]

\* A's part, then B's part (branch_context_service.py:10-11): the history sent
\* to the model is in the order the messages were written, to the millisecond,
\* although every boundary was read at a different moment.
Chronological ==
    \A o \in Resolved : \A i, j \in 1..Len(InheritedHistory(op[o].segs)) :
        i < j => Ms[InheritedHistory(op[o].segs)[i]] <= Ms[InheritedHistory(op[o].segs)[j]]

\* A child sees its parent only up to and including its branch message
\* (branch_context_service.py:6-8).  The code does not keep this: see Cached.
BranchPointHolds ==
    \A o \in Resolved : \A i \in 1..Len(op[o].segs) :
        LET seg == op[o].segs[i] IN
        made[seg.child].branch # 0 =>
            \A m \in SegmentMessages(seg) : m <= made[seg.child].branch

-----------------------------------------------------------------------------
(***************************************************************************)
(* The hierarchy, from the owner's non-deleted catalogue entries.          *)
(***************************************************************************)
Listed == {e \in catalogue : e.status # "deleted"}
Nodes == {e.conv : e \in Listed}

\* A dict built from rows listed newest first keeps the oldest of two.
NodeParent(c) ==
    (CHOOSE e \in Listed : e.conv = c /\ \A f \in Listed : f.conv = c => e.stamp <= f.stamp).parent

\* Siblings by created_at, then by id.
Elder(d, e) ==
    \/ Ms[made[d].created] < Ms[made[e].created]
    \/ SameMs(made[d].created, made[e].created) /\ IdRank[d] < IdRank[e]

Children(c) ==
    LET S == {d \in Nodes : NodeParent(d) = c /\ c # d} IN
    [k \in 1..Cardinality(S) |->
        CHOOSE d \in S : Cardinality({e \in S : Elder(e, d)}) = k - 1]

\* Mutant of RootOf: a branch is taken for its own root.
OwnRoot(c) == c

\* The chain from c upwards, ended by no parent, one not listed or one seen.
Chain(c) ==
    LET up[n \in 0..Cardinality(Nodes)] ==
            IF n = 0 THEN <<c>>
            ELSE LET p == NodeParent(Last(up[n - 1])) IN
                 IF p \in Nodes \ ToSet(up[n - 1]) THEN Append(up[n - 1], p) ELSE up[n - 1]
    IN up
RootOf(c) == Last(Chain(c)[Cardinality(Nodes)])

\* One pass of the loop: pop, skip or record, push the children reversed.
Visit(w) ==
    IF w.stack = << >> THEN w
    ELSE LET cid == Last(w.stack)
             rest == Front(w.stack) IN
         IF cid \in ToSet(w.order) \/ cid \notin Nodes THEN [w EXCEPT !.stack = rest]
         ELSE [stack |-> rest \o Reverse(Children(cid)), order |-> Append(w.order, cid)]

Walk(root) ==
    LET walk[n \in 0..Cardinality(Nodes)] ==
            IF n = 0 THEN [stack |-> <<root>>, order |-> << >>] ELSE Visit(walk[n - 1])
    IN walk
Subtree(root) == Walk(root)[Cardinality(Nodes)].order

Climbed(c, root) ==
    LET up[n \in 0..Cardinality(Nodes)] ==
            IF n = 0 THEN [at |-> c, depth |-> 0]
            ELSE LET w == up[n - 1] IN
                 IF w.at = root \/ NodeParent(w.at) \notin Nodes THEN w
                 ELSE [at |-> NodeParent(w.at), depth |-> w.depth + 1]
    IN up
DepthOf(c, root) == Climbed(c, root)[Cardinality(Nodes)].depth

ScopeIds(c, scope) ==
    LET tree == scope = "hierarchy" \/ (scope = "auto" /\ NodeParent(c) = NoConv) IN
    IF c \notin Nodes THEN (IF scope = "self" THEN <<c>> ELSE << >>)
    ELSE IF tree THEN Subtree(RootOf(c)) ELSE <<c>>

\* The conversations that parent links among listed conversations connect
\* with c: every set of them that has c and is closed under the links has
\* them too.
ClosedUnderLinks(S) ==
    \A d \in S, e \in Nodes : NodeParent(d) = e \/ NodeParent(e) = d => e \in S
Linked(c) == {d \in Nodes : \A S \in SUBSET Nodes : c \in S /\ ClosedUnderLinks(S) => d \in S}

\* The scope of an export or artifact list (hierarchy_service.py:1-9): every
\* conversation of the tree exactly once, parents before children and one
\* level above them, orphans of a deleted parent not dropped.
ScopeIsTree ==
    \A c \in Nodes :
        LET s == ScopeIds(c, "hierarchy") IN
        /\ IsInjective(s)
        /\ ToSet(s) = Linked(c)
        /\ \A i \in 2..Len(s) :
              /\ \E j \in 1..(i - 1) : s[j] = NodeParent(s[i])
              /\ DepthOf(s[i], s[1]) = DepthOf(NodeParent(s[i]), s[1]) + 1

-----------------------------------------------------------------------------
(***************************************************************************)
(* GET /conversations: the newest below the cursor, LIMIT, then the        *)
(* deleted ones dropped; a full page has a cursor, its last updated_at     *)
(* (and its last id, which the query does not use).                        *)
(***************************************************************************)
\* CLUSTERING ORDER BY (updated_at DESC, conversation_id ASC).
Ahead(e, g) ==
    \/ Ms[e.stamp] > Ms[g.stamp]
    \/ SameMs(e.stamp, g.stamp) /\ IdRank[e.conv] < IdRank[g.conv]

Below(cursor) == {e \in catalogue : Ms[e.stamp] < cursor}

Page(cursor) ==
    {e \in Below(cursor) : /\ Cardinality({g \in Below(cursor) : Ahead(g, e)}) < PageLimit
                           /\ e.status # "deleted"}

\* Mutant of HasMore: a full page is taken for the last one.
MoreThanFull(items) == Cardinality(items) > PageLimit

HasMore(items) == Cardinality(items) = PageLimit

\* 0: there is no cursor, and below 0 there is nothing.
NextCursor(items) == IF HasMore(items) THEN Min({Ms[e.stamp] : e \in items}) ELSE 0

\* The cursors a client gets by following next_cursor from the first page.
Cursors[n \in 0..Cardinality(catalogue)] ==
    IF n = 0 THEN Ms[MaxClock] + 1 ELSE NextCursor(Page(Cursors[n - 1]))

\* Following the cursors lists every conversation once and newest first
\* (conversations.py:68, 70-89), as long as none is waiting to be purged (a
\* deleted entry shortens its page, and a short page has no cursor).  What a
\* client can miss is only an entry updated in the very millisecond a full page
\* ends with: `updated_at < ?` jumps over the rest of that millisecond.
ListReachesAll ==
    (\A e \in catalogue : e.status # "deleted") =>
        /\ \A e \in catalogue :
              \E n \in DOMAIN Cursors : e \in Page(Cursors[n]) \/ Ms[e.stamp] = Cursors[n]
        /\ \A k, n \in DOMAIN Cursors : k < n =>
              \A e \in Page(Cursors[k]), g \in Page(Cursors[n]) : Ms[g.stamp] < Ms[e.stamp]
=============================================================================
