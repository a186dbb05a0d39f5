------------------------- MODULE ConversationProofs -------------------------
(***************************************************************************)
(* Theorems about Conversation and BranchContext, for every set of         *)
(* conversations and requests and every bound: types, the agreement of the *)
(* two tables, that a purge is not undone, that a branch inherits nothing  *)
(* written after it was made, in the order of its ancestors, what the      *)
(* pages of the list reach, and that the tree of a listing leaves out no   *)
(* conversation.                                                           *)
(***************************************************************************)
EXTENDS BranchContext, FiniteSetTheorems, WellFoundedInduction, TLAPS

-----------------------------------------------------------------------------
(* The inductive invariant. *)

Exists(c) == made[c] # NoRow

\* What a conversation was created with: before now, from a parent that was
\* there, at a message the parent had by then.
MadeInOrder ==
    \A c \in Convs : Exists(c) =>
        /\ 0 < made[c].created /\ made[c].created <= clock
        /\ made[c].branch <= made[c].created
        /\ made[c].parent # NoConv =>
              Exists(made[c].parent) /\ made[made[c].parent].created < made[c].created

\* A row, copied or stale, may be one of conversation c: what is never updated
\* is as it was created, but for a branch message that Redis lost, unless an
\* UPDATE has left a ghost.
RowFits(c, r) ==
    r # NoRow =>
        /\ Exists(c)
        /\ ~Ghost(r) => /\ r.created = made[c].created
                        /\ r.parent = made[c].parent
                        /\ r.branch \in {0, made[c].branch}

RowsFit == \A c \in Convs : RowFits(c, table[c]) /\ RowFits(c, cache[c])

\* A message is written after its conversation was made.
MessagesFit ==
    \A c \in Convs : \A m \in messages[c] : Exists(c) /\ made[c].created < m /\ m <= clock

\* The part of an ancestor that a walk has taken up ends before its child began.
SegmentFits(seg) ==
    /\ Exists(seg.child) /\ Exists(seg.conv)
    /\ seg.upto <= made[seg.child].created
    /\ seg.upto = 0 => seg.time <= made[seg.child].created

\* A walk is on its way up: it holds a row of the conversation below, which is
\* not younger than the ancestors it has passed, and neither are they.
WalkFits(r) ==
    /\ r.cur # NoRow /\ ~Ghost(r.cur) /\ RowFits(r.below, r.cur)
    /\ \A i \in 1..Len(r.segs) :
          /\ SegmentFits(r.segs[i])
          /\ made[r.below].created <= made[r.segs[i].conv].created
    /\ \A i, j \in 1..Len(r.segs) :
          i < j => made[r.segs[j].child].created <= made[r.segs[i].conv].created

\* A request is in ConversationService.get.
Getting == {"cache", "select", "fill"}

\* What a request holds on to is true of the conversation it is about.
RequestFits(r) ==
    /\ r.pc # "idle" /\ r.kind # "create" => Exists(r.conv)
    /\ r.pc = "fill" => RowFits(r.at, r.held)
    /\ r.pc = "batch" => r.sel # NoRow /\ ~Ghost(r.sel) /\ RowFits(r.conv, r.sel)
    /\ r.pc = "after" => RowFits(r.conv, r.held)
    /\ r.kind = "create" /\ r.pc \in Getting \cup {"point"} =>
          r.checked /\ Exists(r.at)
    /\ r.kind = "create" /\ r.pc = "insert" /\ r.at # r.conv =>
          Exists(r.at) /\ r.cur.branch <= clock
    /\ r.kind = "context" /\ ~r.checked => r.below = r.at /\ r.segs = << >>
    /\ r.kind = "context" /\ r.checked =>
          WalkFits(r) /\ (r.pc \in Getting => r.at = r.cur.parent)
    /\ r.pc = "report" => r.kind = "context" /\ r.checked
    /\ r.pc \in {"point", "insert"} => r.kind = "create"

RequestsFit == \A r \in {op[o] : o \in Ops} : RequestFits(r)

\* Until its insert a request that creates a conversation has the id for itself.
Creating(o) == op[o].kind = "create"
CreatorsAlone ==
    /\ \A o \in Ops : Creating(o) /\ op[o].pc # "after" => ~Exists(op[o].conv)
    /\ \A o, q \in Ops : Creating(o) /\ Creating(q) /\ op[o].conv = op[q].conv => o = q

\* The event of a purge under way is not committed.
PurgeIsDue == cleaner.pc # "idle" => purge[cleaner.conv] > 0

\* Only what was made has been written.
TiedMade == \A c \in tied : Exists(c)

Inv == /\ TypeOK /\ MadeInOrder /\ RowsFit /\ MessagesFit /\ RequestsFit /\ CreatorsAlone
       /\ PurgeIsDue /\ TiedMade /\ CatalogueMatches

\* The boundaries a walk has found are in the order of the tree: everything
\* inherited from a nearer ancestor was written after everything inherited
\* from one further up, or in the same millisecond.
AncestorsInOrder ==
    \A o \in Resolved : \A i, j \in 1..Len(op[o].segs) :
        i < j => \A m \in SegmentMessages(op[o].segs[i]), k \in SegmentMessages(op[o].segs[j]) :
            Ms[k] <= Ms[m]
-----------------------------------------------------------------------------
(* Types. *)

\* A conversation that was never made has the row that is none.
LEMMA RowsTyped ==
    /\ NoRow \in Row /\ RootRow \in Row /\ BranchRow \in Row
    /\ NoRow.created = 0 /\ RootRow.created = 1 /\ BranchRow.created = 4
    /\ NoRow.parent = NoConv /\ RootRow.parent = NoConv /\ BranchRow.parent = Root
    /\ RootRow.branch = 0 /\ BranchRow.branch = 2
    /\ ~Ghost(RootRow) /\ ~Ghost(BranchRow) /\ RootRow # NoRow /\ BranchRow # NoRow
<1>1. 0 \in Times /\ 1 \in Times /\ 2 \in Times /\ 4 \in Times
  BY BoundsAssumption DEF Times
<1> QED BY <1>1, RootAssumption DEF RootRow, BranchRow, NoRow, Row, Titles, Statuses, Ghost

\* A request at rest.
LEMMA IdleTyped == Idle \in OpType /\ Idle.pc = "idle" /\ Idle.kind = "get" /\ ~Idle.checked
BY RowsTyped, RootAssumption DEF Idle, OpType, Steps, Kinds, Titles

\* The head of the loop in lineage.
LEMMA ClimbTyped ==
    ASSUME NEW r \in OpType
    PROVE  /\ Climb(r) \in OpType
           /\ \/ /\ Climb(r) = [r EXCEPT !.pc = "cache", !.at = r.cur.parent]
                 /\ r.cur.parent \in Convs
              \/ Climb(r) = [r EXCEPT !.pc = "report"]
<1>1. r.cur.parent \in Convs \cup {NoConv}
  BY DEF OpType, Row
<1>2. [r EXCEPT !.pc = "report"] \in OpType
  BY DEF OpType, Steps
<1>3. r.cur.parent \in Convs => [r EXCEPT !.pc = "cache", !.at = r.cur.parent] \in OpType
  BY DEF OpType, Steps
<1> QED BY <1>1, <1>2, <1>3 DEF Climb

\* One more ancestor.
Taken(r) == [r EXCEPT !.segs = Append(@, Boundary(r.below, r.cur)), !.cur = r.held, !.below = r.at]

\* It keeps the types.
LEMMA TakenTyped ==
    ASSUME NEW r \in OpType, r.cur.parent \in Convs
    PROVE  Boundary(r.below, r.cur) \in Segments /\ Taken(r) \in OpType
<1>1. Boundary(r.below, r.cur) \in Segments
  <2>1. r.cur \in Row /\ r.below \in Convs /\ 0 \in Times
    BY BoundsAssumption DEF OpType, Times
  <2>2. r.cur.branch \in Times /\ r.cur.created \in Times
    BY <2>1 DEF Row
  <2> QED BY <2>1, <2>2 DEF Boundary, Segments
<1>2. Append(r.segs, Boundary(r.below, r.cur)) \in Seq(Segments)
  BY <1>1 DEF OpType
<1>3. r.held \in Row /\ r.at \in Convs
  BY DEF OpType
<1> HIDE DEF Boundary
<1> QED BY <1>1, <1>2, <1>3 DEF Taken, OpType

\* What a request does with the row that get returned.
LEMMA GotTyped ==
    ASSUME NEW r \in OpType, r.checked /\ r.kind = "context" => r.cur.parent \in Convs
    PROVE  Got(r) \in OpType
<1>0. r.held \in Row /\ r.held.title \in Titles
  BY DEF OpType, Row
<1>1. Owner(r) \in OpType
  <2> DEFINE x == [r EXCEPT !.checked = TRUE, !.cur = r.held]
  <2>1. x \in OpType
    BY <1>0 DEF OpType
  <2>2. [r EXCEPT !.checked = TRUE, !.pc = "cache"] \in OpType
    BY DEF OpType, Steps
  <2>3. Climb(x) \in OpType
    BY <2>1, ClimbTyped
  <2> HIDE DEF x
  <2>4. Owner(r) \in {Idle, Climb(x), [r EXCEPT !.checked = TRUE, !.pc = "cache"]}
    BY DEF Owner, x
  <2> QED BY <2>2, <2>3, <2>4, IdleTyped
<1>2. ASSUME r.checked /\ r.kind = "context" PROVE Ancestor(r) \in OpType
  <2>1. [r EXCEPT !.pc = "report"] \in OpType
    BY DEF OpType, Steps
  <2>2. Climb(Taken(r)) \in OpType
    BY <1>2, TakenTyped, ClimbTyped
  <2> QED BY <2>1, <2>2 DEF Ancestor, Taken
<1>3. Parent(r) \in OpType
  BY IdleTyped DEF Parent, OpType, Steps
<1>4. Handler(r) \in OpType
  <2> DEFINE step == IF r.kind = "delete" THEN "retitle" ELSE "reread"
             title == IF r.kind = "rename" THEN "renamed" ELSE r.held.title
  <2>1. step \in Steps /\ title \in Titles
    BY <1>0 DEF Steps, Titles
  <2>2. [r EXCEPT !.pc = step, !.title = title] \in OpType
    <3> HIDE DEF step, title
    <3> QED BY <2>1 DEF OpType
  <2> QED BY <2>2, IdleTyped DEF Handler
<1> QED BY <1>1, <1>2, <1>3, <1>4 DEF Got
\* A request moves to a state of the right kind.
LEMMA SetTyped ==
    ASSUME TypeOK, NEW o \in Ops, NEW r \in OpType, Set(o, r)
    PROVE  op' \in [Ops -> OpType]
BY DEF TypeOK, Set

\* Requests as they start.
LEMMA BeginTyped ==
    ASSUME TypeOK, NEW o \in Ops, Request(o) \/ TitleEvent(o) \/ CreateBranch(o) \/ CreateRoot(o)
    PROVE  TypeOK'
<1>1. ASSUME NEW r \in OpType, Begin(o, r) PROVE TypeOK'
  <2>1. op' \in [Ops -> OpType]
    BY <1>1, SetTyped DEF Begin
  <2>2. started' \in 0..MaxOps
    BY <1>1, BoundsAssumption DEF Begin, TypeOK
  <2> QED BY <1>1, <2>1, <2>2 DEF Begin, TypeOK
<1>2. CASE Request(o)
  <2>1. PICK k \in {"get", "rename", "archive", "delete", "context"}, c \in Convs :
           Begin(o, [Idle EXCEPT !.pc = "cache", !.kind = k, !.conv = c, !.at = c, !.below = c])
    BY <1>2 DEF Request
  <2>2. [Idle EXCEPT !.pc = "cache", !.kind = k, !.conv = c, !.at = c, !.below = c] \in OpType
    BY IdleTyped DEF OpType, Steps, Kinds
  <2> QED BY <1>1, <2>1, <2>2
<1>3. CASE TitleEvent(o)
  <2>1. PICK c \in Convs :
           Begin(o, [Idle EXCEPT !.pc = "reread", !.kind = "title", !.conv = c, !.at = c,
                                 !.title = "generated"])
    BY <1>3 DEF TitleEvent
  <2>2. [Idle EXCEPT !.pc = "reread", !.kind = "title", !.conv = c, !.at = c,
                     !.title = "generated"] \in OpType
    BY IdleTyped DEF OpType, Steps, Kinds, Titles
  <2> QED BY <1>1, <2>1, <2>2
<1>4. CASE CreateBranch(o)
  <2>1. PICK c \in Convs, p \in Convs :
           Begin(o, [Idle EXCEPT !.pc = "cache", !.kind = "create", !.conv = c, !.at = p,
                                 !.checked = TRUE])
    BY <1>4 DEF CreateBranch
  <2>2. [Idle EXCEPT !.pc = "cache", !.kind = "create", !.conv = c, !.at = p,
                     !.checked = TRUE] \in OpType
    BY IdleTyped DEF OpType, Steps, Kinds
  <2> QED BY <1>1, <2>1, <2>2
<1>5. CASE CreateRoot(o)
  <2>1. PICK c \in Convs :
           Begin(o, [Idle EXCEPT !.pc = "insert", !.kind = "create", !.conv = c, !.at = c,
                                 !.checked = TRUE])
    BY <1>5 DEF CreateRoot
  <2>2. [Idle EXCEPT !.pc = "insert", !.kind = "create", !.conv = c, !.at = c,
                     !.checked = TRUE] \in OpType
    BY IdleTyped DEF OpType, Steps, Kinds
  <2> QED BY <1>1, <2>1, <2>2
<1> QED BY <1>2, <1>3, <1>4, <1>5

\* The steps of get.
LEMMA GetTyped ==
    ASSUME TypeOK, RequestsFit, NEW o \in Ops, GetSteps(o)
    PROVE  TypeOK'
<1>0. op[o] \in OpType /\ table \in [Convs -> Row] /\ cache \in [Convs -> Row]
      /\ op[o].at \in Convs /\ op[o].held \in Row
  BY DEF TypeOK, OpType
<1>1. op[o].pc \in Getting /\ op[o].checked /\ op[o].kind = "context"
         => op[o].cur.parent \in Convs
  BY <1>0 DEF RequestsFit, RequestFits
<1>g. ASSUME NEW row \in Row, op[o].pc \in Getting
      PROVE  Got([op[o] EXCEPT !.held = row]) \in OpType
  <2> DEFINE x == [op[o] EXCEPT !.held = row]
  <2>1. /\ x \in OpType /\ x.cur = op[o].cur /\ x.checked = op[o].checked
        /\ x.kind = op[o].kind
    BY <1>0 DEF OpType
  <2> HIDE DEF x
  <2>2. x.checked /\ x.kind = "context" => x.cur.parent \in Convs
    BY <1>1, <1>g, <2>1
  <2> QED BY <2>1, <2>2, GotTyped DEF x
<1>2. CASE ReadCache(o)
  <2> DEFINE hit == cache[op[o].at]
             x == IF hit = NoRow THEN [op[o] EXCEPT !.pc = "select"]
                  ELSE Got([op[o] EXCEPT !.held = hit])
  <2>1. [op[o] EXCEPT !.pc = "select"] \in OpType
    BY <1>0 DEF OpType, Steps
  <2>2. x \in OpType
    BY <1>0, <1>2, <1>g, <2>1 DEF ReadCache, Getting
  <2>3. Set(o, x)
    BY <1>2 DEF ReadCache
  <2> HIDE DEF x
  <2>4. op' \in [Ops -> OpType]
    BY <2>2, <2>3, SetTyped
  <2> QED BY <1>2, <2>4 DEF ReadCache, TypeOK
<1>3. CASE ReadTable(o)
  <2> DEFINE row == table[op[o].at]
             x == IF row = NoRow THEN Got([op[o] EXCEPT !.held = row])
                  ELSE [op[o] EXCEPT !.held = row, !.pc = "fill"]
  <2>1. [op[o] EXCEPT !.held = row, !.pc = "fill"] \in OpType
    BY <1>0 DEF OpType, Steps
  <2>2. x \in OpType
    BY <1>0, <1>3, <1>g, <2>1 DEF ReadTable, Getting
  <2>3. Set(o, x)
    BY <1>3 DEF ReadTable
  <2> HIDE DEF x
  <2>4. op' \in [Ops -> OpType]
    BY <2>2, <2>3, SetTyped
  <2> QED BY <1>3, <2>4 DEF ReadTable, TypeOK
<1>4. CASE Fill(o)
  <2>1. Got(op[o]) \in OpType
    BY <1>0, <1>1, <1>4, GotTyped DEF Fill, Getting
  <2>2. op' \in [Ops -> OpType]
    BY <1>4, <2>1, SetTyped DEF Fill
  <2>3. cache' \in [Convs -> Row]
    BY <1>0, <1>4 DEF Fill
  <2> QED BY <1>4, <2>2, <2>3 DEF Fill, TypeOK
<1> QED BY <1>2, <1>3, <1>4 DEF GetSteps

\* The row that a batch describes and the one it leaves.
LEMMA BatchTyped ==
    ASSUME TypeOK, NEW o \in Ops, clock < MaxClock, NEW row \in Row
    PROVE  /\ Written(op[o], clock + 1) \in Row
           /\ Updated(row, op[o], Written(op[o], clock + 1)) \in Row
<1>0. op[o] \in OpType /\ clock + 1 \in Times
  BY BoundsAssumption DEF TypeOK, Times
<1>1. op[o].sel \in Row /\ op[o].held \in Row /\ op[o].title \in Titles
  BY <1>0 DEF OpType
<1>2. NewStatus(op[o]) \in Statuses
  BY <1>1 DEF NewStatus, Row, Statuses
<1>3. Written(op[o], clock + 1) \in Row
  BY <1>0, <1>1, <1>2 DEF Written, Row
<1> QED BY <1>3 DEF Updated, Row

\* A catalogue entry of a row.
LEMMA EntryTyped ==
    ASSUME NEW c \in Convs, NEW r \in Row
    PROVE  Entry(c, r) \in Entries
BY DEF Entry, Entries, Row

\* The row that an insert writes.
NewRow(r) == [title |-> "given", created |-> clock + 1, stamp |-> clock + 1, status |-> "active",
              parent |-> IF r.at = r.conv THEN NoConv ELSE r.at,
              branch |-> IF r.at = r.conv THEN 0 ELSE r.cur.branch]

\* The row of a new conversation.
LEMMA NewRowTyped ==
    ASSUME TypeOK, NEW o \in Ops, clock < MaxClock
    PROVE  NewRow(op[o]) \in Row
<1>1. op[o] \in OpType /\ clock + 1 \in Times /\ 0 \in Times
  BY BoundsAssumption DEF TypeOK, Times
<1>2. op[o].at \in Convs /\ op[o].cur.branch \in Times
  BY <1>1 DEF OpType, Row
<1> QED BY <1>1, <1>2 DEF NewRow, Row, Titles, Statuses

\* The steps of the handlers.
LEMMA HandlerTyped ==
    ASSUME TypeOK, NEW o \in Ops, HandlerSteps(o)
    PROVE  TypeOK'
<1>0. /\ op[o] \in OpType /\ table \in [Convs -> Row] /\ cache \in [Convs -> Row]
      /\ op[o].at \in Convs /\ op[o].conv \in Convs /\ op[o].held \in Row
      /\ clock \in Times
  BY DEF TypeOK, OpType
<1>t. Tick => clock' \in Times
  BY <1>0, BoundsAssumption DEF Tick, Times
<1>e. End(o) => op' \in [Ops -> OpType]
  BY IdleTyped, SetTyped DEF End
<1>1. CASE Retitle(o)
  <2>1. [op[o] EXCEPT !.pc = "reread", !.title = table[op[o].conv].title] \in OpType
    <3>1. table[op[o].conv].title \in Titles
      BY <1>0 DEF Row
    <3> QED BY <1>0, <3>1 DEF OpType, Steps
  <2>2. op' \in [Ops -> OpType]
    BY <1>1, <1>e, <2>1, SetTyped DEF Retitle
  <2> QED BY <1>1, <2>2 DEF Retitle, TypeOK
<1>2. CASE Reread(o)
  <2>1. [op[o] EXCEPT !.pc = "batch", !.sel = table[op[o].conv]] \in OpType
    BY <1>0 DEF OpType, Steps
  <2>2. op' \in [Ops -> OpType]
    BY <1>2, <1>e, <2>1, SetTyped DEF Reread
  <2> QED BY <1>2, <2>2 DEF Reread, TypeOK
<1>3. CASE Batch(o)
  <2> DEFINE c == op[o].conv
             new == Written(op[o], clock + 1)
  <2>0. clock < MaxClock
    BY <1>3 DEF Batch, Tick
  <2>1. new \in Row /\ Updated(table[c], op[o], new) \in Row
    BY <1>0, <2>0, BatchTyped
  <2>2. table' = [table EXCEPT ![c] = Updated(table[c], op[o], new)]
    BY <1>0, <1>3 DEF Batch
  <2>3. catalogue' = Replace(c, op[o].sel, new) /\ Set(o, [op[o] EXCEPT !.pc = "after", !.held = new])
    BY <1>3 DEF Batch
  <2> HIDE DEF new
  <2>4. table' \in [Convs -> Row]
    BY <1>0, <2>1, <2>2
  <2>5. catalogue' \subseteq Entries
    BY <1>0, <2>1, <2>3, EntryTyped DEF Replace, TypeOK
  <2>6. op' \in [Ops -> OpType]
    <3>1. [op[o] EXCEPT !.pc = "after", !.held = new] \in OpType
      BY <1>0, <2>1 DEF OpType, Steps
    <3> QED BY <2>3, <3>1, SetTyped
  <2>7. purge' \in [Convs -> Nat] /\ lost' \subseteq Convs /\ tied' \subseteq Convs
    BY <1>0, <1>3 DEF Batch, TypeOK
  <2> QED BY <1>3, <1>t, <2>4, <2>5, <2>6, <2>7 DEF Batch, TypeOK
<1>4. CASE After(o)
  <2>1. Cached(op[o]) \in Row
    <3>1. 0 \in Times
      BY BoundsAssumption DEF Times
    <3>2. [op[o].held EXCEPT !.branch = 0] \in Row
      BY <1>0, <3>1 DEF Row
    <3> QED BY <1>0, <3>2, RowsTyped DEF Cached
  <2>2. cache' \in [Convs -> Row]
    BY <1>0, <1>4, <2>1 DEF After
  <2> QED BY <1>4, <1>e, <2>2 DEF After, TypeOK
<1>5. CASE Point(o)
  <2>1. PICK m \in Points(op[o].at) :
           Set(o, [op[o] EXCEPT !.pc = "insert", !.cur = [op[o].held EXCEPT !.branch = m]])
    BY <1>5 DEF Point
  <2>2. m \in Times
    BY <1>0, BoundsAssumption DEF Points, TypeOK, Times
  <2>3. [op[o].held EXCEPT !.branch = m] \in Row
    BY <1>0, <2>2 DEF Row
  <2>4. [op[o] EXCEPT !.pc = "insert", !.cur = [op[o].held EXCEPT !.branch = m]] \in OpType
    BY <1>0, <2>3 DEF OpType, Steps
  <2>5. op' \in [Ops -> OpType]
    BY <2>1, <2>4, SetTyped
  <2> QED BY <1>5, <2>5 DEF Point, TypeOK
<1>6. CASE Insert(o)
  <2> DEFINE r == op[o]
             new == NewRow(r)
  <2>0. clock < MaxClock
    BY <1>6 DEF Insert, Tick
  <2>1. new \in Row
    BY <2>0, NewRowTyped
  <2>2. /\ table' = [table EXCEPT ![r.conv] = new]
        /\ catalogue' = catalogue \cup {Entry(r.conv, new)}
        /\ made' = [made EXCEPT ![r.conv] = new]
        /\ Set(o, [r EXCEPT !.pc = "after", !.held = new])
    BY <1>6 DEF Insert, NewRow
  <2> HIDE DEF new
  <2>3. table' \in [Convs -> Row] /\ made' \in [Convs -> Row]
    BY <1>0, <2>1, <2>2 DEF TypeOK
  <2>4. catalogue' \subseteq Entries
    BY <1>0, <2>1, <2>2, EntryTyped DEF TypeOK
  <2>5. op' \in [Ops -> OpType]
    <3>1. [r EXCEPT !.pc = "after", !.held = new] \in OpType
      BY <1>0, <2>1 DEF OpType, Steps
    <3> QED BY <2>2, <3>1, SetTyped
  <2> QED BY <1>6, <1>t, <2>3, <2>4, <2>5 DEF Insert, TypeOK
<1>7. CASE Report(o)
  BY <1>7, <1>e DEF Report, TypeOK
<1> QED BY <1>1, <1>2, <1>3, <1>4, <1>5, <1>6, <1>7 DEF HandlerSteps

\* The cleanup worker, arriving messages and expiring copies.
LEMMA CleanupTyped ==
    ASSUME TypeOK, PurgeIsDue,
           \/ Cleanup \/ CleanupFails \/ CleanupCrashes
           \/ \E c \in Convs : NewMessage(c) \/ Expire(c)
    PROVE  TypeOK'
<1> DEFINE CleanerState == [pc : {"idle", "evicted", "emptied", "selected", "commit"},
                            conv : Convs, sel : Row]
<1>0. /\ table \in [Convs -> Row] /\ cache \in [Convs -> Row] /\ clock \in Times
      /\ messages \in [Convs -> SUBSET Times] /\ purge \in [Convs -> Nat]
      /\ cleaner \in CleanerState /\ cleaner.conv \in Convs /\ Rest \in CleanerState
  BY RowsTyped, RootAssumption DEF TypeOK, Rest
<1>c. cleaner' \in CleanerState => cleaner' \in [pc : {"idle", "evicted", "emptied", "selected", "commit"},
                                              conv : Convs, sel : Row]
  OBVIOUS
<1>m. ASSUME NEW s \in {"emptied", "commit"} PROVE [cleaner EXCEPT !.pc = s] \in CleanerState
  BY <1>0
<1>f. faults < MaxFaults /\ faults' = faults + 1 => faults' \in 0..MaxFaults
  BY BoundsAssumption DEF TypeOK
<1>t. Tick => clock' \in Times /\ clock + 1 \in Times
  BY <1>0, BoundsAssumption DEF Tick, Times
<1> HIDE DEF CleanerState
<1>1. CASE Consume
  <2>1. PICK c \in Convs : /\ cleaner' = [pc |-> "evicted", conv |-> c, sel |-> NoRow]
                           /\ cache' = [cache EXCEPT ![c] = NoRow]
    BY <1>1 DEF Consume
  <2>2. cleaner' \in CleanerState /\ cache' \in [Convs -> Row]
    BY <1>0, <2>1, RowsTyped DEF CleanerState
  <2> QED BY <1>1, <1>c, <2>2 DEF Consume, TypeOK
<1>2. CASE PurgeMessages
  <2>1. cleaner' \in CleanerState
    BY <1>2, <1>m DEF PurgeMessages
  <2>2. messages' \in [Convs -> SUBSET Times]
    BY <1>0, <1>2 DEF PurgeMessages
  <2> QED BY <1>2, <1>c, <2>1, <2>2 DEF PurgeMessages, TypeOK
<1>3. CASE PurgeRead
  <2>1. cleaner' \in CleanerState
    BY <1>0, <1>3 DEF PurgeRead, CleanerState
  <2> QED BY <1>3, <1>c, <2>1 DEF PurgeRead, TypeOK
<1>4. CASE PurgeRow
  <2>1. cleaner' \in CleanerState
    BY <1>4, <1>m DEF PurgeRow
  <2>2. table' \in [Convs -> Row] /\ catalogue' \subseteq Entries /\ lost' \subseteq Convs
    BY <1>0, <1>4, RowsTyped DEF PurgeRow, TypeOK
  <2> QED BY <1>4, <1>c, <2>1, <2>2 DEF PurgeRow, TypeOK
<1>5. CASE Commit
  <2>1. purge' \in [Convs -> Nat]
    BY <1>0, <1>5 DEF Commit, PurgeIsDue
  <2> QED BY <1>0, <1>5, <1>c, <2>1 DEF Commit, TypeOK
<1>6. CASE CleanupFails
  <2>1. cleaner' \in CleanerState
    BY <1>6, <1>m DEF CleanupFails
  <2> QED BY <1>0, <1>6, <1>c, <1>f, <2>1 DEF CleanupFails, TypeOK
<1>7. CASE CleanupCrashes
  BY <1>0, <1>7, <1>c, <1>f DEF CleanupCrashes, TypeOK
<1>8. ASSUME NEW c \in Convs, NewMessage(c) PROVE TypeOK'
  <2>1. messages' \in [Convs -> SUBSET Times]
    BY <1>0, <1>8, <1>t DEF NewMessage
  <2> QED BY <1>8, <1>t, <2>1 DEF NewMessage, TypeOK
<1>9. ASSUME NEW c \in Convs, Expire(c) PROVE TypeOK'
  BY <1>0, <1>9, RowsTyped DEF Expire, TypeOK
<1> QED BY <1>1, <1>2, <1>3, <1>4, <1>5, <1>6, <1>7, <1>8, <1>9 DEF Cleanup

\* Every step keeps the types.
LEMMA Typed ==
    ASSUME TypeOK, RequestsFit, PurgeIsDue, Next
    PROVE  TypeOK'
BY BeginTyped, GetTyped, HandlerTyped, CleanupTyped DEF Next
-----------------------------------------------------------------------------
(* Conversations are made one after the other and keep what they are made  *)
(* with; so what fits them goes on to fit.                                 *)

Growing == clock <= clock' /\ \A c \in Convs : Exists(c) => made'[c] = made[c]

\* The only step that makes a conversation is the insert of its creator.
LEMMA Grows ==
    ASSUME TypeOK, RequestsFit, CreatorsAlone, Next
    PROVE  Growing
<1>0. clock \in Nat
  BY BoundsAssumption DEF TypeOK, Times
<1>u. UNCHANGED <<clock, made>> \/ (Tick /\ UNCHANGED made) => Growing
  BY <1>0 DEF Growing, Tick
<1>1. ASSUME NEW o \in Ops, Insert(o) PROVE Growing
  <2>1. ~Exists(op[o].conv)
    BY <1>1 DEF Insert, CreatorsAlone, Creating, RequestsFit, RequestFits
  <2> QED BY <1>0, <1>1, <2>1 DEF Insert, Growing, Tick, TypeOK
<1>2. ASSUME NEW o \in Ops, Request(o) \/ TitleEvent(o) \/ CreateBranch(o) \/ CreateRoot(o)
      PROVE Growing
  BY <1>2, <1>u DEF Request, TitleEvent, CreateBranch, CreateRoot, Begin
<1>3. ASSUME NEW o \in Ops, GetSteps(o) PROVE Growing
  BY <1>3, <1>u DEF GetSteps, ReadCache, ReadTable, Fill
<1>4. ASSUME NEW o \in Ops, HandlerSteps(o), ~Insert(o) PROVE Growing
  BY <1>4, <1>u DEF HandlerSteps, Retitle, Reread, Batch, After, Point, Report
<1>5. CASE Cleanup \/ CleanupFails \/ CleanupCrashes
  BY <1>5, <1>u DEF Cleanup, Consume, PurgeMessages, PurgeRead, PurgeRow, Commit,
                    CleanupFails, CleanupCrashes
<1>6. ASSUME NEW c \in Convs, NewMessage(c) \/ Expire(c) PROVE Growing
  BY <1>6, <1>u DEF NewMessage, Expire
<1> QED BY <1>1, <1>2, <1>3, <1>4, <1>5, <1>6 DEF Next

\* A row goes on to fit its conversation.
LEMMA RowStays ==
    ASSUME Growing, NEW c \in Convs, NEW r, RowFits(c, r)
    PROVE  RowFits(c, r)'
BY DEF Growing, RowFits, Exists, Ghost

\* So does a segment.
LEMMA SegmentStays ==
    ASSUME Growing, NEW seg \in Segments, SegmentFits(seg)
    PROVE  SegmentFits(seg)' /\ made'[seg.child] = made[seg.child] /\ made'[seg.conv] = made[seg.conv]
BY DEF Growing, SegmentFits, Segments, Exists

\* And a walk.
LEMMA WalkStays ==
    ASSUME Growing, NEW r \in OpType, WalkFits(r)
    PROVE  WalkFits(r)'
<1>0. r.below \in Convs /\ r.segs \in Seq(Segments)
  BY DEF OpType
<1>1. r.cur # NoRow /\ ~Ghost(r.cur) /\ RowFits(r.below, r.cur)
  BY DEF WalkFits
<1>2. RowFits(r.below, r.cur)' /\ ~Ghost(r.cur)'
  BY <1>0, <1>1, RowStays DEF Ghost
<1>3. made'[r.below] = made[r.below]
  BY <1>0, <1>1 DEF RowFits, Growing
<1>4. ASSUME NEW i \in 1..Len(r.segs)
      PROVE  /\ r.segs[i] \in Segments
             /\ SegmentFits(r.segs[i])'
             /\ made'[r.segs[i].child] = made[r.segs[i].child]
             /\ made'[r.segs[i].conv] = made[r.segs[i].conv]
  <2>1. r.segs[i] \in Segments
    BY <1>0
  <2>2. SegmentFits(r.segs[i])
    BY DEF WalkFits
  <2> QED BY <2>1, <2>2, SegmentStays
<1>5. \A i \in 1..Len(r.segs) : made'[r.below].created <= made'[r.segs[i].conv].created
  BY <1>3, <1>4 DEF WalkFits
<1>6. \A i, j \in 1..Len(r.segs) :
         i < j => made'[r.segs[j].child].created <= made'[r.segs[i].conv].created
  BY <1>4 DEF WalkFits
<1> QED BY <1>1, <1>2, <1>4, <1>5, <1>6 DEF WalkFits

\* And a request.
LEMMA RequestStays ==
    ASSUME TypeOK, TypeOK', Growing, NEW r \in OpType, RequestFits(r)
    PROVE  RequestFits(r)'
<1>0. /\ r.conv \in Convs /\ r.at \in Convs /\ r.cur.branch \in Nat
      /\ clock \in Nat /\ clock' \in Nat /\ clock <= clock'
  BY BoundsAssumption DEF OpType, Row, Times, TypeOK, Growing
<1>1. \A c \in Convs : Exists(c) => Exists(c)'
  BY DEF Growing, Exists
<1>2. r.pc = "fill" => RowFits(r.at, r.held)'
  BY <1>0, RowStays DEF RequestFits
<1>3. r.pc = "batch" => r.sel # NoRow /\ ~Ghost(r.sel)' /\ RowFits(r.conv, r.sel)'
  BY <1>0, RowStays DEF RequestFits, Ghost
<1>4. r.pc = "after" => RowFits(r.conv, r.held)'
  BY <1>0, RowStays DEF RequestFits
<1>5. r.kind = "context" /\ r.checked => WalkFits(r)'
  BY WalkStays DEF RequestFits
<1>6. /\ r.pc # "idle" /\ r.kind # "create" => Exists(r.conv)'
      /\ r.kind = "create" /\ r.pc \in Getting \cup {"point"} => r.checked /\ Exists(r.at)'
      /\ r.kind = "create" /\ r.pc = "insert" /\ r.at # r.conv =>
            Exists(r.at)' /\ r.cur.branch <= clock'
  BY <1>0, <1>1 DEF RequestFits
<1> QED BY <1>2, <1>3, <1>4, <1>5, <1>6 DEF RequestFits
-----------------------------------------------------------------------------
(* Requests. *)

\* A request at rest holds on to nothing.
LEMMA IdleFits == RequestFits(Idle)
BY IdleTyped DEF RequestFits, Getting

\* The head of the loop keeps what the walk has found.
LEMMA ClimbFits ==
    ASSUME NEW r \in OpType, r.kind = "context", r.checked, Exists(r.conv), WalkFits(r)
    PROVE  RequestFits(Climb(r))
<1>1. CASE Climb(r) = [r EXCEPT !.pc = "cache", !.at = r.cur.parent] /\ r.cur.parent \in Convs
  <2> DEFINE x == [r EXCEPT !.pc = "cache", !.at = r.cur.parent]
  <2>1. /\ x.pc = "cache" /\ x.at = r.cur.parent /\ x.kind = "context" /\ x.checked
        /\ x.conv = r.conv /\ x.cur = r.cur /\ x.below = r.below /\ x.segs = r.segs
    BY DEF OpType
  <2> HIDE DEF x
  <2>2. WalkFits(x)
    BY <2>1 DEF WalkFits
  <2>3. RequestFits(x)
    BY <2>1, <2>2 DEF RequestFits
  <2> QED BY <1>1, <2>3 DEF x
<1>2. CASE Climb(r) = [r EXCEPT !.pc = "report"]
  <2> DEFINE x == [r EXCEPT !.pc = "report"]
  <2>1. /\ x.pc = "report" /\ x.kind = "context" /\ x.checked
        /\ x.conv = r.conv /\ x.cur = r.cur /\ x.below = r.below /\ x.segs = r.segs
    BY DEF OpType
  <2> HIDE DEF x
  <2>2. WalkFits(x)
    BY <2>1 DEF WalkFits
  <2>3. RequestFits(x)
    BY <2>1, <2>2 DEF RequestFits, Getting
  <2> QED BY <1>2, <2>3 DEF x
<1> QED BY <1>1, <1>2, ClimbTyped

\* One more ancestor: its part ends at the boundary of the conversation below,
\* which was made before that conversation.
LEMMA TakenFits ==
    ASSUME TypeOK, MadeInOrder, NEW r \in OpType, WalkFits(r), r.at = r.cur.parent,
           r.held # NoRow, ~Ghost(r.held), RowFits(r.at, r.held)
    PROVE  WalkFits(Taken(r))
<1> DEFINE x == Taken(r)
           seg == Boundary(r.below, r.cur)
           n == Len(r.segs)
<1>0. /\ r.segs \in Seq(Segments) /\ r.cur \in Row /\ r.below \in Convs /\ r.at \in Convs
      /\ n \in Nat
  BY DEF OpType
<1>1. x.segs = Append(r.segs, seg) /\ x.cur = r.held /\ x.below = r.at
  BY DEF Taken, OpType
<1>2. /\ Exists(r.below) /\ r.cur.created = made[r.below].created
      /\ r.cur.parent = made[r.below].parent /\ r.cur.branch \in {0, made[r.below].branch}
  BY DEF WalkFits, RowFits
<1>3. Exists(r.at)
  BY DEF RowFits
<1>n. /\ made[r.below].created \in Nat /\ made[r.below].branch \in Nat /\ made[r.at].created \in Nat
  BY <1>0, SMTT(30) DEF TypeOK, Row, Times
<1>4. made[r.at].created < made[r.below].created /\ made[r.below].branch <= made[r.below].created
  <2>1. r.at # NoConv
    BY <1>0, NoConvAssumption
  <2> QED BY <1>0, <1>2, <2>1 DEF MadeInOrder
<1>5. /\ seg.conv = r.at /\ seg.child = r.below
      /\ seg.upto = r.cur.branch /\ seg.time = IF r.cur.branch = 0 THEN r.cur.created ELSE 0
  BY DEF Boundary
<1>6. seg \in Segments
  BY <1>0, TakenTyped
<1> HIDE DEF x, seg
<1>7. SegmentFits(seg)
  BY <1>2, <1>3, <1>4, <1>5, <1>n DEF SegmentFits
<1>8. ASSUME NEW i \in 1..(n + 1)
      PROVE  /\ i # n + 1 => i \in 1..n /\ x.segs[i] = r.segs[i]
             /\ i = n + 1 => x.segs[i] = seg
  BY <1>0, <1>1, <1>6
<1>9. Len(x.segs) = n + 1
  BY <1>0, <1>1, <1>6
<1>10. ASSUME NEW i \in 1..n
       PROVE  /\ SegmentFits(r.segs[i]) /\ made[r.below].created <= made[r.segs[i].conv].created
              /\ made[r.segs[i].conv].created \in Nat
  <2>1. r.segs[i] \in Segments
    BY <1>0
  <2>2. made[r.segs[i].conv].created \in Nat
    BY <2>1, SMTT(30) DEF Segments, TypeOK, Row, Times
  <2> QED BY <2>2 DEF WalkFits
<1> HIDE DEF n
<1>11. ASSUME NEW i \in 1..Len(x.segs)
       PROVE  SegmentFits(x.segs[i]) /\ made[x.below].created <= made[x.segs[i].conv].created
  <2>1. CASE i = n + 1
    BY <1>0, <1>1, <1>5, <1>7, <1>8, <1>9, <1>n, <2>1
  <2>2. CASE i # n + 1
    BY <1>1, <1>4, <1>8, <1>9, <1>10, <1>n, <2>2
  <2> QED BY <2>1, <2>2
<1>12. ASSUME NEW i \in 1..Len(x.segs), NEW j \in 1..Len(x.segs), i < j
       PROVE  made[x.segs[j].child].created <= made[x.segs[i].conv].created
  <2>1. i \in 1..n /\ x.segs[i] = r.segs[i]
    BY <1>0, <1>8, <1>9, <1>12
  <2>2. CASE j = n + 1
    BY <1>5, <1>8, <1>9, <1>10, <2>1, <2>2
  <2>3. CASE j # n + 1
    BY <1>8, <1>9, <1>12, <2>1, <2>3 DEF WalkFits, n
  <2> QED BY <2>2, <2>3
<1> QED BY <1>1, <1>11, <1>12 DEF WalkFits, x
\* What a request does with the row that get returned.
LEMMA GotFits ==
    ASSUME TypeOK, MadeInOrder, NEW r \in OpType, r.pc \in Getting, RequestFits(r),
           RowFits(r.at, r.held)
    PROVE  RequestFits(Got(r))
<1>0. r.held \in Row /\ r.at \in Convs /\ r.segs \in Seq(Segments) /\ r.checked \in BOOLEAN
  BY DEF OpType
<1>k. r.kind # "create" => Exists(r.conv)
  BY DEF RequestFits, Getting
<1>1. ASSUME ~r.checked PROVE RequestFits(Owner(r))
  <2>0. r.kind # "create"
    BY <1>1 DEF RequestFits
  <2>1. CASE r.held = NoRow \/ Ghost(r.held) \/ r.kind = "get"
    BY <2>1, IdleFits DEF Owner
  <2>2. CASE ~(r.held = NoRow \/ Ghost(r.held) \/ r.kind = "get") /\ r.kind = "context"
    <3> DEFINE x == [r EXCEPT !.checked = TRUE, !.cur = r.held]
    <3>1. x \in OpType
      BY <1>0 DEF OpType
    <3>2. /\ x.kind = r.kind /\ x.checked /\ x.conv = r.conv /\ x.cur = r.held
          /\ x.below = r.below /\ x.segs = r.segs
      BY DEF OpType
    <3>3. r.below = r.at /\ r.segs = << >>
      BY <1>1, <2>2 DEF RequestFits
    <3>4. Owner(r) = Climb(x)
      BY <2>2 DEF Owner
    <3> HIDE DEF x
    <3>5. WalkFits(x)
      <4>1. Len(x.segs) = 0
        BY <3>2, <3>3
      <4> QED BY <2>2, <3>2, <3>3, <4>1 DEF WalkFits
    <3> QED BY <1>k, <2>0, <2>2, <3>1, <3>2, <3>4, <3>5, ClimbFits
  <2>3. CASE ~(r.held = NoRow \/ Ghost(r.held) \/ r.kind = "get") /\ r.kind # "context"
    <3> DEFINE x == [r EXCEPT !.checked = TRUE, !.pc = "cache"]
    <3>1. x.kind = r.kind /\ x.conv = r.conv /\ x.pc = "cache"
      BY DEF OpType
    <3>2. Owner(r) = x
      BY <2>3 DEF Owner
    <3> HIDE DEF x
    <3> QED BY <1>k, <2>0, <2>3, <3>1, <3>2 DEF RequestFits
  <2> QED BY <2>1, <2>2, <2>3
<1>2. ASSUME r.checked, r.kind = "context" PROVE RequestFits(Ancestor(r))
  <2>0. WalkFits(r) /\ r.at = r.cur.parent /\ Exists(r.conv)
    BY <1>2, <1>k DEF RequestFits
  <2>1. CASE r.held = NoRow \/ Ghost(r.held) \/ r.held.status = "deleted"
    <3> DEFINE x == [r EXCEPT !.pc = "report"]
    <3>1. /\ x.pc = "report" /\ x.kind = "context" /\ x.checked
          /\ x.conv = r.conv /\ x.cur = r.cur /\ x.below = r.below /\ x.segs = r.segs
      BY <1>2 DEF OpType
    <3>2. Ancestor(r) = x
      BY <2>1 DEF Ancestor
    <3> HIDE DEF x
    <3>3. WalkFits(x)
      BY <2>0, <3>1 DEF WalkFits
    <3> QED BY <2>0, <3>1, <3>2, <3>3 DEF RequestFits, Getting
  <2>2. CASE ~(r.held = NoRow \/ Ghost(r.held) \/ r.held.status = "deleted")
    <3>1. Ancestor(r) = Climb(Taken(r))
      BY <2>2 DEF Ancestor, Taken
    <3>2. WalkFits(Taken(r))
      BY <2>0, <2>2, TakenFits
    <3>3. Taken(r) \in OpType
      BY <1>0, <2>0, TakenTyped
    <3>4. Taken(r).kind = r.kind /\ Taken(r).checked = r.checked /\ Taken(r).conv = r.conv
      BY DEF Taken, OpType
    <3> QED BY <1>2, <2>0, <3>1, <3>2, <3>3, <3>4, ClimbFits
  <2> QED BY <2>1, <2>2
<1>3. ASSUME r.checked, r.kind = "create" PROVE RequestFits(Parent(r))
  <2> DEFINE x == [r EXCEPT !.pc = "point"]
  <2>1. x.kind = "create" /\ x.pc = "point" /\ x.checked /\ x.at = r.at
    BY <1>3 DEF OpType
  <2>2. Exists(r.at)
    BY <1>3 DEF RequestFits
  <2>3. Parent(r) \in {Idle, x}
    BY DEF Parent
  <2> HIDE DEF x
  <2>4. RequestFits(x)
    BY <2>1, <2>2 DEF RequestFits
  <2> QED BY <2>3, <2>4, IdleFits
<1>4. ASSUME r.checked, r.kind # "context", r.kind # "create" PROVE RequestFits(Handler(r))
  <2> DEFINE step == IF r.kind = "delete" THEN "retitle" ELSE "reread"
             title == IF r.kind = "rename" THEN "renamed" ELSE r.held.title
             x == [r EXCEPT !.pc = step, !.title = title]
  <2>1. x.kind = r.kind /\ x.pc \in {"retitle", "reread"} /\ x.conv = r.conv
    BY DEF OpType
  <2>2. Handler(r) \in {Idle, x}
    BY DEF Handler
  <2> HIDE DEF x
  <2>3. RequestFits(x)
    BY <1>4, <1>k, <2>1 DEF RequestFits, Getting
  <2> QED BY <2>2, <2>3, IdleFits
<1> QED BY <1>0, <1>1, <1>2, <1>3, <1>4 DEF Got

\* A step of one request leaves the others as they are.
LEMMA SetFits ==
    ASSUME TypeOK, TypeOK', Growing, RequestsFit, NEW o \in Ops, NEW r, Set(o, r), RequestFits(r)'
    PROVE  RequestsFit'
<1>1. ASSUME NEW x, NEW q \in Ops, x = op'[q] PROVE RequestFits(x)'
  <2>1. CASE q = o
    <3>1. x = r
      BY <1>1, <2>1 DEF Set, TypeOK
    <3> QED BY <3>1
  <2>2. CASE q # o
    <3>1. x = op[q] /\ x \in OpType /\ RequestFits(x)
      BY <1>1, <2>2 DEF Set, TypeOK, RequestsFit
    <3> QED BY <3>1, RequestStays
  <2> QED BY <2>1, <2>2
<1> QED BY <1>1 DEF RequestsFit
\* Requests as they start.
LEMMA BeginFits ==
    ASSUME TypeOK, NEW o \in Ops, Request(o) \/ TitleEvent(o) \/ CreateBranch(o) \/ CreateRoot(o)
    PROVE  \E r \in OpType : Set(o, r) /\ RequestFits(r)
<1> USE DEF Begin
<1>1. CASE Request(o)
  <2>1. PICK k \in {"get", "rename", "archive", "delete", "context"}, c \in Convs :
           /\ Exists(c)
           /\ Set(o, [Idle EXCEPT !.pc = "cache", !.kind = k, !.conv = c, !.at = c, !.below = c])
    BY <1>1 DEF Request, Exists
  <2> DEFINE x == [Idle EXCEPT !.pc = "cache", !.kind = k, !.conv = c, !.at = c, !.below = c]
  <2>2. x \in OpType
    BY IdleTyped DEF OpType, Steps, Kinds
  <2>3. /\ x.pc = "cache" /\ x.kind = k /\ x.conv = c /\ x.at = c /\ x.below = c
        /\ x.checked = Idle.checked /\ x.segs = Idle.segs
    BY IdleTyped DEF OpType
  <2>4. Idle.segs = << >> /\ ~Idle.checked
    BY DEF Idle
  <2> HIDE DEF x
  <2>5. RequestFits(x)
    BY <2>1, <2>3, <2>4 DEF RequestFits
  <2> QED BY <2>1, <2>2, <2>5 DEF x
<1>2. CASE TitleEvent(o)
  <2>1. PICK c \in Convs :
           /\ Exists(c)
           /\ Set(o, [Idle EXCEPT !.pc = "reread", !.kind = "title", !.conv = c, !.at = c,
                                  !.title = "generated"])
    BY <1>2 DEF TitleEvent, Exists
  <2> DEFINE x == [Idle EXCEPT !.pc = "reread", !.kind = "title", !.conv = c, !.at = c,
                               !.title = "generated"]
  <2>2. x \in OpType
    BY IdleTyped DEF OpType, Steps, Kinds, Titles
  <2>3. x.pc = "reread" /\ x.kind = "title" /\ x.conv = c
    BY IdleTyped DEF OpType
  <2> HIDE DEF x
  <2>4. RequestFits(x)
    BY <2>1, <2>3 DEF RequestFits
  <2> QED BY <2>1, <2>2, <2>4 DEF x
<1>3. CASE CreateBranch(o)
  <2>1. PICK c \in Convs, p \in Convs :
           /\ Exists(p)
           /\ Set(o, [Idle EXCEPT !.pc = "cache", !.kind = "create", !.conv = c, !.at = p,
                                  !.checked = TRUE])
    BY <1>3 DEF CreateBranch, Exists
  <2> DEFINE x == [Idle EXCEPT !.pc = "cache", !.kind = "create", !.conv = c, !.at = p,
                               !.checked = TRUE]
  <2>2. x \in OpType
    BY IdleTyped DEF OpType, Steps, Kinds
  <2>3. x.pc = "cache" /\ x.kind = "create" /\ x.at = p /\ x.checked
    BY IdleTyped DEF OpType
  <2> HIDE DEF x
  <2>4. RequestFits(x)
    BY <2>1, <2>3 DEF RequestFits
  <2> QED BY <2>1, <2>2, <2>4 DEF x
<1>4. CASE CreateRoot(o)
  <2>1. PICK c \in Convs :
           Set(o, [Idle EXCEPT !.pc = "insert", !.kind = "create", !.conv = c, !.at = c,
                               !.checked = TRUE])
    BY <1>4 DEF CreateRoot
  <2> DEFINE x == [Idle EXCEPT !.pc = "insert", !.kind = "create", !.conv = c, !.at = c,
                               !.checked = TRUE]
  <2>2. x \in OpType
    BY IdleTyped DEF OpType, Steps, Kinds
  <2>3. x.pc = "insert" /\ x.kind = "create" /\ x.at = c /\ x.conv = c
    BY IdleTyped DEF OpType
  <2> HIDE DEF x
  <2>4. RequestFits(x)
    BY <2>3 DEF RequestFits, Getting
  <2> QED BY <2>1, <2>2, <2>4 DEF x
<1> QED BY <1>1, <1>2, <1>3, <1>4

\* The steps of get.
LEMMA GetFits ==
    ASSUME TypeOK, MadeInOrder, RowsFit, RequestsFit, NEW o \in Ops, GetSteps(o)
    PROVE  \E r \in OpType : Set(o, r) /\ RequestFits(r)
<1>0. /\ op[o] \in OpType /\ RequestFits(op[o]) /\ table \in [Convs -> Row]
      /\ cache \in [Convs -> Row] /\ op[o].at \in Convs
  BY DEF TypeOK, OpType, RequestsFit
<1>1. op[o].pc \in Getting
  BY DEF GetSteps, ReadCache, ReadTable, Fill, Getting
<1>g. ASSUME NEW row \in Row, RowFits(op[o].at, row), op[o].pc \in {"cache", "select"}
      PROVE  LET x == [op[o] EXCEPT !.held = row] IN Got(x) \in OpType /\ RequestFits(Got(x))
  <2> DEFINE x == [op[o] EXCEPT !.held = row]
  <2>1. /\ x \in OpType /\ x.held = row /\ x.pc = op[o].pc /\ x.kind = op[o].kind
        /\ x.conv = op[o].conv /\ x.at = op[o].at /\ x.checked = op[o].checked
        /\ x.cur = op[o].cur /\ x.below = op[o].below /\ x.segs = op[o].segs
    BY <1>0 DEF OpType
  <2> HIDE DEF x
  <2>2. WalkFits(op[o]) => WalkFits(x)
    BY <2>1 DEF WalkFits
  <2>3. RequestFits(x)
    BY <1>0, <1>g, <2>1, <2>2 DEF RequestFits
  <2>4. RequestFits(Got(x))
    BY <1>1, <1>g, <2>1, <2>3, GotFits
  <2>5. Got(x) \in OpType
    BY <1>1, <2>1, <2>3, GotTyped DEF RequestFits, OpType
  <2> QED BY <2>4, <2>5 DEF x
<1>2. CASE ReadCache(o)
  <2> DEFINE hit == cache[op[o].at]
             x == [op[o] EXCEPT !.pc = "select"]
  <2>1. CASE hit = NoRow
    <3>1. Set(o, x)
      BY <1>2, <2>1 DEF ReadCache
    <3>2. /\ x \in OpType /\ x.pc = "select" /\ x.kind = op[o].kind
          /\ x.conv = op[o].conv /\ x.at = op[o].at /\ x.checked = op[o].checked
          /\ x.cur = op[o].cur /\ x.below = op[o].below /\ x.segs = op[o].segs
      BY <1>0 DEF OpType, Steps
    <3> HIDE DEF x
    <3>3. WalkFits(op[o]) => WalkFits(x)
      BY <3>2 DEF WalkFits
    <3>4. RequestFits(x)
      BY <1>0, <1>1, <3>2, <3>3 DEF RequestFits, Getting
    <3> QED BY <3>1, <3>2, <3>4
  <2>2. CASE hit # NoRow
    <3>1. Set(o, Got([op[o] EXCEPT !.held = hit])) /\ op[o].pc = "cache"
      BY <1>2, <2>2 DEF ReadCache
    <3>2. hit \in Row /\ RowFits(op[o].at, hit)
      BY <1>0 DEF RowsFit
    <3> QED BY <1>g, <3>1, <3>2
  <2> QED BY <2>1, <2>2
<1>3. CASE ReadTable(o)
  <2> DEFINE row == table[op[o].at]
             x == [op[o] EXCEPT !.held = row, !.pc = "fill"]
  <2>0. row \in Row /\ RowFits(op[o].at, row)
    BY <1>0 DEF RowsFit
  <2>1. CASE row # NoRow
    <3>1. Set(o, x)
      BY <1>3, <2>1 DEF ReadTable
    <3>2. /\ x \in OpType /\ x.pc = "fill" /\ x.kind = op[o].kind /\ x.held = row
          /\ x.conv = op[o].conv /\ x.at = op[o].at /\ x.checked = op[o].checked
          /\ x.cur = op[o].cur /\ x.below = op[o].below /\ x.segs = op[o].segs
      BY <1>0, <2>0 DEF OpType, Steps
    <3> HIDE DEF x
    <3>3. WalkFits(op[o]) => WalkFits(x)
      BY <3>2 DEF WalkFits
    <3>4. RequestFits(x)
      BY <1>0, <1>1, <2>0, <3>2, <3>3 DEF RequestFits, Getting
    <3> QED BY <3>1, <3>2, <3>4
  <2>2. CASE row = NoRow
    <3>1. Set(o, Got([op[o] EXCEPT !.held = row])) /\ op[o].pc = "select"
      BY <1>3, <2>2 DEF ReadTable
    <3> QED BY <1>g, <2>0, <3>1
  <2> QED BY <2>1, <2>2
<1>4. CASE Fill(o)
  <2>1. Set(o, Got(op[o])) /\ op[o].pc = "fill"
    BY <1>4 DEF Fill
  <2>2. RequestFits(Got(op[o]))
    BY <1>0, <1>1, <2>1, GotFits DEF RequestFits
  <2>3. Got(op[o]) \in OpType
    BY <1>0, <1>1, GotTyped DEF RequestFits
  <2> QED BY <2>1, <2>2, <2>3
<1> QED BY <1>2, <1>3, <1>4 DEF GetSteps
\* The row that a batch describes is the one that was read, restamped.
LEMMA WrittenFits ==
    ASSUME TypeOK, NEW r \in OpType, NEW now, r.sel # NoRow, ~Ghost(r.sel), RowFits(r.conv, r.sel)
    PROVE  RowFits(r.conv, Written(r, now)) /\ ~Ghost(Written(r, now))
<1> DEFINE x == Written(r, now)
<1>1. r.sel \in Row
  BY DEF OpType
<1>2. x.created = r.sel.created /\ x.parent = r.sel.parent /\ x.branch = r.sel.branch
  BY <1>1 DEF Written, Row
<1> HIDE DEF x
<1>3. r.sel.created # 0
  BY DEF Ghost
<1> QED BY <1>2, <1>3 DEF RowFits, Ghost, x

\* The steps of the handlers, but for the insert.
LEMMA HandlerFits ==
    ASSUME TypeOK, RowsFit, MessagesFit, RequestsFit, NEW o \in Ops, HandlerSteps(o), ~Insert(o)
    PROVE  \E r \in OpType : Set(o, r) /\ RequestFits(r)
<1>0. /\ op[o] \in OpType /\ RequestFits(op[o]) /\ table \in [Convs -> Row]
      /\ op[o].at \in Convs /\ op[o].conv \in Convs /\ op[o].held \in Row
  BY DEF TypeOK, OpType, RequestsFit
<1>e. End(o) => \E r \in OpType : Set(o, r) /\ RequestFits(r)
  BY IdleTyped, IdleFits DEF End
<1>1. CASE Retitle(o)
  <2> DEFINE x == [op[o] EXCEPT !.pc = "reread", !.title = table[op[o].conv].title]
  <2>1. End(o) \/ Set(o, x)
    BY <1>1 DEF Retitle
  <2>2. table[op[o].conv].title \in Titles /\ op[o].pc = "retitle"
    BY <1>0, <1>1 DEF Row, Retitle
  <2>3. /\ x \in OpType /\ x.pc = "reread" /\ x.kind = op[o].kind
        /\ x.conv = op[o].conv /\ x.at = op[o].at /\ x.checked = op[o].checked
        /\ x.cur = op[o].cur /\ x.below = op[o].below /\ x.segs = op[o].segs
    BY <1>0, <2>2 DEF OpType, Steps
  <2> HIDE DEF x
  <2>4. WalkFits(op[o]) => WalkFits(x)
    BY <2>3 DEF WalkFits
  <2>5. RequestFits(x)
    BY <1>0, <2>2, <2>3, <2>4 DEF RequestFits, Getting
  <2> QED BY <1>e, <2>1, <2>3, <2>5
<1>2. CASE Reread(o)
  <2> DEFINE row == table[op[o].conv]
             x == [op[o] EXCEPT !.pc = "batch", !.sel = row]
  <2>1. End(o) \/ (Set(o, x) /\ row # NoRow /\ ~Ghost(row))
    BY <1>2 DEF Reread
  <2>2. row \in Row /\ RowFits(op[o].conv, row) /\ op[o].pc = "reread"
    BY <1>0, <1>2 DEF RowsFit, Reread
  <2>3. /\ x \in OpType /\ x.pc = "batch" /\ x.kind = op[o].kind /\ x.sel = row
        /\ x.conv = op[o].conv /\ x.at = op[o].at /\ x.checked = op[o].checked
        /\ x.cur = op[o].cur /\ x.below = op[o].below /\ x.segs = op[o].segs
    BY <1>0, <2>2 DEF OpType, Steps
  <2> HIDE DEF x, row
  <2>4. WalkFits(op[o]) => WalkFits(x)
    BY <2>3 DEF WalkFits
  <2>5. row # NoRow /\ ~Ghost(row) => RequestFits(x)
    BY <1>0, <2>2, <2>3, <2>4 DEF RequestFits, Getting
  <2> QED BY <1>e, <2>1, <2>3, <2>5
<1>3. CASE Batch(o)
  <2> DEFINE new == Written(op[o], clock + 1)
             x == [op[o] EXCEPT !.pc = "after", !.held = new]
  <2>1. Set(o, x) /\ op[o].pc = "batch" /\ clock < MaxClock
    BY <1>3 DEF Batch, Tick
  <2>2. new \in Row
    BY <1>0, <2>1, BatchTyped, RowsTyped
  <2>3. RowFits(op[o].conv, new)
    BY <1>0, <2>1, WrittenFits DEF RequestFits
  <2> HIDE DEF new
  <2>4. /\ x \in OpType /\ x.pc = "after" /\ x.kind = op[o].kind /\ x.held = new
        /\ x.conv = op[o].conv /\ x.at = op[o].at /\ x.checked = op[o].checked
        /\ x.cur = op[o].cur /\ x.below = op[o].below /\ x.segs = op[o].segs
    BY <1>0, <2>2 DEF OpType, Steps
  <2> HIDE DEF x
  <2>5. WalkFits(op[o]) => WalkFits(x)
    BY <2>4 DEF WalkFits
  <2>6. RequestFits(x)
    BY <1>0, <2>1, <2>3, <2>4, <2>5 DEF RequestFits, Getting
  <2> QED BY <2>1, <2>4, <2>6
<1>4. CASE After(o) \/ Report(o)
  BY <1>4, <1>e DEF After, Report
<1>5. CASE Point(o)
  <2>0. op[o].pc = "point"
    BY <1>5 DEF Point
  <2>1. PICK m \in Points(op[o].at) :
           Set(o, [op[o] EXCEPT !.pc = "insert", !.cur = [op[o].held EXCEPT !.branch = m]])
    BY <1>5 DEF Point
  <2>2. m \in Times /\ m <= clock
    BY <1>0, BoundsAssumption DEF Points, TypeOK, MessagesFit, Times
  <2> DEFINE row == [op[o].held EXCEPT !.branch = m]
             x == [op[o] EXCEPT !.pc = "insert", !.cur = row]
  <2>3. row \in Row /\ row.branch = m
    BY <1>0, <2>2 DEF Row
  <2>4. Set(o, x)
    BY <2>1
  <2> HIDE DEF row
  <2>5. /\ x \in OpType /\ x.pc = "insert" /\ x.kind = op[o].kind /\ x.cur = row
        /\ x.conv = op[o].conv /\ x.at = op[o].at
    BY <1>0, <2>3 DEF OpType, Steps
  <2> HIDE DEF x
  <2>6. RequestFits(x)
    BY <1>0, <2>0, <2>2, <2>3, <2>5 DEF RequestFits, Getting
  <2> QED BY <2>4, <2>5, <2>6
<1> QED BY <1>1, <1>2, <1>3, <1>4, <1>5 DEF HandlerSteps

\* The insert: the row is the one the conversation is made with.
LEMMA InsertFits ==
    ASSUME TypeOK, TypeOK', Growing, RequestsFit, CreatorsAlone, NEW o \in Ops, Insert(o)
    PROVE  RequestsFit'
<1> DEFINE r == op[o]
           new == NewRow(r)
           x == [r EXCEPT !.pc = "after", !.held = new]
<1>0. r \in OpType /\ RequestFits(r) /\ r.pc = "insert" /\ r.conv \in Convs /\ clock \in Nat
      /\ clock < MaxClock
  BY BoundsAssumption DEF TypeOK, OpType, RequestsFit, Insert, Times, Tick
<1>1. made' = [made EXCEPT ![r.conv] = new] /\ Set(o, x)
  BY DEF Insert, NewRow
<1>2. new \in Row /\ new.created # 0 /\ new.created = clock + 1 /\ new # NoRow
  BY <1>0, NewRowTyped DEF NewRow, NoRow
<1> HIDE DEF new
<1>3. x \in OpType /\ x.pc = "after" /\ x.kind = "create" /\ x.conv = r.conv /\ x.held = new
  BY <1>0, <1>2 DEF OpType, Steps, RequestFits
<1> HIDE DEF x
<1>4. made'[r.conv] = new
  BY <1>0, <1>1 DEF TypeOK
<1>5. PICK y : y = x
  OBVIOUS
<1>6. RequestFits(y)'
  BY <1>2, <1>3, <1>4, <1>5 DEF RequestFits, RowFits, Exists, Ghost, Getting
<1> QED BY <1>1, <1>5, <1>6, SetFits

\* Every step keeps what requests hold on to true.
LEMMA RequestsKept ==
    ASSUME TypeOK, TypeOK', Growing, MadeInOrder, RowsFit, MessagesFit, RequestsFit, CreatorsAlone,
           Next
    PROVE  RequestsFit'
<1>1. ASSUME NEW o \in Ops, \E r \in OpType : Set(o, r) /\ RequestFits(r) PROVE RequestsFit'
  <2>1. PICK r \in OpType : Set(o, r) /\ RequestFits(r)
    BY <1>1
  <2>2. RequestFits(r)'
    BY <2>1, RequestStays
  <2> QED BY <2>1, <2>2, SetFits
<1>2. ASSUME UNCHANGED op PROVE RequestsFit'
  <2>1. ASSUME NEW x, NEW q \in Ops, x = op'[q] PROVE RequestFits(x)'
    <3>1. x \in OpType /\ RequestFits(x)
      BY <1>2, <2>1 DEF TypeOK, RequestsFit
    <3> QED BY <3>1, RequestStays
  <2> QED BY <2>1 DEF RequestsFit
<1>3. CASE Cleanup \/ CleanupFails \/ CleanupCrashes
  BY <1>2, <1>3 DEF Cleanup, Consume, PurgeMessages, PurgeRead, PurgeRow, Commit,
                    CleanupFails, CleanupCrashes
<1>4. ASSUME NEW c \in Convs, NewMessage(c) \/ Expire(c) PROVE RequestsFit'
  BY <1>2, <1>4 DEF NewMessage, Expire
<1>5. ASSUME NEW o \in Ops, Insert(o) PROVE RequestsFit'
  BY <1>5, InsertFits
<1>6. ASSUME NEW o \in Ops, HandlerSteps(o), ~Insert(o) PROVE RequestsFit'
  BY <1>1, <1>6, HandlerFits
<1>7. ASSUME NEW o \in Ops, GetSteps(o) PROVE RequestsFit'
  BY <1>1, <1>7, GetFits
<1>8. ASSUME NEW o \in Ops, Request(o) \/ TitleEvent(o) \/ CreateBranch(o) \/ CreateRoot(o)
      PROVE  RequestsFit'
  BY <1>1, <1>8, BeginFits
<1> QED BY <1>3, <1>4, <1>5, <1>6, <1>7, <1>8 DEF Next
-----------------------------------------------------------------------------
(* Conversations, rows and messages. *)

\* What steps other than the insert do to what conversations are made with.
LEMMA MadeMoves ==
    ASSUME TypeOK, Next
    PROVE  UNCHANGED made \/ \E o \in Ops : Insert(o)
<1>1. ASSUME NEW o \in Ops, Request(o) \/ TitleEvent(o) \/ CreateBranch(o) \/ CreateRoot(o)
      PROVE UNCHANGED made
  BY <1>1 DEF Request, TitleEvent, CreateBranch, CreateRoot, Begin
<1>2. ASSUME NEW o \in Ops, GetSteps(o) PROVE UNCHANGED made
  BY <1>2 DEF GetSteps, ReadCache, ReadTable, Fill
<1>3. ASSUME NEW o \in Ops, HandlerSteps(o), ~Insert(o) PROVE UNCHANGED made
  BY <1>3 DEF HandlerSteps, Retitle, Reread, Batch, After, Point, Report
<1>4. CASE Cleanup \/ CleanupFails \/ CleanupCrashes
  BY <1>4 DEF Cleanup, Consume, PurgeMessages, PurgeRead, PurgeRow, Commit, CleanupFails,
              CleanupCrashes
<1>5. ASSUME NEW c \in Convs, NewMessage(c) \/ Expire(c) PROVE UNCHANGED made
  BY <1>5 DEF NewMessage, Expire
<1> QED BY <1>1, <1>2, <1>3, <1>4, <1>5 DEF Next

\* A conversation is made after its parent and not before its branch message.
LEMMA MadeKept ==
    ASSUME TypeOK, TypeOK', Growing, MadeInOrder, RequestsFit, CreatorsAlone, Next
    PROVE  MadeInOrder'
<1>0. /\ clock \in Nat /\ clock' \in Nat /\ clock <= clock'
      /\ \A c \in Convs : made[c].created \in Nat /\ made[c].branch \in Nat
                          /\ made[c].parent \in Convs \cup {NoConv}
  BY BoundsAssumption DEF TypeOK, Row, Times, Growing
<1>1. ASSUME NEW c \in Convs, Exists(c)
      PROVE  /\ 0 < made'[c].created /\ made'[c].created <= clock'
             /\ made'[c].branch <= made'[c].created
             /\ made'[c].parent # NoConv =>
                   Exists(made[c].parent)' /\ made'[made'[c].parent].created < made'[c].created
  <2>1. made'[c] = made[c]
    BY <1>1 DEF Growing
  <2>2. made[c].parent # NoConv => made'[made[c].parent] = made[made[c].parent]
    BY <1>0, <1>1 DEF MadeInOrder, Growing
  <2> QED BY <1>0, <1>1, <2>1, <2>2 DEF MadeInOrder, Exists
<1>2. CASE UNCHANGED made
  BY <1>1, <1>2 DEF MadeInOrder, Exists
<1>3. ASSUME NEW o \in Ops, Insert(o) PROVE MadeInOrder'
  <2> DEFINE r == op[o]
             new == NewRow(r)
  <2>1. /\ r \in OpType /\ RequestFits(r) /\ r.pc = "insert" /\ r.conv \in Convs /\ r.at \in Convs
    BY <1>3 DEF TypeOK, OpType, RequestsFit, Insert
  <2>2. made' = [made EXCEPT ![r.conv] = new] /\ clock' = clock + 1 /\ clock < MaxClock
    BY <1>3 DEF Insert, NewRow, Tick
  <2>3. /\ new.created = clock + 1 /\ (r.at = r.conv => new.parent = NoConv /\ new.branch = 0)
        /\ (r.at # r.conv => new.parent = r.at /\ new.branch = r.cur.branch)
    BY DEF NewRow
  <2> HIDE DEF new
  <2>4. \A c \in Convs : made'[c] = IF c = r.conv THEN new ELSE made[c]
    BY <2>1, <2>2 DEF TypeOK
  <2>5. r.at # r.conv => Exists(r.at) /\ r.cur.branch <= clock /\ r.cur.branch \in Nat
    BY <2>1 DEF RequestFits, OpType, Row, Times
  <2>6. r.at # r.conv => made[r.at].created <= clock /\ made'[r.at] = made[r.at]
    BY <2>1, <2>4, <2>5 DEF MadeInOrder
  <2>7. /\ 0 < new.created /\ new.created <= clock' /\ new.branch <= new.created
        /\ new.parent # NoConv => Exists(r.at) /\ new.parent = r.at /\ made'[r.at] = made[r.at]
                                  /\ made[r.at].created < new.created
    BY <1>0, <2>1, <2>2, <2>3, <2>5, <2>6
  <2>8. ASSUME NEW c \in Convs, made'[c] # NoRow, c # r.conv PROVE Exists(c)
    BY <2>4, <2>8 DEF Exists
  <2>9. ASSUME NEW c \in Convs, c = r.conv
        PROVE  /\ 0 < made'[c].created /\ made'[c].created <= clock'
               /\ made'[c].branch <= made'[c].created
               /\ made'[c].parent # NoConv =>
                     made'[made'[c].parent] # NoRow /\ made'[made'[c].parent].created < made'[c].created
    BY <2>4, <2>7, <2>9 DEF Exists
  <2> QED BY <1>1, <2>8, <2>9 DEF MadeInOrder, Exists
<1> QED BY <1>2, <1>3, MadeMoves

\* The tables hold rows that fit.
LEMMA NewRowsFit ==
    ASSUME \A c \in Convs : \A r : r = table'[c] \/ r = cache'[c] => RowFits(c, r)'
    PROVE  RowsFit'
BY DEF RowsFit, RowFits, Ghost, Exists

\* A row that is copied into Redis, or created, or updated, fits.
LEMMA RowsKept ==
    ASSUME TypeOK, TypeOK', Growing, RowsFit, RequestsFit, CreatorsAlone, Next
    PROVE  RowsFit'
<1>t. /\ table \in [Convs -> Row] /\ cache \in [Convs -> Row]
      /\ \A o \in Ops : /\ op[o] \in OpType /\ RequestFits(op[o]) /\ op[o].conv \in Convs
                        /\ op[o].at \in Convs /\ op[o].held \in Row
  BY DEF TypeOK, OpType, RequestsFit
<1>o. ASSUME NEW c \in Convs, NEW r, r = table[c] \/ r = cache[c] \/ r = NoRow PROVE RowFits(c, r)'
  <2>1. RowFits(c, r)
    BY <1>o DEF RowsFit, RowFits
  <2> QED BY <2>1, RowStays
<1>s. ASSUME NEW d \in Convs, NEW row, RowFits(d, row)',
             \A c \in Convs : \/ table'[c] \in {table[c], NoRow}
                              \/ c = d /\ table'[c] = row,
             \A c \in Convs : \/ cache'[c] \in {cache[c], NoRow}
                              \/ c = d /\ cache'[c] = row
      PROVE  RowsFit'
  <2>1. ASSUME NEW c \in Convs, NEW r, r = table'[c] \/ r = cache'[c] PROVE RowFits(c, r)'
    <3>1. r = table[c] \/ r = cache[c] \/ r = NoRow \/ (c = d /\ r = row)
      BY <1>s, <2>1
    <3> QED BY <1>o, <1>s, <3>1
  <2> QED BY <2>1, NewRowsFit
<1>u. ASSUME \A c \in Convs : table'[c] \in {table[c], NoRow} /\ cache'[c] \in {cache[c], NoRow}
      PROVE  RowsFit'
  <2>1. RowFits(Root, NoRow)'
    BY DEF RowFits
  <2> QED BY <1>s, <1>u, <2>1, RootAssumption
<1>1. ASSUME NEW o \in Ops, Request(o) \/ TitleEvent(o) \/ CreateBranch(o) \/ CreateRoot(o)
      PROVE RowsFit'
  BY <1>1, <1>u DEF Request, TitleEvent, CreateBranch, CreateRoot, Begin
<1>2. ASSUME NEW o \in Ops, ReadCache(o) \/ ReadTable(o) PROVE RowsFit'
  BY <1>2, <1>u DEF ReadCache, ReadTable
<1>3. ASSUME NEW o \in Ops, Fill(o) PROVE RowsFit'
  <2>1. PICK row : row = op[o].held
    OBVIOUS
  <2>2. PICK d \in Convs : d = op[o].at
    BY <1>t
  <2>3. RowFits(d, row)'
    <3>1. RowFits(d, row)
      BY <1>3, <1>t, <2>1, <2>2 DEF Fill, RequestFits
    <3> QED BY <3>1, RowStays
  <2>4. /\ UNCHANGED table
        /\ \A c \in Convs : cache'[c] = cache[c] \/ (c = d /\ cache'[c] = row)
    BY <1>3, <1>t, <2>1, <2>2 DEF Fill
  <2> QED BY <1>s, <2>3, <2>4
<1>4. ASSUME NEW o \in Ops, Retitle(o) \/ Reread(o) \/ Point(o) \/ Report(o) PROVE RowsFit'
  BY <1>4, <1>u DEF Retitle, Reread, Point, Report
<1>5. ASSUME NEW o \in Ops, Batch(o) PROVE RowsFit'
  <2> DEFINE new == Written(op[o], clock + 1)
             upd == Updated(table[op[o].conv], op[o], new)
  <2>1. PICK d \in Convs : d = op[o].conv
    BY <1>t
  <2>2. PICK row : row = upd
    OBVIOUS
  <2>3. RowFits(d, row)
    <3>1. Exists(d)
      BY <1>5, <1>t, <2>1 DEF Batch, RequestFits, RowFits
    <3>2. /\ row.created = table[d].created /\ row.parent = table[d].parent
          /\ row.branch = table[d].branch
      BY <1>t, <2>1, <2>2 DEF Updated, Row
    <3>3. table[d] = NoRow => row.created = 0
      BY <3>2 DEF NoRow
    <3>4. RowFits(d, table[d])
      BY DEF RowsFit
    <3> QED BY <3>1, <3>2, <3>3, <3>4 DEF RowFits, Ghost
  <2>4. RowFits(d, row)'
    BY <2>3, RowStays
  <2>5. /\ UNCHANGED cache
        /\ \A c \in Convs : table'[c] = table[c] \/ (c = d /\ table'[c] = row)
    BY <1>5, <1>t, <2>1, <2>2 DEF Batch
  <2> QED BY <1>s, <2>4, <2>5
<1>6. ASSUME NEW o \in Ops, After(o) PROVE RowsFit'
  <2>1. PICK d \in Convs : d = op[o].conv
    BY <1>t
  <2>2. PICK row : row = Cached(op[o])
    OBVIOUS
  <2>3. RowFits(d, row)
    <3>1. RowFits(d, op[o].held) /\ op[o].held \in Row
      BY <1>6, <1>t, <2>1 DEF After, RequestFits
    <3>2. row = NoRow \/ row = op[o].held \/ row = [op[o].held EXCEPT !.branch = 0]
      BY <2>2 DEF Cached
    <3>3. row = [op[o].held EXCEPT !.branch = 0] =>
             row.created = op[o].held.created /\ row.parent = op[o].held.parent /\ row.branch = 0
      BY <3>1 DEF Row
    <3>4. CASE row = [op[o].held EXCEPT !.branch = 0]
      <4>1. CASE op[o].held = NoRow
        <5>1. [NoRow EXCEPT !.branch = 0] = NoRow
          BY DEF NoRow
        <5> QED BY <3>4, <4>1, <5>1 DEF RowFits
      <4>2. CASE op[o].held # NoRow
        BY <3>1, <3>3, <3>4, <4>2 DEF RowFits, Ghost
      <4> QED BY <4>1, <4>2
    <3>5. RowFits(d, NoRow)
      BY DEF RowFits
    <3> QED BY <3>1, <3>2, <3>4, <3>5
  <2>4. RowFits(d, row)'
    BY <2>3, RowStays
  <2>5. /\ UNCHANGED table
        /\ \A c \in Convs : cache'[c] = cache[c] \/ (c = d /\ cache'[c] = row)
    BY <1>6, <1>t, <2>1, <2>2 DEF After
  <2> QED BY <1>s, <2>4, <2>5
<1>7. ASSUME NEW o \in Ops, Insert(o) PROVE RowsFit'
  <2>1. PICK d \in Convs : d = op[o].conv
    BY <1>t
  <2>2. PICK row : row = NewRow(op[o])
    OBVIOUS
  <2>3. /\ UNCHANGED cache
        /\ \A c \in Convs : table'[c] = table[c] \/ (c = d /\ table'[c] = row)
    BY <1>7, <1>t, <2>1, <2>2 DEF Insert, NewRow
  <2>4. made'[d] = row
    BY <1>7, <2>1, <2>2 DEF Insert, NewRow, TypeOK
  <2>5. RowFits(d, row)'
    BY <2>4 DEF RowFits, Exists
  <2> QED BY <1>s, <2>3, <2>5
<1>8. CASE Cleanup \/ CleanupFails \/ CleanupCrashes
  BY <1>8, <1>t, <1>u DEF Cleanup, Consume, PurgeMessages, PurgeRead, PurgeRow, Commit,
                          CleanupFails, CleanupCrashes
<1>9. ASSUME NEW c \in Convs, NewMessage(c) \/ Expire(c) PROVE RowsFit'
  BY <1>9, <1>t, <1>u DEF NewMessage, Expire
<1> QED BY <1>1, <1>2, <1>3, <1>4, <1>5, <1>6, <1>7, <1>8, <1>9 DEF Next, GetSteps, HandlerSteps

\* A new message is younger than its conversation.
LEMMA MessagesKept ==
    ASSUME TypeOK, TypeOK', Growing, MadeInOrder, RowsFit, MessagesFit, Next
    PROVE  MessagesFit'
<1>0. /\ clock \in Nat /\ clock' \in Nat /\ clock <= clock'
      /\ messages \in [Convs -> SUBSET Times] /\ Times \subseteq Nat
      /\ \A c \in Convs : made[c].created \in Nat
  BY BoundsAssumption DEF TypeOK, Row, Times, Growing
<1>u. ASSUME \A c \in Convs : messages'[c] \subseteq messages[c] PROVE MessagesFit'
  <2>1. ASSUME NEW c \in Convs, NEW m \in messages'[c]
        PROVE  made'[c] # NoRow /\ made'[c].created < m /\ m <= clock'
    <3>1. m \in messages[c] /\ m \in Nat
      BY <1>0, <1>u, <2>1
    <3>2. Exists(c) /\ made[c].created < m /\ m <= clock
      BY <3>1 DEF MessagesFit
    <3>3. made'[c] = made[c]
      BY <3>2 DEF Growing
    <3> QED BY <1>0, <3>1, <3>2, <3>3 DEF Exists
  <2> QED BY <2>1 DEF MessagesFit, Exists
<1>1. ASSUME NEW c \in Convs, NewMessage(c) PROVE MessagesFit'
  <2>1. Exists(c)
    BY <1>1 DEF NewMessage, RowsFit, RowFits
  <2>2. clock' = clock + 1 /\ messages' = [messages EXCEPT ![c] = @ \cup {clock + 1}]
        /\ UNCHANGED made
    BY <1>1 DEF NewMessage, Tick
  <2>3. made[c].created <= clock
    BY <2>1 DEF MadeInOrder
  <2>4. ASSUME NEW d \in Convs, NEW m \in messages'[d] PROVE m \in messages[d] \/ (d = c /\ m = clock + 1)
    BY <1>0, <2>2, <2>4
  <2> QED BY <1>0, <2>1, <2>2, <2>3, <2>4 DEF MessagesFit, Exists
<1>2. CASE PurgeMessages
  <2>1. \A c \in Convs : messages'[c] \in {messages[c], {}}
    BY <1>0, <1>2 DEF PurgeMessages
  <2> QED BY <1>u, <2>1
<1>3. ASSUME NEW o \in Ops, Request(o) \/ TitleEvent(o) \/ CreateBranch(o) \/ CreateRoot(o)
      PROVE MessagesFit'
  BY <1>3, <1>u DEF Request, TitleEvent, CreateBranch, CreateRoot, Begin
<1>4. ASSUME NEW o \in Ops, GetSteps(o) PROVE MessagesFit'
  BY <1>4, <1>u DEF GetSteps, ReadCache, ReadTable, Fill
<1>5. ASSUME NEW o \in Ops, HandlerSteps(o) PROVE MessagesFit'
  BY <1>5, <1>u DEF HandlerSteps, Retitle, Reread, Batch, After, Point, Insert, Report
<1>6. CASE (Cleanup /\ ~PurgeMessages) \/ CleanupFails \/ CleanupCrashes
  BY <1>6, <1>u DEF Cleanup, Consume, PurgeRead, PurgeRow, Commit, CleanupFails, CleanupCrashes
<1>7. ASSUME NEW c \in Convs, Expire(c) PROVE MessagesFit'
  BY <1>7, <1>u DEF Expire
<1> QED BY <1>1, <1>2, <1>3, <1>4, <1>5, <1>6, <1>7 DEF Next

\* What get returned makes nobody the creator of a conversation.
LEMMA GotKeeps ==
    ASSUME NEW r \in OpType, r.checked /\ r.kind = "context" => r.cur.parent \in Convs,
           Got(r).kind = "create"
    PROVE  r.kind = "create" /\ Got(r).conv = r.conv
<1>0. ASSUME NEW x \in OpType PROVE Climb(x).kind = x.kind /\ Climb(x).conv = x.conv
  <2>1. [x EXCEPT !.pc = "report"].kind = x.kind /\ [x EXCEPT !.pc = "report"].conv = x.conv
    BY DEF OpType
  <2>2. ASSUME NEW p
        PROVE  /\ [x EXCEPT !.pc = "cache", !.at = p].kind = x.kind
               /\ [x EXCEPT !.pc = "cache", !.at = p].conv = x.conv
    BY DEF OpType
  <2> QED BY <2>1, <2>2, ClimbTyped
<1>1. Owner(r).kind = "create" => r.kind = "create" /\ Owner(r).conv = r.conv
  <2> DEFINE x == [r EXCEPT !.checked = TRUE, !.cur = r.held]
             y == [r EXCEPT !.checked = TRUE, !.pc = "cache"]
  <2>1. /\ x \in OpType /\ x.kind = r.kind /\ x.conv = r.conv
        /\ y.kind = r.kind /\ y.conv = r.conv
    BY DEF OpType
  <2>2. Owner(r) \in {Idle, Climb(x), y}
    BY DEF Owner
  <2> HIDE DEF x, y
  <2> QED BY <1>0, <2>1, <2>2, IdleTyped
<1>2. Handler(r).kind = "create" => r.kind = "create" /\ Handler(r).conv = r.conv
  BY IdleTyped DEF Handler, OpType
<1>3. Parent(r).kind = "create" => r.kind = "create" /\ Parent(r).conv = r.conv
  BY IdleTyped DEF Parent, OpType
<1>4. r.checked /\ r.kind = "context" => Ancestor(r).kind = "context"
  <2> DEFINE y == [r EXCEPT !.pc = "report"]
  <2>1. Ancestor(r) \in {y, Climb(Taken(r))}
    BY DEF Ancestor, Taken
  <2>2. y.kind = r.kind /\ Taken(r).kind = r.kind
    BY DEF OpType, Taken
  <2> HIDE DEF y
  <2> QED BY <1>0, <2>1, <2>2, TakenTyped
<1> QED BY <1>1, <1>2, <1>3, <1>4 DEF Got, OpType
\* A step that makes no new creator.
LEMMA CreatorStays ==
    ASSUME TypeOK, CreatorsAlone, NEW o \in Ops, NEW r, Set(o, r), UNCHANGED made,
           r.kind = "create" => Creating(o) /\ r.conv = op[o].conv /\ op[o].pc # "after"
    PROVE  CreatorsAlone'
<1>1. \A q \in Ops : op'[q] = IF q = o THEN r ELSE op[q]
  BY DEF Set, TypeOK
<1> QED BY <1>1 DEF CreatorsAlone, Creating, Exists

\* A request that creates a conversation under an id that is free.
LEMMA CreatorBegins ==
    ASSUME TypeOK, CreatorsAlone, NEW o \in Ops, NEW r, Set(o, r), UNCHANGED made, Free(r.conv)
    PROVE  CreatorsAlone'
<1>1. \A q \in Ops : op'[q] = IF q = o THEN r ELSE op[q]
  BY DEF Set, TypeOK
<1> QED BY <1>1 DEF CreatorsAlone, Creating, Exists, Free

\* Every step leaves the creators alone with their ids.
LEMMA CreatorsKept ==
    ASSUME TypeOK, RequestsFit, CreatorsAlone, Next
    PROVE  CreatorsAlone'
<1>t. ASSUME NEW o \in Ops
      PROVE  op[o] \in OpType /\ RequestFits(op[o]) /\ op[o].conv \in Convs /\ op[o].at \in Convs
  BY DEF TypeOK, OpType, RequestsFit
<1>u. UNCHANGED <<op, made>> => CreatorsAlone'
  BY DEF CreatorsAlone, Creating, Exists
<1>e. ASSUME NEW o \in Ops, End(o), UNCHANGED made PROVE CreatorsAlone'
  BY <1>e, IdleTyped, CreatorStays DEF End
<1>1. ASSUME NEW o \in Ops, Request(o) PROVE CreatorsAlone'
  <2>1. PICK k \in {"get", "rename", "archive", "delete", "context"}, c \in Convs :
           Set(o, [Idle EXCEPT !.pc = "cache", !.kind = k, !.conv = c, !.at = c, !.below = c])
           /\ UNCHANGED made
    BY <1>1 DEF Request, Begin
  <2>2. [Idle EXCEPT !.pc = "cache", !.kind = k, !.conv = c, !.at = c, !.below = c].kind = k
    BY IdleTyped DEF OpType
  <2> QED BY <2>1, <2>2, CreatorStays
<1>2. ASSUME NEW o \in Ops, TitleEvent(o) PROVE CreatorsAlone'
  <2>1. PICK c \in Convs :
           Set(o, [Idle EXCEPT !.pc = "reread", !.kind = "title", !.conv = c, !.at = c,
                               !.title = "generated"]) /\ UNCHANGED made
    BY <1>2 DEF TitleEvent, Begin
  <2>2. [Idle EXCEPT !.pc = "reread", !.kind = "title", !.conv = c, !.at = c,
                     !.title = "generated"].kind = "title"
    BY IdleTyped DEF OpType
  <2> QED BY <2>1, <2>2, CreatorStays
<1>3. ASSUME NEW o \in Ops, CreateBranch(o) PROVE CreatorsAlone'
  <2>1. PICK c \in Convs, p \in Convs :
           /\ Free(c) /\ UNCHANGED made
           /\ Set(o, [Idle EXCEPT !.pc = "cache", !.kind = "create", !.conv = c, !.at = p,
                                  !.checked = TRUE])
    BY <1>3 DEF CreateBranch, Begin
  <2>2. [Idle EXCEPT !.pc = "cache", !.kind = "create", !.conv = c, !.at = p,
                     !.checked = TRUE].conv = c
    BY IdleTyped DEF OpType
  <2> QED BY <2>1, <2>2, CreatorBegins
<1>4. ASSUME NEW o \in Ops, CreateRoot(o) PROVE CreatorsAlone'
  <2>1. PICK c \in Convs :
           /\ Free(c) /\ UNCHANGED made
           /\ Set(o, [Idle EXCEPT !.pc = "insert", !.kind = "create", !.conv = c, !.at = c,
                                  !.checked = TRUE])
    BY <1>4 DEF CreateRoot, Begin
  <2>2. [Idle EXCEPT !.pc = "insert", !.kind = "create", !.conv = c, !.at = c,
                     !.checked = TRUE].conv = c
    BY IdleTyped DEF OpType
  <2> QED BY <2>1, <2>2, CreatorBegins
<1>5. ASSUME NEW o \in Ops, GetSteps(o) PROVE CreatorsAlone'
  <2>0. op[o].pc \in Getting /\ op[o].pc # "after" /\ UNCHANGED made
    BY <1>5 DEF GetSteps, ReadCache, ReadTable, Fill, Getting
  <2>1. ASSUME NEW row \in Row
        PROVE  LET x == Got([op[o] EXCEPT !.held = row]) IN
                  x.kind = "create" => Creating(o) /\ x.conv = op[o].conv
    <3> DEFINE y == [op[o] EXCEPT !.held = row]
    <3>1. /\ y \in OpType /\ y.kind = op[o].kind /\ y.conv = op[o].conv /\ y.cur = op[o].cur
          /\ y.checked = op[o].checked
      BY <1>t DEF OpType
    <3> HIDE DEF y
    <3>2. y.checked /\ y.kind = "context" => y.cur.parent \in Convs
      BY <1>t, <2>0, <3>1 DEF RequestFits
    <3>3. Got(y).kind = "create" => Creating(o) /\ Got(y).conv = op[o].conv
      BY <3>1, <3>2, GotKeeps DEF Creating
    <3> QED BY <3>3 DEF y
  <2>2. CASE ReadCache(o)
    <3> DEFINE hit == cache[op[o].at]
               x == [op[o] EXCEPT !.pc = "select"]
    <3>1. Set(o, x) \/ Set(o, Got([op[o] EXCEPT !.held = hit]))
      BY <2>2 DEF ReadCache
    <3>2. x.kind = op[o].kind /\ x.conv = op[o].conv
      BY <1>t DEF OpType
    <3>3. hit \in Row
      BY <1>t DEF TypeOK
    <3> HIDE DEF x, hit
    <3> QED BY <2>0, <2>1, <3>1, <3>2, <3>3, CreatorStays DEF Creating
  <2>3. CASE ReadTable(o)
    <3> DEFINE row == table[op[o].at]
               x == [op[o] EXCEPT !.held = row, !.pc = "fill"]
    <3>1. Set(o, x) \/ Set(o, Got([op[o] EXCEPT !.held = row]))
      BY <2>3 DEF ReadTable
    <3>2. x.kind = op[o].kind /\ x.conv = op[o].conv
      BY <1>t DEF OpType
    <3>3. row \in Row
      BY <1>t DEF TypeOK
    <3> HIDE DEF x, row
    <3> QED BY <2>0, <2>1, <3>1, <3>2, <3>3, CreatorStays DEF Creating
  <2>4. CASE Fill(o)
    <3>1. op[o].checked /\ op[o].kind = "context" => op[o].cur.parent \in Convs
      BY <1>t, <2>0 DEF RequestFits
    <3>2. Got(op[o]).kind = "create" => Creating(o) /\ Got(op[o]).conv = op[o].conv
      BY <1>t, <3>1, GotKeeps DEF Creating
    <3>3. Set(o, Got(op[o]))
      BY <2>4 DEF Fill
    <3> QED BY <2>0, <3>2, <3>3, CreatorStays
  <2> QED BY <1>5, <2>2, <2>3, <2>4 DEF GetSteps
<1>6. ASSUME NEW o \in Ops, Retitle(o) PROVE CreatorsAlone'
  <2> DEFINE x == [op[o] EXCEPT !.pc = "reread", !.title = table[op[o].conv].title]
  <2>1. (End(o) \/ Set(o, x)) /\ op[o].pc # "after" /\ UNCHANGED made
    BY <1>6 DEF Retitle
  <2>2. x.kind = op[o].kind /\ x.conv = op[o].conv
    BY <1>t DEF OpType
  <2> HIDE DEF x
  <2> QED BY <1>e, <2>1, <2>2, CreatorStays DEF Creating
<1>7. ASSUME NEW o \in Ops, Reread(o) PROVE CreatorsAlone'
  <2> DEFINE x == [op[o] EXCEPT !.pc = "batch", !.sel = table[op[o].conv]]
  <2>1. (End(o) \/ Set(o, x)) /\ op[o].pc # "after" /\ UNCHANGED made
    BY <1>7 DEF Reread
  <2>2. x.kind = op[o].kind /\ x.conv = op[o].conv
    BY <1>t DEF OpType
  <2> HIDE DEF x
  <2> QED BY <1>e, <2>1, <2>2, CreatorStays DEF Creating
<1>8. ASSUME NEW o \in Ops, Batch(o) PROVE CreatorsAlone'
  <2> DEFINE x == [op[o] EXCEPT !.pc = "after", !.held = Written(op[o], clock + 1)]
  <2>1. Set(o, x) /\ op[o].pc # "after" /\ UNCHANGED made
    BY <1>8 DEF Batch
  <2>2. x.kind = op[o].kind /\ x.conv = op[o].conv
    BY <1>t DEF OpType
  <2> HIDE DEF x
  <2> QED BY <2>1, <2>2, CreatorStays DEF Creating
<1>9. ASSUME NEW o \in Ops, After(o) \/ Report(o) PROVE CreatorsAlone'
  BY <1>9, <1>e DEF After, Report
<1>10. ASSUME NEW o \in Ops, Point(o) PROVE CreatorsAlone'
  <2>1. PICK m : Set(o, [op[o] EXCEPT !.pc = "insert", !.cur = [op[o].held EXCEPT !.branch = m]])
    BY <1>10 DEF Point
  <2> DEFINE x == [op[o] EXCEPT !.pc = "insert", !.cur = [op[o].held EXCEPT !.branch = m]]
  <2>2. Set(o, x) /\ op[o].pc # "after" /\ UNCHANGED made
    BY <1>10, <2>1 DEF Point
  <2>3. x.kind = op[o].kind /\ x.conv = op[o].conv
    BY <1>t DEF OpType
  <2> HIDE DEF x
  <2> QED BY <2>2, <2>3, CreatorStays DEF Creating
<1>11. ASSUME NEW o \in Ops, Insert(o) PROVE CreatorsAlone'
  <2> DEFINE x == [op[o] EXCEPT !.pc = "after", !.held = NewRow(op[o])]
  <2>1. Set(o, x) /\ op[o].pc = "insert" /\ made' = [made EXCEPT ![op[o].conv] = NewRow(op[o])]
    BY <1>11 DEF Insert, NewRow
  <2>2. x.kind = op[o].kind /\ x.conv = op[o].conv /\ x.pc = "after" /\ Creating(o)
    BY <1>t, <2>1 DEF OpType, RequestFits, Creating
  <2> HIDE DEF x
  <2>3. \A q \in Ops : op'[q] = IF q = o THEN x ELSE op[q]
    BY <2>1 DEF Set, TypeOK
  <2>4. \A c \in Convs : c # op[o].conv => made'[c] = made[c]
    BY <2>1 DEF TypeOK
  <2> QED BY <1>t, <2>2, <2>3, <2>4 DEF CreatorsAlone, Creating, Exists
<1>12. CASE Cleanup \/ CleanupFails \/ CleanupCrashes
  BY <1>u, <1>12 DEF Cleanup, Consume, PurgeMessages, PurgeRead, PurgeRow, Commit,
                     CleanupFails, CleanupCrashes
<1>13. ASSUME NEW c \in Convs, NewMessage(c) \/ Expire(c) PROVE CreatorsAlone'
  BY <1>u, <1>13 DEF NewMessage, Expire
<1> QED BY <1>1, <1>2, <1>3, <1>4, <1>5, <1>6, <1>7, <1>8, <1>9, <1>10, <1>11, <1>12, <1>13
        DEF Next, HandlerSteps
-----------------------------------------------------------------------------
(* The cleanup worker and the catalogue. *)

\* Only the commit takes the event away, and the worker then is at rest.
LEMMA PurgeKept ==
    ASSUME TypeOK, PurgeIsDue, Next
    PROVE  PurgeIsDue'
<1>0. purge \in [Convs -> Nat] /\ cleaner.conv \in Convs
      /\ cleaner \in [pc : {"idle", "evicted", "emptied", "selected", "commit"},
                      conv : Convs, sel : Row]
  BY DEF TypeOK
<1>u. UNCHANGED <<purge, cleaner>> => PurgeIsDue'
  BY DEF PurgeIsDue
<1>1. ASSUME NEW o \in Ops, Request(o) \/ TitleEvent(o) \/ CreateBranch(o) \/ CreateRoot(o)
      PROVE PurgeIsDue'
  BY <1>1, <1>u DEF Request, TitleEvent, CreateBranch, CreateRoot, Begin
<1>2. ASSUME NEW o \in Ops, GetSteps(o) PROVE PurgeIsDue'
  BY <1>2, <1>u DEF GetSteps, ReadCache, ReadTable, Fill
<1>3. ASSUME NEW o \in Ops, HandlerSteps(o), ~Batch(o) PROVE PurgeIsDue'
  BY <1>3, <1>u DEF HandlerSteps, Retitle, Reread, After, Point, Insert, Report
<1>4. ASSUME NEW o \in Ops, Batch(o) PROVE PurgeIsDue'
  BY <1>0, <1>4 DEF Batch, PurgeIsDue
<1>5. CASE Consume
  BY <1>0, <1>5 DEF Consume, PurgeIsDue
<1>6. CASE PurgeMessages \/ PurgeRead \/ PurgeRow \/ CleanupFails
  BY <1>0, <1>6 DEF PurgeMessages, PurgeRead, PurgeRow, CleanupFails, PurgeIsDue
<1>7. CASE Commit \/ CleanupCrashes
  BY <1>7 DEF Commit, CleanupCrashes, PurgeIsDue, Rest
<1>8. ASSUME NEW c \in Convs, NewMessage(c) \/ Expire(c) PROVE PurgeIsDue'
  BY <1>8, <1>u DEF NewMessage, Expire
<1> QED BY <1>1, <1>2, <1>3, <1>4, <1>5, <1>6, <1>7, <1>8 DEF Next, Cleanup

\* The batch of a row that is still the one that was read moves its entry.
LEMMA BatchMatches ==
    ASSUME TypeOK, RequestsFit, CatalogueMatches, NEW o \in Ops, Batch(o)
    PROVE  CatalogueMatches'
<1> DEFINE d == op[o].conv
           new == Written(op[o], clock + 1)
           upd == Updated(table[d], op[o], new)
<1>0. /\ op[o] \in OpType /\ RequestFits(op[o]) /\ d \in Convs /\ op[o].pc = "batch"
      /\ table \in [Convs -> Row] /\ clock \in Nat /\ clock < MaxClock /\ op[o].sel \in Row
  BY BoundsAssumption DEF TypeOK, OpType, RequestsFit, Batch, Times, Tick
<1>1. /\ table' = [table EXCEPT ![d] = upd]
      /\ catalogue' = Replace(d, op[o].sel, new)
      /\ lost' = IF table[d] # op[o].sel THEN lost \cup {d} ELSE lost
      /\ tied' = IF SameMs(op[o].sel.stamp, new.stamp) THEN tied \cup {d} ELSE tied \ {d}
  BY <1>0 DEF Batch
<1>2. op[o].sel # NoRow
  BY <1>0 DEF RequestFits
<1>3. table[d] = op[o].sel => Entry(d, new) = Entry(d, upd)
  <2>1. CASE op[o].kind = "title"
    BY <1>0, <2>1 DEF Updated, Written, NewStatus, Entry, Row
  <2>2. CASE op[o].kind # "title"
    BY <1>0, <2>2 DEF Updated, Written, Entry, Row
  <2> QED BY <2>1, <2>2
<1>4. upd # NoRow
  <2>1. new.stamp = clock + 1
    BY <1>0 DEF Written, Row
  <2> HIDE DEF new
  <2>2. upd.stamp = new.stamp
    BY <1>0 DEF Updated, Row
  <2>3. NoRow.stamp = 0
    BY DEF NoRow
  <2> HIDE DEF upd
  <2> QED BY <1>0, <2>1, <2>2, <2>3
<1>5. Entry(d, new).conv = d
  BY DEF Entry
<1> DEFINE Fresh == {e \in {Entry(d, new)} : ~SameMs(op[o].sel.stamp, new.stamp)}
<1> HIDE DEF new, upd
<1>6. ASSUME NEW c \in Convs \ lost', c # d
      PROVE  {e \in catalogue' : e.conv = c} =
                IF table'[c] = NoRow \/ c \in tied' THEN {} ELSE {Entry(c, table'[c])}
  <2>1. table'[c] = table[c] /\ c \notin lost /\ (c \in tied' <=> c \in tied)
    BY <1>0, <1>1, <1>6
  <2>2. {e \in catalogue' : e.conv = c} = {e \in catalogue : e.conv = c}
    BY <1>1, <1>5, <1>6 DEF Replace
  <2> QED BY <2>1, <2>2 DEF CatalogueMatches
<1>7. ASSUME d \notin lost'
      PROVE  {e \in catalogue' : e.conv = d} =
                IF table'[d] = NoRow \/ d \in tied' THEN {} ELSE {Entry(d, table'[d])}
  <2>1. table[d] = op[o].sel /\ d \notin lost /\ table'[d] = upd
    BY <1>0, <1>1, <1>7
  <2>2. \A e \in catalogue : e.conv = d => e = Entry(d, op[o].sel)
    BY <1>0, <2>1 DEF CatalogueMatches
  <2>3. \A e \in catalogue : e.conv = d => SameMs(e.stamp, op[o].sel.stamp)
    BY <2>2 DEF Entry, SameMs
  <2>4. {e \in catalogue' : e.conv = d} = Fresh
    BY <1>1, <1>5, <2>3 DEF Replace
  <2>5. CASE SameMs(op[o].sel.stamp, new.stamp)
    BY <1>1, <2>4, <2>5
  <2>6. CASE ~SameMs(op[o].sel.stamp, new.stamp)
    <3>1. Fresh = {Entry(d, new)} /\ d \notin tied'
      BY <1>1, <2>6
    <3> QED BY <1>3, <1>4, <2>1, <2>4, <3>1
  <2> QED BY <2>5, <2>6
<1> QED BY <1>6, <1>7 DEF CatalogueMatches, Entry

\* A new conversation gets its entry.
LEMMA InsertMatches ==
    ASSUME TypeOK, RowsFit, RequestsFit, CreatorsAlone, TiedMade, CatalogueMatches,
           NEW o \in Ops, Insert(o)
    PROVE  CatalogueMatches'
<1> DEFINE d == op[o].conv
           new == NewRow(op[o])
<1>0. /\ op[o] \in OpType /\ RequestFits(op[o]) /\ d \in Convs /\ op[o].pc = "insert"
      /\ table \in [Convs -> Row] /\ clock \in Nat
  BY BoundsAssumption DEF TypeOK, OpType, RequestsFit, Insert, Times
<1>1. /\ table' = [table EXCEPT ![d] = new]
      /\ catalogue' = catalogue \cup {Entry(d, new)}
      /\ lost' = lost /\ tied' = tied
  BY DEF Insert, NewRow
<1>2. table[d] = NoRow /\ d \notin tied
  BY <1>0 DEF CreatorsAlone, Creating, RequestFits, RowsFit, RowFits, TiedMade
<1>3. new # NoRow
  BY <1>0 DEF NewRow, NoRow
<1>4. Entry(d, new).conv = d
  BY DEF Entry
<1> HIDE DEF new
<1>5. ASSUME NEW c \in Convs \ lost'
      PROVE  {e \in catalogue' : e.conv = c} =
                IF table'[c] = NoRow \/ c \in tied' THEN {} ELSE {Entry(c, table'[c])}
  <2>1. CASE c = d
    <3>1. {e \in catalogue : e.conv = d} = {}
      BY <1>1, <1>2, <1>5, <2>1 DEF CatalogueMatches
    <3>2. {e \in catalogue' : e.conv = d} = {Entry(d, new)} /\ table'[d] = new
      BY <1>0, <1>1, <1>4, <3>1
    <3> QED BY <1>1, <1>2, <1>3, <2>1, <3>2
  <2>2. CASE c # d
    <3>1. {e \in catalogue' : e.conv = c} = {e \in catalogue : e.conv = c} /\ table'[c] = table[c]
      BY <1>0, <1>1, <1>4, <2>2
    <3> QED BY <1>1, <1>5, <3>1 DEF CatalogueMatches
  <2> QED BY <2>1, <2>2
<1> QED BY <1>5 DEF CatalogueMatches, Entry

\* The purge of a row that is still the one that was read removes its entry.
LEMMA PurgeMatches ==
    ASSUME TypeOK, CatalogueMatches, PurgeRow
    PROVE  CatalogueMatches'
<1> DEFINE d == cleaner.conv
<1>0. d \in Convs /\ table \in [Convs -> Row]
  BY DEF TypeOK
<1>1. /\ table' = [table EXCEPT ![d] = NoRow]
      /\ catalogue' = {e \in catalogue : ~(e.conv = d /\ SameMs(e.stamp, cleaner.sel.stamp))}
      /\ lost' = IF table[d] # cleaner.sel THEN lost \cup {d} ELSE lost
      /\ tied' = tied
  BY DEF PurgeRow
<1>2. ASSUME NEW c \in Convs \ lost'
      PROVE  {e \in catalogue' : e.conv = c} =
                IF table'[c] = NoRow \/ c \in tied' THEN {} ELSE {Entry(c, table'[c])}
  <2>1. CASE c = d
    <3>1. table[d] = cleaner.sel /\ d \notin lost /\ table'[d] = NoRow
      BY <1>0, <1>1, <1>2, <2>1
    <3>2. \A e \in catalogue : e.conv = d => e = Entry(d, cleaner.sel)
      BY <1>0, <3>1 DEF CatalogueMatches
    <3>3. {e \in catalogue' : e.conv = d} = {}
      BY <1>1, <3>2 DEF Entry, SameMs
    <3> QED BY <2>1, <3>1, <3>3
  <2>2. CASE c # d
    <3>1. {e \in catalogue' : e.conv = c} = {e \in catalogue : e.conv = c} /\ table'[c] = table[c]
      BY <1>0, <1>1, <2>2
    <3> QED BY <1>1, <1>2, <3>1 DEF CatalogueMatches
  <2> QED BY <2>1, <2>2
<1> QED BY <1>2 DEF CatalogueMatches, Entry

\* The steps that touch the two tables.
LEMMA TablesMove ==
    ASSUME Next
    PROVE  \/ UNCHANGED <<table, catalogue, lost, tied>>
           \/ \E o \in Ops : Batch(o) \/ Insert(o)
           \/ PurgeRow
<1>1. ASSUME NEW o \in Ops, Request(o) \/ TitleEvent(o) \/ CreateBranch(o) \/ CreateRoot(o)
      PROVE UNCHANGED <<table, catalogue, lost, tied>>
  BY <1>1 DEF Request, TitleEvent, CreateBranch, CreateRoot, Begin
<1>2. ASSUME NEW o \in Ops, GetSteps(o) PROVE UNCHANGED <<table, catalogue, lost, tied>>
  BY <1>2 DEF GetSteps, ReadCache, ReadTable, Fill
<1>3. ASSUME NEW o \in Ops, HandlerSteps(o), ~Insert(o), ~Batch(o)
      PROVE UNCHANGED <<table, catalogue, lost, tied>>
  BY <1>3 DEF HandlerSteps, Retitle, Reread, After, Point, Report
<1>4. ASSUME Cleanup \/ CleanupFails \/ CleanupCrashes, ~PurgeRow
      PROVE UNCHANGED <<table, catalogue, lost, tied>>
  BY <1>4 DEF Cleanup, Consume, PurgeMessages, PurgeRead, Commit, CleanupFails, CleanupCrashes
<1>5. ASSUME NEW c \in Convs, NewMessage(c) \/ Expire(c) PROVE UNCHANGED <<table, catalogue, lost, tied>>
  BY <1>5 DEF NewMessage, Expire
<1> QED BY <1>1, <1>2, <1>3, <1>4, <1>5 DEF Next

\* Every step keeps the two tables together.
LEMMA CatalogueKept ==
    ASSUME TypeOK, RowsFit, RequestsFit, CreatorsAlone, TiedMade, CatalogueMatches, Next
    PROVE  CatalogueMatches'
<1>1. CASE UNCHANGED <<table, catalogue, lost, tied>>
  BY <1>1 DEF CatalogueMatches, Entry
<1> QED BY <1>1, TablesMove, BatchMatches, InsertMatches, PurgeMatches

\* A request writes only what was made.
LEMMA TiedKept ==
    ASSUME TypeOK, RequestsFit, Growing, TiedMade, Next
    PROVE  TiedMade'
<1>1. ASSUME NEW c \in Convs, Exists(c) PROVE (Exists(c))'
  BY <1>1 DEF Growing, Exists
<1>2. UNCHANGED tied => TiedMade'
  BY <1>1 DEF TiedMade, TypeOK
<1>3. ASSUME NEW o \in Ops, Batch(o) PROVE TiedMade'
  <2>1. op[o].conv \in Convs /\ Exists(op[o].conv)
    BY <1>3 DEF TypeOK, OpType, RequestsFit, RequestFits, RowFits, Batch
  <2>2. tied' \subseteq tied \cup {op[o].conv}
    BY <1>3 DEF Batch
  <2>3. \A c \in tied' : c \in Convs /\ Exists(c)
    BY <2>1, <2>2 DEF TiedMade, TypeOK
  <2> QED BY <1>1, <2>3 DEF TiedMade
<1>4. ASSUME NEW o \in Ops, Insert(o) PROVE UNCHANGED tied
  BY <1>4 DEF Insert
<1>5. PurgeRow => UNCHANGED tied
  BY DEF PurgeRow
<1> QED BY <1>2, <1>3, <1>4, <1>5, TablesMove
-----------------------------------------------------------------------------
(* The theorems. *)

\* The conversation and its branch that exist at the start.
LEMMA InitInv == Init => Inv
<1> SUFFICES ASSUME Init PROVE Inv
  OBVIOUS
<1> USE RootAssumption
<1>0. /\ 0 \in Times /\ 1 \in Times /\ 2 \in Times /\ 3 \in Times /\ 4 \in Times
      /\ Root \in Convs /\ Branch \in Convs /\ Root # Branch /\ Root # NoConv
  BY BoundsAssumption, NoConvAssumption DEF Times
<1>1. /\ made = table /\ table \in [Convs -> Row]
      /\ table[Root] = RootRow /\ table[Branch] = BranchRow
      /\ \A c \in Convs : c = Root \/ c = Branch \/ table[c] = NoRow
  BY <1>0, RowsTyped DEF Init
<1>2. catalogue = {Entry(Root, RootRow), Entry(Branch, BranchRow)} /\ lost = {} /\ tied = {}
  BY DEF Init
<1>3. cache \in [Convs -> Row] /\ \A c \in Convs : cache[c] = NoRow
  BY RowsTyped DEF Init
<1>4. clock = 4 /\ messages \in [Convs -> SUBSET Times]
      /\ \A c \in Convs : \A m \in messages[c] : c = Root /\ m \in {2, 3}
  BY <1>0 DEF Init
<1>5. op \in [Ops -> OpType] /\ \A o \in Ops : op[o] = Idle
  BY IdleTyped DEF Init
<1>6. TypeOK
  <2>1. Entry(Root, RootRow) \in Entries /\ Entry(Branch, BranchRow) \in Entries
    BY <1>0, RowsTyped DEF Entry, Entries, Row
  <2>2. cleaner \in [pc : {"idle", "evicted", "emptied", "selected", "commit"},
                     conv : Convs, sel : Row]
    BY RowsTyped DEF Init, Rest
  <2>3. purge \in [Convs -> Nat] /\ started \in 0..MaxOps /\ faults \in 0..MaxFaults
        /\ skipped \subseteq Convs
    BY BoundsAssumption DEF Init
  <2> QED BY <1>0, <1>1, <1>2, <1>3, <1>4, <1>5, <2>1, <2>2, <2>3 DEF TypeOK
<1>7. MadeInOrder
  BY <1>0, <1>1, <1>4, RowsTyped DEF MadeInOrder, Exists
<1>8. RowsFit
  BY <1>1, <1>3 DEF RowsFit, RowFits, Exists
<1>9. MessagesFit
  BY <1>0, <1>1, <1>4, RowsTyped DEF MessagesFit, Exists
<1>10. RequestsFit
  BY <1>5, IdleFits DEF RequestsFit
<1>11. CreatorsAlone
  BY <1>5, IdleTyped DEF CreatorsAlone, Creating
<1>12. PurgeIsDue
  BY DEF Init, Rest, PurgeIsDue
<1>13. CatalogueMatches
  <2>1. ASSUME NEW c \in Convs
        PROVE  {e \in catalogue : e.conv = c} = IF table[c] = NoRow THEN {} ELSE {Entry(c, table[c])}
    <3>1. Entry(Root, RootRow).conv = Root /\ Entry(Branch, BranchRow).conv = Branch
      BY DEF Entry
    <3>2. CASE c = Root
      BY <1>0, <1>1, <1>2, <3>1, <3>2, RowsTyped
    <3>3. CASE c = Branch
      BY <1>0, <1>1, <1>2, <3>1, <3>3, RowsTyped
    <3>4. CASE c # Root /\ c # Branch
      BY <1>1, <1>2, <3>1, <3>4
    <3> QED BY <3>2, <3>3, <3>4
  <2> QED BY <1>2, <2>1 DEF CatalogueMatches
<1>14. TiedMade
  BY <1>2 DEF TiedMade
<1> QED BY <1>6, <1>7, <1>8, <1>9, <1>10, <1>11, <1>12, <1>13, <1>14 DEF Inv

\* Nothing happens: the invariant stands.
LEMMA StutterInv == Inv /\ UNCHANGED vars => Inv'
<1> SUFFICES ASSUME Inv, UNCHANGED vars PROVE Inv'
  OBVIOUS
<1>1. TypeOK /\ TypeOK' /\ Growing
  <2>1. clock \in Nat
    BY BoundsAssumption DEF Inv, TypeOK, Times
  <2> QED BY <2>1 DEF Inv, TypeOK, vars, Growing
<1>2. RequestsFit'
  <2>1. ASSUME NEW x, NEW q \in Ops, x = op'[q] PROVE RequestFits(x)'
    <3>1. x \in OpType /\ RequestFits(x)
      BY <2>1 DEF Inv, TypeOK, RequestsFit, vars
    <3> QED BY <1>1, <3>1, RequestStays
  <2> QED BY <2>1 DEF RequestsFit
<1>3. MadeInOrder' /\ MessagesFit' /\ RowsFit'
  BY DEF Inv, vars, MadeInOrder, MessagesFit, RowsFit, RowFits, Exists, Ghost
<1>4. CreatorsAlone' /\ PurgeIsDue'
  BY DEF Inv, vars, CreatorsAlone, Creating, Exists, PurgeIsDue
<1>5. CatalogueMatches' /\ TiedMade'
  BY DEF Inv, vars, CatalogueMatches, Entry, TiedMade, Exists
<1> QED BY <1>1, <1>2, <1>3, <1>4, <1>5 DEF Inv

\* Every step keeps the invariant.
LEMMA NextInv == Inv /\ [Next]_vars => Inv'
<1> SUFFICES ASSUME Inv, Next PROVE Inv'
  BY StutterInv
<1>1. /\ TypeOK /\ MadeInOrder /\ RowsFit /\ MessagesFit /\ RequestsFit /\ CreatorsAlone
      /\ PurgeIsDue /\ TiedMade /\ CatalogueMatches
  BY DEF Inv
<1>2. TypeOK'
  BY <1>1, Typed
<1>3. Growing
  BY <1>1, Grows
<1>4. MadeInOrder'
  BY <1>1, <1>2, <1>3, MadeKept
<1>5. RowsFit'
  BY <1>1, <1>2, <1>3, RowsKept
<1>6. MessagesFit'
  BY <1>1, <1>2, <1>3, MessagesKept
<1>7. RequestsFit'
  BY <1>1, <1>2, <1>3, RequestsKept
<1>8. CreatorsAlone'
  BY <1>1, CreatorsKept
<1>9. PurgeIsDue'
  BY <1>1, PurgeKept
<1>10. CatalogueMatches'
  BY <1>1, CatalogueKept
<1>11. TiedMade'
  BY <1>1, <1>3, TiedKept
<1> QED BY <1>2, <1>4, <1>5, <1>6, <1>7, <1>8, <1>9, <1>10, <1>11 DEF Inv

\* The invariant holds of everything that requests, title events, the walk up
\* the branches and the cleanup worker do to the conversation tables.
THEOREM ConversationInvariant == Spec => []Inv
BY InitInv, NextInv, PTL DEF Spec

\* The tables, the cache and the requests keep their types.
THEOREM ConversationTypes == Spec => []TypeOK
<1>1. Inv => TypeOK
  BY DEF Inv
<1> QED BY <1>1, ConversationInvariant, PTL

\* The conversations table and conversations_by_user agree on every
\* conversation that no batch was applied to after its row had changed
\* (conversation_repository.py:120-146).
THEOREM CatalogueAgrees == Spec => []CatalogueMatches
<1>1. Inv => CatalogueMatches
  BY DEF Inv
<1> QED BY <1>1, ConversationInvariant, PTL

\* A purged conversation comes back only through a batch whose row was purged
\* between its read and its write (conversation_repository.py:116-118): not
\* through the cache, a title event or a new conversation.
THEOREM PurgeStands == Spec => PurgedStays
<1>1. ASSUME Inv, [Next]_vars
      PROVE  [\A c \in Convs : (/\ made[c] # NoRow /\ table[c] = NoRow
                                /\ table'[c] # NoRow) => c \in lost']_vars
  <2>1. ASSUME NEW c \in Convs, made[c] # NoRow, table[c] = NoRow, table'[c] # NoRow, Next
        PROVE  c \in lost'
    <3>0. TypeOK /\ RequestsFit /\ CreatorsAlone
      BY <1>1 DEF Inv
    <3>1. ASSUME NEW o \in Ops, Batch(o) PROVE c \in lost'
      <4>1. op[o].sel # NoRow
        BY <3>0, <3>1 DEF RequestsFit, RequestFits, Batch
      <4>2. c = op[o].conv
        BY <2>1, <3>0, <3>1 DEF Batch, TypeOK
      <4> QED BY <2>1, <3>1, <4>1, <4>2 DEF Batch
    <3>2. ASSUME NEW o \in Ops, Insert(o) PROVE FALSE
      <4>1. ~Exists(op[o].conv)
        BY <3>0, <3>2 DEF Insert, CreatorsAlone, Creating, RequestsFit, RequestFits
      <4>2. c = op[o].conv
        BY <2>1, <3>0, <3>2 DEF Insert, TypeOK
      <4> QED BY <2>1, <4>1, <4>2 DEF Exists
    <3>3. CASE PurgeRow
      BY <2>1, <3>0, <3>3 DEF PurgeRow, TypeOK
    <3> QED BY <2>1, <3>1, <3>2, <3>3, TablesMove
  <2> QED BY <1>1, <2>1
<1> QED BY <1>1, ConversationInvariant, PTL DEF Spec, PurgedStays

\* A finished walk's parts of the ancestors.
LEMMA ResolvedWalk ==
    ASSUME Inv, NEW o \in Resolved
    PROVE  /\ op[o] \in OpType /\ WalkFits(op[o]) /\ op[o].segs \in Seq(Segments)
           /\ \A i \in 1..Len(op[o].segs) :
                 op[o].segs[i] \in Segments /\ SegmentFits(op[o].segs[i])
<1>1. op[o] \in OpType /\ RequestFits(op[o]) /\ op[o].pc = "report"
  BY DEF Inv, TypeOK, RequestsFit, Resolved
<1>2. WalkFits(op[o])
  BY <1>1 DEF RequestFits
<1>3. op[o].segs \in Seq(Segments)
  BY <1>1 DEF OpType
<1> QED BY <1>1, <1>2, <1>3 DEF WalkFits

\* What is read of an ancestor is among its messages, and not after the
\* millisecond in which its child began.
LEMMA SegmentBounds ==
    ASSUME Inv, NEW seg \in Segments, SegmentFits(seg), NEW m \in SegmentMessages(seg)
    PROVE  m \in messages[seg.conv] /\ Ms[m] <= Ms[made[seg.child].created]
<1>1. /\ made[seg.child].created \in Times /\ seg.upto \in Times /\ seg.time \in Times
      /\ messages[seg.conv] \subseteq Times
  BY DEF Inv, TypeOK, Row, Segments
<1>2. \A S, n : Latest(S, n) \subseteq S
  BY DEF Latest
<1>3. \A t \in Times : t \in Nat /\ Ms[t] \in Nat
  BY BoundsAssumption, MsAssumption DEF Times
<1>4. CASE seg.upto # 0
  <2>1. m \in {k \in messages[seg.conv] : k <= seg.upto}
    BY <1>2, <1>4 DEF SegmentMessages
  <2>2. m \in Times /\ m <= made[seg.child].created
    BY <1>1, <1>3, <2>1 DEF SegmentFits
  <2> QED BY <1>1, <2>1, <2>2, MsAssumption
<1>5. CASE seg.upto = 0
  <2>1. m \in messages[seg.conv] /\ Ms[m] <= Ms[seg.time]
    BY <1>2, <1>5 DEF SegmentMessages
  <2>2. Ms[seg.time] <= Ms[made[seg.child].created]
    BY <1>1, <1>5, MsAssumption DEF SegmentFits
  <2> QED BY <1>1, <1>3, <2>1, <2>2
<1> QED BY <1>4, <1>5

\* However stale the rows a walk was given, and whether or not they still
\* carry the branch message, a branch inherits nothing that was written after
\* it was made (branch_context_service.py:6-9), or after the millisecond in
\* which it was made.
THEOREM NothingLaterInherited == Spec => []NeverLater
<1>1. ASSUME Inv PROVE NeverLater
  BY <1>1, ResolvedWalk, SegmentBounds DEF NeverLater
<1> QED BY <1>1, ConversationInvariant, PTL

\* The parts of the ancestors do not overlap: whatever is inherited from a
\* nearer ancestor was written after whatever is inherited from one further up,
\* or in the same millisecond (branch_context_service.py:10-11), so turning the walk around puts them in
\* the order they were written.
THEOREM InheritedInOrder == Spec => []AncestorsInOrder
<1>1. ASSUME Inv PROVE AncestorsInOrder
  <2>1. ASSUME NEW o \in Resolved, NEW i \in 1..Len(op[o].segs), NEW j \in 1..Len(op[o].segs), i < j,
               NEW m \in SegmentMessages(op[o].segs[i]), NEW k \in SegmentMessages(op[o].segs[j])
        PROVE  Ms[k] <= Ms[m]
    <3> DEFINE near == op[o].segs[i]
               far == op[o].segs[j]
    <3>1. /\ near \in Segments /\ far \in Segments /\ SegmentFits(near) /\ SegmentFits(far)
          /\ made[far.child].created <= made[near.conv].created
      BY <1>1, <2>1, ResolvedWalk DEF WalkFits
    <3>2. m \in messages[near.conv] /\ k \in messages[far.conv] /\ Ms[k] <= Ms[made[far.child].created]
      BY <1>1, <3>1, SegmentBounds
    <3>3. /\ near.conv \in Convs /\ near.child \in Convs /\ far.conv \in Convs /\ far.child \in Convs
      BY <3>1 DEF Segments
    <3> HIDE DEF near, far
    <3>4. made[near.conv].created < m
      BY <1>1, <3>2, <3>3 DEF Inv, MessagesFit
    <3>5. /\ made[far.child].created \in Times /\ made[near.conv].created \in Times
          /\ m \in Times /\ k \in Times
      <4>1. made \in [Convs -> Row] /\ messages \in [Convs -> SUBSET Times]
        BY <1>1 DEF Inv, TypeOK
      <4>2. made[far.child] \in Row /\ made[near.conv] \in Row
        BY <3>3, <4>1
      <4>3. m \in Times /\ k \in Times
        BY <3>2, <3>3, <4>1
      <4> QED BY <4>2, <4>3 DEF Row
    <3>6. \A t \in Times : t \in Nat /\ Ms[t] \in Nat
      BY BoundsAssumption, MsAssumption DEF Times
    <3>7. Ms[made[far.child].created] <= Ms[made[near.conv].created]
      BY <3>1, <3>5, MsAssumption
    <3>8. Ms[made[near.conv].created] <= Ms[m]
      <4>1. made[near.conv].created <= m
        BY <3>4, <3>5, <3>6
      <4> QED BY <3>5, <4>1, MsAssumption
    <3>9. \A x, y, z, w \in Nat : x <= y /\ y <= z /\ z <= w => x <= w
      OBVIOUS
    <3>10. /\ Ms[k] \in Nat /\ Ms[made[far.child].created] \in Nat
           /\ Ms[made[near.conv].created] \in Nat /\ Ms[m] \in Nat
      BY <3>5, <3>6
    <3>11. Ms[k] <= Ms[made[far.child].created]
      BY <3>2
    <3> QED BY <3>7, <3>8, <3>9, <3>10, <3>11
  <2> QED BY <2>1 DEF AncestorsInOrder
<1> QED BY <1>1, ConversationInvariant, PTL

-----------------------------------------------------------------------------
(* Orders on finite sets. *)

\* A nonempty set of natural numbers has a least one.
LEMMA LeastOf ==
    ASSUME NEW S \in SUBSET Nat, S # {}
    PROVE  \E x \in S : \A y \in S : x <= y
<1> DEFINE R == {ss \in Nat \X Nat : ss[1] < ss[2]}
<1>1. \A x, y \in Nat : y < x => <<y, x>> \in R
  OBVIOUS
<1>2. IsWellFoundedOn(R, Nat)
  BY NatLessThanWellFounded DEF OpToRel
<1> HIDE DEF R
<1>3. PICK x \in S : \A y \in S : ~(<<y, x>> \in R)
  BY <1>2, WFMin
<1>4. ASSUME NEW y \in S PROVE x <= y
  <2>1. x \in Nat /\ y \in Nat /\ ~(<<y, x>> \in R)
    BY <1>3
  <2>2. ~(y < x)
    BY <1>1, <2>1
  <2> QED BY <2>1, <2>2
<1> QED BY <1>3, <1>4

\* How many elements of S the relation R puts before x.
Lower(x, S, R) == Cardinality({y \in S : <<y, x>> \in R})

\* R is a strict order in which every two elements of S have their places.
Orders(R, S) ==
    /\ \A x \in S : <<x, x>> \notin R
    /\ \A x, y, z \in S : <<x, y>> \in R /\ <<y, z>> \in R => <<x, z>> \in R
    /\ \A x, y \in S : x = y \/ <<x, y>> \in R \/ <<y, x>> \in R

\* A finite set can be counted off in such an order.
LEMMA Ranking ==
    ASSUME NEW S, IsFiniteSet(S), NEW R, Orders(R, S)
    PROVE  /\ Cardinality(S) \in Nat
           /\ \A x \in S : Lower(x, S, R) \in 0..(Cardinality(S) - 1)
           /\ \A x, y \in S : <<x, y>> \in R => Lower(x, S, R) < Lower(y, S, R)
           /\ \A x, y \in S : Lower(x, S, R) = Lower(y, S, R) => x = y
           /\ \A k \in 1..Cardinality(S) : \E x \in S : Lower(x, S, R) = k - 1
<1> DEFINE n == Cardinality(S)
           T == 0..(n - 1)
           g == [x \in S |-> Lower(x, S, R)]
<1>0. n \in Nat
  BY FS_CardinalityType
<1>1. ASSUME NEW x \in S PROVE Lower(x, S, R) \in T
  <2> DEFINE U == {y \in S : <<y, x>> \in R}
  <2>1. x \notin U
    BY DEF Orders
  <2>2. U \in SUBSET S /\ U # S
    BY <2>1
  <2>3. Cardinality(U) \in Nat /\ Cardinality(U) <= n /\ Cardinality(U) # n
    BY <2>2, FS_Subset, FS_CardinalityType
  <2> HIDE DEF U, n
  <2> QED BY <1>0, <2>3 DEF Lower, U
<1>2. ASSUME NEW x \in S, NEW y \in S, <<x, y>> \in R
      PROVE  Lower(x, S, R) < Lower(y, S, R)
  <2> DEFINE U == {z \in S : <<z, x>> \in R}
             V == {z \in S : <<z, y>> \in R}
  <2>1. x \in V /\ x \notin U
    BY <1>2 DEF Orders
  <2>2. ASSUME NEW z \in U PROVE z \in V
    BY <1>2 DEF Orders
  <2>3. U \in SUBSET V /\ U # V /\ V \in SUBSET S
    BY <2>1, <2>2
  <2> HIDE DEF U, V
  <2>4. IsFiniteSet(V)
    BY <2>3, FS_Subset
  <2>5. /\ Cardinality(U) \in Nat /\ Cardinality(V) \in Nat
        /\ Cardinality(U) <= Cardinality(V) /\ Cardinality(U) # Cardinality(V)
    BY <2>3, <2>4, FS_Subset, FS_CardinalityType
  <2>6. Cardinality(U) < Cardinality(V)
    BY <2>5
  <2> QED BY <2>6 DEF Lower, U, V
<1>3. ASSUME NEW x \in S, NEW y \in S, Lower(x, S, R) = Lower(y, S, R) PROVE x = y
  <2>1. Lower(x, S, R) \in Nat
    BY <1>0, <1>1
  <2>2. <<x, y>> \notin R /\ <<y, x>> \notin R
    BY <1>2, <1>3, <2>1
  <2> QED BY <2>2 DEF Orders
<1>4. g \in Injection(S, T)
  <2>1. g \in [S -> T]
    BY <1>1
  <2>2. ASSUME NEW x \in S, NEW y \in S, g[x] = g[y] PROVE x = y
    BY <1>3, <2>2
  <2> HIDE DEF g
  <2> QED BY <2>1, <2>2 DEF Injection, IsInjective
<1>5. ASSUME NEW k \in 1..n PROVE \E x \in S : Lower(x, S, R) = k - 1
  <2>1. n >= 1 /\ k - 1 \in T
    <3> HIDE DEF n
    <3> QED BY <1>0
  <2>2. IsFiniteSet(T) /\ Cardinality(T) = n
    <3>1. 0 \in Int /\ n - 1 \in Int /\ ~(0 > n - 1)
      BY <1>0, <2>1
    <3>2. Cardinality(T) = n - 1 - 0 + 1
      BY <3>1, FS_Interval
    <3> QED BY <1>0, <3>1, <3>2, FS_Interval
  <2>3. g \in Surjection(S, T)
    BY <1>4, <2>2, FS_Injection
  <2>4. PICK x \in S : g[x] = k - 1
    <3> HIDE DEF g
    <3> QED BY <2>1, <2>3 DEF Surjection
  <2> QED BY <2>4
<1> QED BY <1>0, <1>1, <1>2, <1>3, <1>5

-----------------------------------------------------------------------------
(* The list that is sent to the model. *)

\* What is picked is a finite set of rows that the segments hold.
LEMMA PickedIs ==
    ASSUME Inv, NEW o \in Resolved
    PROVE  /\ Picked(op[o].segs) \in SUBSET (Nat \X Nat) /\ IsFiniteSet(Picked(op[o].segs))
           /\ \A a \in Picked(op[o].segs) :
                 a[1] \in 1..Len(op[o].segs) /\ a[2] \in SegmentMessages(op[o].segs[a[1]])
<1> DEFINE segs == op[o].segs
           D == (1..Len(segs)) \X Times
<1>1. /\ Len(segs) \in Nat
      /\ \A i \in 1..Len(segs) : segs[i] \in Segments /\ SegmentFits(segs[i])
  BY ResolvedWalk
<1>2. messages \in [Convs -> SUBSET Times] /\ Times \subseteq Nat /\ IsFiniteSet(Times)
  <2>1. MaxClock \in Nat
    BY BoundsAssumption
  <2>2. messages \in [Convs -> SUBSET Times]
    BY DEF Inv, TypeOK
  <2>3. IsFiniteSet(Times)
    BY <2>1, FS_Interval DEF Times
  <2>4. Times \subseteq Nat
    BY <2>1 DEF Times
  <2> QED BY <2>2, <2>3, <2>4
<1> HIDE DEF segs
<1>3. ASSUME NEW i \in 1..Len(segs) PROVE SegmentMessages(segs[i]) \subseteq Times
  <2>1. \A m \in SegmentMessages(segs[i]) : m \in messages[segs[i].conv]
    BY <1>1, SegmentBounds
  <2>2. segs[i].conv \in Convs
    BY <1>1 DEF Segments
  <2> QED BY <1>2, <2>1, <2>2
<1>4. ASSUME NEW a \in Readable(segs)
      PROVE  a \in D /\ a[1] \in 1..Len(segs) /\ a[2] \in SegmentMessages(segs[a[1]])
  <2>1. PICK i \in 1..Len(segs) : \E m \in SegmentMessages(segs[i]) : a = <<i, m>>
    BY DEF Readable
  <2>2. PICK m \in SegmentMessages(segs[i]) : a = <<i, m>>
    BY <2>1
  <2>3. m \in Times
    BY <1>3
  <2> QED BY <2>2, <2>3
<1>5. Picked(segs) \in SUBSET Readable(segs)
  BY DEF Picked
<1>6. IsFiniteSet(D)
  <2>1. IsFiniteSet(1..Len(segs))
    BY <1>1, FS_Interval
  <2> QED BY <1>2, <2>1, FS_Product
<1>7. D \in SUBSET (Nat \X Nat)
  <2>1. 1..Len(segs) \subseteq Nat /\ Times \subseteq Nat
    BY <1>1, <1>2
  <2>2. ASSUME NEW a \in D PROVE a \in Nat \X Nat
    BY <2>1
  <2> QED BY <2>2
<1>8. Picked(segs) \in SUBSET D
  BY <1>4, <1>5
<1> HIDE DEF D
<1>9. Picked(segs) \in SUBSET (Nat \X Nat) /\ IsFiniteSet(Picked(segs))
  BY <1>6, <1>7, <1>8, FS_Subset
<1> QED BY <1>4, <1>5, <1>9 DEF segs

\* The history sent to the model is in the order the messages were written, to
\* the millisecond (branch_context_service.py:10-11), although every boundary
\* was read at a different moment: the parts of the ancestors do not overlap,
\* so a picked row is never read before one with a newer message.
THEOREM HistoryIsChronological == Spec => []Chronological
<1>1. ASSUME Inv, AncestorsInOrder PROVE Chronological
  <2> SUFFICES ASSUME NEW o \in Resolved,
                      NEW i \in 1..Len(InheritedHistory(op[o].segs)),
                      NEW j \in 1..Len(InheritedHistory(op[o].segs)), i < j
               PROVE  Ms[InheritedHistory(op[o].segs)[i]] <= Ms[InheritedHistory(op[o].segs)[j]]
    BY DEF Chronological
  <2> DEFINE h == InheritedHistory(op[o].segs)
             P == Picked(op[o].segs)
             n == Cardinality(P)
             R == {p \in P \X P : ReadBefore(p[2], p[1])}
             at(k) == CHOOSE a \in P : Cardinality({b \in P : ReadBefore(a, b)}) = k - 1
  <2>1. /\ P \in SUBSET (Nat \X Nat) /\ IsFiniteSet(P)
        /\ \A a \in P : /\ a[1] \in 1..Len(op[o].segs)
                        /\ a[2] \in SegmentMessages(op[o].segs[a[1]])
    BY <1>1, PickedIs
  <2>2. h = [k \in 1..n |-> at(k)[2]]
    BY DEF InheritedHistory
  <2>3. \A a \in P : /\ a[1] \in Nat /\ a[2] \in Nat /\ a = <<a[1], a[2]>>
                     /\ a[2] \in Times /\ Ms[a[2]] \in Nat
    <3>1. ASSUME NEW a \in P PROVE a[2] \in Times
      <4>1. /\ op[o].segs[a[1]] \in Segments /\ SegmentFits(op[o].segs[a[1]])
            /\ messages \in [Convs -> SUBSET Times]
        BY <1>1, <2>1, ResolvedWalk DEF Inv, TypeOK
      <4>2. a[2] \in messages[op[o].segs[a[1]].conv] /\ op[o].segs[a[1]].conv \in Convs
        BY <1>1, <2>1, <4>1, SegmentBounds DEF Segments
      <4> QED BY <4>1, <4>2
    <3> QED BY <2>1, <3>1, MsAssumption
  <2> HIDE DEF P
  <2>4. ASSUME NEW a \in P, NEW b \in P, ReadBefore(a, b) PROVE Ms[b[2]] <= Ms[a[2]]
    <3>1. CASE a[1] < b[1]
      BY <1>1, <2>1, <3>1 DEF AncestorsInOrder
    <3>2. CASE a[2] > b[2]
      <4>1. b[2] <= a[2]
        BY <2>3, <3>2
      <4> QED BY <2>3, <4>1, MsAssumption
    <3> QED BY <2>4, <3>1, <3>2 DEF ReadBefore
  <2>5. \A a, b \in P : <<b, a>> \in R <=> ReadBefore(a, b)
    OBVIOUS
  <2>6. Orders(R, P)
    <3>1. \A a \in P : ~ReadBefore(a, a)
      BY <2>3 DEF ReadBefore
    <3>2. \A a, b, c \in P : ReadBefore(a, b) /\ ReadBefore(b, c) => ReadBefore(a, c)
      BY <2>3 DEF ReadBefore
    <3>3. \A a, b \in P : a = b \/ ReadBefore(a, b) \/ ReadBefore(b, a)
      <4>1. ASSUME NEW a \in P, NEW b \in P, ~ReadBefore(a, b), ~ReadBefore(b, a) PROVE a = b
        <5>1. a[1] = b[1] /\ a[2] = b[2]
          BY <2>3, <4>1 DEF ReadBefore
        <5> QED BY <2>3, <5>1
      <4> QED BY <4>1
    <3> HIDE DEF R
    <3> QED BY <2>5, <3>1, <3>2, <3>3 DEF Orders
  <2> HIDE DEF R
  <2>7. ASSUME NEW a \in P PROVE Cardinality({b \in P : ReadBefore(a, b)}) = Lower(a, P, R)
    <3>1. {b \in P : ReadBefore(a, b)} = {b \in P : <<b, a>> \in R}
      BY <2>5
    <3> QED BY <3>1 DEF Lower
  <2>8. /\ n \in Nat
        /\ \A a, b \in P : <<a, b>> \in R => Lower(a, P, R) < Lower(b, P, R)
        /\ \A k \in 1..n : \E a \in P : Lower(a, P, R) = k - 1
    BY <2>1, <2>6, Ranking
  <2>9. ASSUME NEW k \in 1..n PROVE at(k) \in P /\ Lower(at(k), P, R) = k - 1
    <3>1. \E a \in P : Cardinality({b \in P : ReadBefore(a, b)}) = k - 1
      BY <2>7, <2>8
    <3> QED BY <2>7, <3>1
  <2> HIDE DEF n, at
  <2>10. \A k \in 1..n : at(k)[2] \in Nat
    BY <2>3, <2>9
  <2>11. h \in Seq(Nat) /\ Len(h) = n
    BY <2>2, <2>8, <2>10
  <2>12. i \in 1..n /\ j \in 1..n
    BY <2>11
  <2>13. /\ at(i) \in P /\ at(j) \in P
         /\ Lower(at(i), P, R) = i - 1 /\ Lower(at(j), P, R) = j - 1
    BY <2>9, <2>12
  <2>14. at(i) # at(j) /\ <<at(j), at(i)>> \notin R
    <3>1. i - 1 # j - 1 /\ ~(j - 1 < i - 1)
      BY <2>8, <2>12
    <3> QED BY <2>8, <2>13, <3>1
  <2>15. ReadBefore(at(j), at(i))
    <3>1. <<at(i), at(j)>> \in R
      BY <2>6, <2>13, <2>14 DEF Orders
    <3> QED BY <2>5, <2>13, <3>1
  <2>16. Ms[at(i)[2]] <= Ms[at(j)[2]]
    BY <2>4, <2>13, <2>15
  <2> QED BY <2>2, <2>12, <2>16
<1> QED BY <1>1, ConversationInvariant, InheritedInOrder, PTL

-----------------------------------------------------------------------------
(* Recursive functions on an interval. *)

\* f starts at x and takes N steps.
Repeats(f, next, x, N) == f[0] = x /\ \A n \in 1..N : f[n] = next[f[n - 1]]

\* A step that stays within D can be repeated from any x in D.
LEMMA Iterate ==
    ASSUME NEW D, NEW next \in [D -> D], NEW x \in D, NEW N \in Nat
    PROVE  \E f \in [0..N -> D] : Repeats(f, next, x, N)
<1> DEFINE Good(k) == \E f \in [0..k -> D] : f[0] = x /\ \A n \in 1..k : f[n] = next[f[n - 1]]
           S == {k \in Nat : ~Good(k)}
<1>1. SUFFICES ASSUME S # {} PROVE FALSE
  BY DEF Repeats
<1>2. PICK k \in S : \A j \in S : k <= j
  BY <1>1, LeastOf
<1>3. Good(0)
  <2> DEFINE f == [i \in 0..0 |-> x]
  <2>1. f \in [0..0 -> D] /\ f[0] = x /\ \A n \in 1..0 : FALSE
    OBVIOUS
  <2> HIDE DEF f
  <2> QED BY <2>1
<1>4. k \in Nat /\ k # 0 /\ ~Good(k) /\ k - 1 \in Nat
  <2>1. k \in Nat /\ ~Good(k)
    BY <1>2
  <2> HIDE DEF Good
  <2>2. k # 0
    BY <1>3, <2>1
  <2> QED BY <2>1, <2>2
<1>5. Good(k - 1)
  <2>1. k - 1 \notin S
    <3> HIDE DEF S
    <3> QED BY <1>2, <1>4
  <2> HIDE DEF Good
  <2> QED BY <1>4, <2>1
<1>6. PICK f \in [0..(k - 1) -> D] : f[0] = x /\ \A n \in 1..(k - 1) : f[n] = next[f[n - 1]]
  BY <1>5
<1> DEFINE g == [i \in 0..k |-> IF i = k THEN next[f[k - 1]] ELSE f[i]]
<1>7. next[f[k - 1]] \in D
  BY <1>4, <1>6
<1>8. g \in [0..k -> D]
  BY <1>4, <1>6, <1>7
<1>9. g[0] = x
  BY <1>4, <1>6
<1>10. ASSUME NEW n \in 1..k PROVE g[n] = next[g[n - 1]]
  <2>1. n \in Int /\ 1 <= n /\ n <= k /\ n \in 0..k /\ n - 1 \in 0..k /\ n - 1 # k
    BY <1>4
  <2>2. g[n - 1] = f[n - 1]
    BY <2>1
  <2>3. CASE n = k
    BY <2>1, <2>2, <2>3
  <2>4. CASE n # k
    <3>1. n \in 1..(k - 1)
      BY <1>4, <2>1, <2>4
    <3> QED BY <1>6, <2>1, <2>2, <2>4, <3>1
  <2> QED BY <2>3, <2>4
<1> HIDE DEF g
<1> QED BY <1>4, <1>8, <1>9, <1>10

\* What holds at 0 and from each number for the next holds up to N.
LEMMA UpTo ==
    ASSUME NEW N \in Nat, NEW S, 0 \in S, \A n \in 1..N : n - 1 \in S => n \in S
    PROVE  \A n \in 0..N : n \in S
<1> DEFINE T == {k \in Nat : k \in 0..N /\ k \notin S}
<1>1. SUFFICES ASSUME T # {} PROVE FALSE
  OBVIOUS
<1>2. PICK k \in T : \A j \in T : k <= j
  BY <1>1, LeastOf
<1>3. k \in 1..N /\ k - 1 \in Nat /\ k - 1 \in 0..N /\ k \notin S
  BY <1>2
<1>4. k - 1 \in S
  BY <1>2, <1>3
<1> QED BY <1>3, <1>4

-----------------------------------------------------------------------------
(* The catalogue as a list, and as a tree. *)

\* Every entry has the parent its conversation was created with, an instant of
\* its own and a key of its own: (updated_at, conversation_id).
EntriesFit ==
    /\ \A e \in catalogue : /\ Exists(e.conv) /\ e.parent = made[e.conv].parent
                            /\ 0 < e.stamp /\ e.stamp <= clock
    /\ \A e, g \in catalogue : e.stamp = g.stamp => e = g
    /\ \A e, g \in catalogue : e.conv = g.conv /\ SameMs(e.stamp, g.stamp) => e = g

\* The types of what an entry holds.
LEMMA EntryTypes ==
    ASSUME TypeOK
    PROVE  /\ clock \in Nat
           /\ \A e \in catalogue : /\ e.stamp \in Nat /\ e.stamp \in Times /\ e.conv \in Convs
                                   /\ Ms[e.stamp] \in Nat /\ IdRank[e.conv] \in Nat
<1>1. clock \in Nat /\ \A t \in Times : t \in Nat /\ Ms[t] \in Nat
  BY BoundsAssumption, MsAssumption DEF TypeOK, Times
<1>2. \A e \in catalogue : e.stamp \in Times /\ e.conv \in Convs
  BY DEF TypeOK, Entries
<1> QED BY <1>1, <1>2, IdAssumption

\* The entries that stay still fit.
LEMMA EntryStays ==
    ASSUME TypeOK, Growing, EntriesFit, NEW e \in catalogue
    PROVE  /\ (Exists(e.conv))' /\ e.parent = made'[e.conv].parent
           /\ 0 < e.stamp /\ e.stamp <= clock
<1>1. Exists(e.conv) /\ e.conv \in Convs
  BY EntryTypes DEF EntriesFit
<1>2. made'[e.conv] = made[e.conv]
  BY <1>1 DEF Growing
<1> QED BY <1>1, <1>2 DEF EntriesFit, Exists

\* An entry stamped now joins those that were there.
LEMMA EntryJoins ==
    ASSUME TypeOK, Growing, EntriesFit, clock' = clock + 1,
           NEW x, x.stamp = clock + 1, x.conv \in Convs,
           (Exists(x.conv))', x.parent = made'[x.conv].parent,
           \A e \in catalogue' : e \in catalogue \/ e = x,
           \A e \in catalogue' : e.conv = x.conv /\ SameMs(e.stamp, x.stamp) => e = x
    PROVE  EntriesFit'
<1>0. clock \in Nat /\ \A e \in catalogue : e.stamp \in Nat /\ e.conv \in Convs
  BY EntryTypes
<1>2. ASSUME NEW e \in catalogue'
      PROVE  /\ (Exists(e.conv))' /\ e.parent = made'[e.conv].parent
             /\ 0 < e.stamp /\ e.stamp <= clock'
  <2>1. CASE e \in catalogue
    BY <1>0, EntryStays, <2>1
  <2>2. CASE e = x
    BY <1>0, <2>2
  <2> QED BY <1>2, <2>1, <2>2
<1>3. ASSUME NEW e \in catalogue', NEW g \in catalogue', e.stamp = g.stamp PROVE e = g
  <2>1. CASE e \in catalogue /\ g \in catalogue
    BY <1>3, <2>1 DEF EntriesFit
  <2>2. CASE e = x /\ g \in catalogue
    BY <1>0, EntryStays, <1>3, <2>2
  <2>3. CASE e \in catalogue /\ g = x
    BY <1>0, EntryStays, <1>3, <2>3
  <2> QED BY <2>1, <2>2, <2>3
<1>4. ASSUME NEW e \in catalogue', NEW g \in catalogue', e.conv = g.conv, SameMs(e.stamp, g.stamp)
      PROVE  e = g
  <2>1. CASE e \in catalogue /\ g \in catalogue
    BY <1>4, <2>1 DEF EntriesFit
  <2>2. CASE e = x \/ g = x
    BY <1>4, <2>2 DEF SameMs
  <2> QED BY <2>1, <2>2
<1> QED BY <1>2, <1>3, <1>4 DEF EntriesFit, SameMs

\* A step that adds no entry keeps them fitting.
LEMMA EntriesStay ==
    ASSUME TypeOK, clock' \in Nat, Growing, EntriesFit, \A e \in catalogue' : e \in catalogue
    PROVE  EntriesFit'
<1>1. clock \in Nat /\ clock <= clock' /\ \A e \in catalogue : e.stamp \in Nat
  BY EntryTypes DEF Growing
<1>2. ASSUME NEW e \in catalogue'
      PROVE  /\ (Exists(e.conv))' /\ e.parent = made'[e.conv].parent
             /\ 0 < e.stamp /\ e.stamp <= clock'
  BY <1>1, EntryStays
<1>3. /\ \A e, g \in catalogue' : e.stamp = g.stamp => e = g
      /\ \A e, g \in catalogue' : e.conv = g.conv /\ SameMs(e.stamp, g.stamp) => e = g
  BY DEF EntriesFit
<1> QED BY <1>2, <1>3 DEF EntriesFit, SameMs

\* Every step keeps the entries fitting: what a batch or an insert adds is
\* stamped now, describes the conversation as it was made, and takes the place
\* of an entry under its key.
LEMMA EntriesKept == Inv /\ EntriesFit /\ [Next]_vars => EntriesFit'
<1> SUFFICES ASSUME Inv, EntriesFit, [Next]_vars PROVE EntriesFit'
  OBVIOUS
<1>0. /\ TypeOK /\ MadeInOrder /\ RowsFit /\ RequestsFit /\ CreatorsAlone /\ clock \in Nat
      /\ \A c \in Convs : made[c].created \in Nat
  <2>1. TypeOK /\ MadeInOrder /\ RowsFit /\ RequestsFit /\ CreatorsAlone
    BY DEF Inv
  <2> QED BY <2>1, BoundsAssumption DEF TypeOK, Times, Row
<1>1. CASE UNCHANGED vars
  BY <1>1 DEF vars, EntriesFit, Exists, SameMs
<1>2. CASE Next
  <2>0. TypeOK /\ EntriesFit
    BY <1>0
  <2>1. Growing
    BY <1>0, <1>2, Grows
  <2>3. (\A e \in catalogue' : e \in catalogue) => EntriesFit'
    <3>1. clock' \in Nat
      <4>1. TypeOK'
        BY <1>0, <1>2, Typed DEF Inv
      <4> QED BY <4>1, BoundsAssumption DEF TypeOK, Times
    <3> QED BY <2>0, <2>1, <3>1, EntriesStay
  <2>4. ASSUME NEW o \in Ops, Batch(o) PROVE EntriesFit'
    <3>1. op[o] \in OpType /\ RequestFits(op[o]) /\ op[o].pc = "batch"
      BY <1>0, <2>4 DEF TypeOK, RequestsFit, Batch
    <3>2. PICK c \in Convs : c = op[o].conv
      BY <3>1 DEF OpType
    <3>3. PICK new : new = Written(op[o], clock + 1)
      OBVIOUS
    <3>4. PICK x : x = Entry(c, new)
      OBVIOUS
    <3>5. Exists(c) /\ op[o].sel.parent = made[c].parent /\ op[o].sel \in Row
      BY <3>1, <3>2 DEF RequestFits, RowFits, OpType
    <3>6. new.stamp = clock + 1 /\ new.parent = made[c].parent
      BY <3>3, <3>5 DEF Written, Row
    <3>7. clock' = clock + 1 /\ UNCHANGED made /\ catalogue' = Replace(c, op[o].sel, new)
      BY <2>4, <3>2, <3>3 DEF Batch, Tick
    <3>8. x.stamp = clock + 1 /\ x.conv = c /\ x.parent = made'[c].parent /\ (Exists(c))'
      BY <3>4, <3>5, <3>6, <3>7 DEF Entry, Exists
    <3>9. \A e \in catalogue' :
             \/ e = x
             \/ e \in catalogue /\ (e.conv = c => ~SameMs(e.stamp, new.stamp))
      BY <3>4, <3>7 DEF Replace
    <3>10. /\ \A e \in catalogue' : e \in catalogue \/ e = x
           /\ \A e \in catalogue' : e.conv = x.conv /\ SameMs(e.stamp, x.stamp) => e = x
      BY <3>6, <3>8, <3>9
    <3> QED BY <2>0, <2>1, <3>7, <3>8, <3>10, EntryJoins
  <2>5. ASSUME NEW o \in Ops, Insert(o) PROVE EntriesFit'
    <3>1. op[o] \in OpType
      BY <1>0, <2>5 DEF TypeOK
    <3>2. PICK c \in Convs : c = op[o].conv
      BY <3>1 DEF OpType
    <3>3. PICK new : new = NewRow(op[o])
      OBVIOUS
    <3>4. PICK x : x = Entry(c, new)
      OBVIOUS
    <3>5. new.stamp = clock + 1 /\ new.created = clock + 1 /\ new # NoRow
      BY <1>0, <3>3 DEF NewRow, NoRow
    <3>6. /\ clock' = clock + 1 /\ made' = [made EXCEPT ![c] = new]
          /\ catalogue' = catalogue \cup {x}
      BY <2>5, <3>2, <3>3, <3>4 DEF Insert, NewRow, Tick
    <3>7. \A d \in Convs : made'[d] = IF d = c THEN new ELSE made[d]
      BY <1>0, <3>6 DEF TypeOK
    <3>8. x.stamp = clock + 1 /\ x.conv = c /\ x.parent = made'[c].parent /\ (Exists(c))'
      BY <3>4, <3>5, <3>7 DEF Entry, Exists
    <3>9. \A e \in catalogue : e.conv # c
      <4>1. ~Exists(c)
        BY <1>0, <2>5, <3>2 DEF Insert, CreatorsAlone, Creating, RequestsFit, RequestFits
      <4> QED BY <2>0, <4>1 DEF EntriesFit
    <3>10. /\ \A e \in catalogue' : e \in catalogue \/ e = x
           /\ \A e \in catalogue' : e.conv = x.conv /\ SameMs(e.stamp, x.stamp) => e = x
      BY <3>6, <3>8, <3>9
    <3> QED BY <2>0, <2>1, <3>6, <3>8, <3>10, EntryJoins
  <2>6. CASE PurgeRow
    <3>1. \A e \in catalogue' : e \in catalogue
      BY <2>6 DEF PurgeRow
    <3> QED BY <2>3, <3>1
  <2>7. CASE UNCHANGED catalogue
    BY <2>3, <2>7
  <2> QED BY <1>0, <1>2, <2>4, <2>5, <2>6, <2>7, TablesMove
<1> QED BY <1>1, <1>2

\* The entries fit at all times.
LEMMA EntriesAlwaysFit == Spec => []EntriesFit
<1>1. Init => EntriesFit
  <2> SUFFICES ASSUME Init PROVE EntriesFit
    OBVIOUS
  <2>1. /\ Root \in Convs /\ Branch \in Convs /\ Root # Branch /\ clock = 4
        /\ catalogue = {Entry(Root, RootRow), Entry(Branch, BranchRow)}
        /\ made[Root] = RootRow /\ made[Branch] = BranchRow
        /\ \A c \in Convs : c = Root \/ c = Branch \/ made[c] = NoRow
    BY RootAssumption DEF Init
  <2>2. /\ Entry(Root, RootRow).conv = Root /\ Entry(Root, RootRow).stamp = 1
        /\ Entry(Root, RootRow).parent = RootRow.parent
        /\ Entry(Branch, BranchRow).conv = Branch /\ Entry(Branch, BranchRow).stamp = 4
        /\ Entry(Branch, BranchRow).parent = BranchRow.parent
    BY DEF Entry, RootRow, BranchRow
  <2>3. Exists(Root) /\ Exists(Branch)
    BY <2>1, RowsTyped DEF Exists
  <2>4. \A e \in catalogue : /\ Exists(e.conv) /\ e.parent = made[e.conv].parent
                             /\ 0 < e.stamp /\ e.stamp <= clock
    BY <2>1, <2>2, <2>3
  <2>5. \A e, g \in catalogue : e.stamp = g.stamp \/ e.conv = g.conv => e = g
    BY <2>1, <2>2
  <2> QED BY <2>4, <2>5 DEF EntriesFit
<1> QED BY <1>1, EntriesKept, ConversationInvariant, PTL DEF Spec

-----------------------------------------------------------------------------
(* The pages of the conversation list. *)

\* What a page of the list, read below a cursor, leaves for the next cursor:
\* all that is not listed, but for the rest of the page's last millisecond.
PageLeaves(cursor) ==
    LET next == NextCursor(Page(cursor)) IN
    /\ next \in 0..cursor
    /\ Page(cursor) \subseteq Below(cursor)
    /\ Below(next) \subseteq Below(cursor) \ Page(cursor)
    /\ \A e \in Below(cursor) : e \in Page(cursor) \/ e \in Below(next) \/ Ms[e.stamp] = next
    /\ \A e \in Page(cursor) : Ms[e.stamp] >= next
    /\ Below(cursor) # {} => Page(cursor) # {}

\* The stamps of the catalogue tell its entries apart, so it is finite.
LEMMA CatalogueFinite ==
    ASSUME TypeOK, EntriesFit
    PROVE  IsFiniteSet(catalogue)
<1> DEFINE f == [e \in catalogue |-> e.stamp]
<1>1. clock \in Nat /\ \A e \in catalogue : e.stamp \in Nat
  BY EntryTypes
<1>2. \A e \in catalogue : e.stamp \in 0..clock
  BY <1>1 DEF EntriesFit
<1>3. f \in Injection(catalogue, 0..clock)
  <2>1. f \in [catalogue -> 0..clock]
    BY <1>2
  <2>2. \A e, g \in catalogue : f[e] = f[g] => e = g
    BY DEF EntriesFit
  <2> HIDE DEF f
  <2> QED BY <2>1, <2>2 DEF Injection, IsInjective
<1>4. IsFiniteSet(0..clock)
  BY <1>1, FS_Interval
<1> QED BY <1>3, <1>4, FS_Injection

\* What is stamped in a millisecond after 0 is in a page below some cursor.
LEMMA StampsCount ==
    ASSUME TypeOK, EntriesFit
    PROVE  \A e \in catalogue : 0 < Ms[e.stamp] /\ Ms[e.stamp] < Ms[MaxClock] + 1
<1>1. ASSUME NEW e \in catalogue PROVE 0 < Ms[e.stamp] /\ Ms[e.stamp] < Ms[MaxClock] + 1
  <2>1. e.stamp \in Times /\ 0 < e.stamp /\ MaxClock \in Times /\ e.stamp <= MaxClock
    BY BoundsAssumption, EntryTypes DEF EntriesFit, Times
  <2>2. Ms[e.stamp] \in Nat /\ Ms[MaxClock] \in Nat /\ 0 < Ms[e.stamp] /\ Ms[e.stamp] <= Ms[MaxClock]
    BY <2>1, MsAssumption
  <2> QED BY <2>2
<1> QED BY <1>1

\* The order of the pages tells all entries apart.
LEMMA AheadOrders ==
    ASSUME TypeOK, EntriesFit, NEW B \in SUBSET catalogue
    PROVE  Orders({p \in B \X B : Ahead(p[1], p[2])}, B)
<1> DEFINE R == {p \in B \X B : Ahead(p[1], p[2])}
<1>1. \A e \in B : Ms[e.stamp] \in Nat /\ IdRank[e.conv] \in Nat /\ e.conv \in Convs
  BY EntryTypes
<1>2. \A e, g \in B : <<e, g>> \in R <=> Ahead(e, g)
  OBVIOUS
<1>3. \A e \in B : ~Ahead(e, e)
  BY <1>1 DEF Ahead
<1>4. ASSUME NEW e \in B, NEW g \in B, NEW h \in B, Ahead(e, g), Ahead(g, h) PROVE Ahead(e, h)
  BY <1>1, <1>4 DEF Ahead, SameMs
<1>5. ASSUME NEW e \in B, NEW g \in B, ~Ahead(e, g), ~Ahead(g, e) PROVE e = g
  <2>1. SameMs(e.stamp, g.stamp)
    BY <1>1, <1>5 DEF Ahead, SameMs
  <2>2. IdRank[e.conv] = IdRank[g.conv]
    BY <1>1, <1>5, <2>1 DEF Ahead, SameMs
  <2>3. e.conv = g.conv
    BY <1>1, <2>2, IdAssumption
  <2> QED BY <2>1, <2>3 DEF EntriesFit
<1> HIDE DEF R
<1>6. Orders(R, B)
  BY <1>2, <1>3, <1>4, <1>5 DEF Orders
<1> QED BY <1>6 DEF R

\* A full page leaves what is below its last millisecond, a short one nothing.
LEMMA PageStep ==
    ASSUME TypeOK, EntriesFit, \A e \in catalogue : e.status # "deleted", NEW cursor \in Nat
    PROVE  PageLeaves(cursor)
<1> DEFINE B == Below(cursor)
           P == Page(cursor)
           R == {p \in B \X B : Ahead(p[1], p[2])}
<1>1. /\ IsFiniteSet(B) /\ B \in SUBSET catalogue
      /\ \A e \in B : Ms[e.stamp] \in Nat /\ Ms[e.stamp] < cursor
      /\ \A e \in catalogue : Ms[e.stamp] < cursor => e \in B
  <2>1. B \in SUBSET catalogue
    BY DEF Below
  <2>2. IsFiniteSet(B)
    BY <2>1, CatalogueFinite, FS_Subset
  <2> QED BY <2>1, <2>2, EntryTypes DEF Below
<1>2. Orders(R, B) /\ \A e, g \in B : <<g, e>> \in R <=> Ahead(g, e)
  <2>1. \A e, g \in B : <<g, e>> \in R <=> Ahead(g, e)
    OBVIOUS
  <2>2. Orders(R, B)
    BY <1>1, AheadOrders
  <2> QED BY <2>1, <2>2
<1> HIDE DEF R
<1>3. \A e \in B : e \in P <=> Lower(e, B, R) < PageLimit
  <2>1. \A e \in B : e \in P <=> Cardinality({g \in B : Ahead(g, e)}) < PageLimit
    <3>1. \A e \in B : e.status # "deleted"
      BY <1>1
    <3> QED BY <3>1 DEF Page
  <2>2. \A e \in B : {g \in B : Ahead(g, e)} = {g \in B : <<g, e>> \in R}
    BY <1>2
  <2> HIDE DEF B, P
  <2> QED BY <2>1, <2>2 DEF Lower
<1>4. P \in SUBSET B
  BY DEF Page
<1> HIDE DEF B, P
<1>5. /\ Cardinality(B) \in Nat
      /\ \A e \in B : Lower(e, B, R) \in 0..(Cardinality(B) - 1)
      /\ \A e, g \in B : <<e, g>> \in R => Lower(e, B, R) < Lower(g, B, R)
      /\ \A e, g \in B : Lower(e, B, R) = Lower(g, B, R) => e = g
      /\ \A k \in 1..Cardinality(B) : \E e \in B : Lower(e, B, R) = k - 1
  BY <1>1, <1>2, Ranking
<1>6. \A e, g \in B : Ms[g.stamp] > Ms[e.stamp] => Lower(g, B, R) < Lower(e, B, R)
  BY <1>2, <1>5 DEF Ahead
<1>7. PageLimit \in Nat /\ PageLimit > 0
  BY LimitAssumption
<1>8. IsFiniteSet(P) /\ Cardinality(P) \in Nat
  BY <1>1, <1>4, FS_Subset, FS_CardinalityType
<1>9. CASE HasMore(P)
  <2> DEFINE St == {Ms[e.stamp] : e \in P}
             m == Min(St)
  <2>1. P # {}
    BY <1>7, <1>9, FS_EmptySet DEF HasMore
  <2>2. St \in SUBSET Nat /\ St # {}
    BY <1>1, <1>4, <2>1
  <2>3. m \in St /\ \A s \in St : m <= s
    <3>1. \E s \in St : \A t \in St : s <= t
      BY <2>2, LeastOf
    <3> HIDE DEF St
    <3> QED BY <3>1 DEF Min
  <2>4. NextCursor(P) = m
    BY <1>9 DEF NextCursor
  <2>5. PICK low \in P : m = Ms[low.stamp]
    BY <2>3
  <2>6. \A e \in P : m <= Ms[e.stamp]
    BY <2>3
  <2> HIDE DEF St, m
  <2>7. m \in Nat /\ m < cursor /\ low \in B
    BY <1>1, <1>4, <2>5
  <2>8. ASSUME NEW e \in B, e \notin P PROVE Ms[e.stamp] <= m
    <3>1. Ms[e.stamp] \in Nat /\ low \in B
      BY <1>1, <1>4, <2>5
    <3>2. ~(Ms[e.stamp] > m)
      <4>1. SUFFICES ASSUME Ms[e.stamp] > Ms[low.stamp] PROVE FALSE
        BY <2>5
      <4>2. Lower(e, B, R) < Lower(low, B, R) /\ Lower(low, B, R) < PageLimit
        BY <1>3, <1>6, <2>5, <3>1, <4>1
      <4>3. Lower(e, B, R) \in Int /\ Lower(low, B, R) \in Int
        BY <1>5, <3>1
      <4>4. Lower(e, B, R) < PageLimit
        BY <1>7, <4>2, <4>3
      <4> QED BY <1>3, <2>8, <4>4
    <3> QED BY <2>7, <3>1, <3>2
  <2>9. /\ Below(m) \subseteq B \ P
        /\ \A e \in B : e \in P \/ e \in Below(m) \/ Ms[e.stamp] = m
    <3>1. ASSUME NEW e \in Below(m) PROVE e \in B \ P
      <4>1. e \in catalogue /\ Ms[e.stamp] < m /\ Ms[e.stamp] \in Nat
        BY EntryTypes DEF Below
      <4>2. e \in B
        BY <1>1, <2>7, <4>1
      <4>3. e \notin P
        BY <2>6, <2>7, <4>1
      <4> QED BY <4>2, <4>3
    <3>2. ASSUME NEW e \in B, e \notin P, Ms[e.stamp] # m PROVE e \in Below(m)
      <4>1. Ms[e.stamp] < m
        BY <1>1, <2>7, <2>8, <3>2
      <4> QED BY <1>1, <4>1 DEF Below
    <3> QED BY <3>1, <3>2
  <2>10. m \in 0..cursor /\ \A e \in P : Ms[e.stamp] >= m
    <3>1. \A e \in P : Ms[e.stamp] \in Nat
      BY <1>1, <1>4
    <3> QED BY <2>6, <2>7, <3>1
  <2> QED BY <1>4, <2>1, <2>4, <2>9, <2>10 DEF PageLeaves, B, P
<1>10. CASE ~HasMore(P)
  <2>1. NextCursor(P) = 0
    BY <1>10 DEF NextCursor
  <2>2. ASSUME NEW e \in B, e \notin P PROVE FALSE
    <3> DEFINE T == 0..(PageLimit - 1)
               f == [x \in P |-> Lower(x, B, R)]
    <3>1. Lower(e, B, R) >= PageLimit /\ Cardinality(B) > PageLimit
      <4>1. Lower(e, B, R) \in 0..(Cardinality(B) - 1) /\ ~(Lower(e, B, R) < PageLimit)
        BY <1>3, <1>5, <2>2
      <4> QED BY <1>5, <1>7, <4>1
    <3>2. \A x \in P : x \in B /\ Lower(x, B, R) \in T
      <4>1. ASSUME NEW x \in P PROVE x \in B /\ Lower(x, B, R) \in T
        <5>1. x \in B /\ Lower(x, B, R) < PageLimit
          BY <1>3, <1>4
        <5>2. Lower(x, B, R) \in 0..(Cardinality(B) - 1)
          BY <1>5, <5>1
        <5> QED BY <1>5, <1>7, <5>1, <5>2
      <4> QED BY <4>1
    <3>3. f \in [P -> T]
      BY <3>2
    <3>4. \A x, y \in P : f[x] = f[y] => x = y
      <4>1. ASSUME NEW x \in P, NEW y \in P, Lower(x, B, R) = Lower(y, B, R) PROVE x = y
        <5>1. x \in B /\ y \in B
          BY <3>2
        <5> QED BY <1>5, <4>1, <5>1
      <4> QED BY <4>1
    <3>5. \A k \in T : \E x \in P : f[x] = k
      <4>1. ASSUME NEW k \in T PROVE \E x \in P : Lower(x, B, R) = k
        <5>1. k + 1 \in 1..Cardinality(B) /\ (k + 1) - 1 = k /\ k < PageLimit
          BY <1>5, <1>7, <3>1
        <5>2. PICK x \in B : Lower(x, B, R) = k
          BY <1>5, <5>1
        <5> QED BY <1>3, <5>1, <5>2
      <4> QED BY <4>1
    <3> HIDE DEF f, T
    <3>6. f \in Injection(P, T) /\ f \in Surjection(P, T)
      BY <3>3, <3>4, <3>5 DEF Injection, IsInjective, Surjection
    <3>7. IsFiniteSet(T) /\ Cardinality(T) = PageLimit
      <4>1. 0 \in Int /\ PageLimit - 1 \in Int /\ ~(0 > PageLimit - 1)
        BY <1>7
      <4>2. Cardinality(0..(PageLimit - 1)) = PageLimit - 1 - 0 + 1
        BY <4>1, FS_Interval
      <4>3. IsFiniteSet(0..(PageLimit - 1))
        BY <4>1, FS_Interval
      <4> QED BY <1>7, <4>2, <4>3 DEF T
    <3>8. Cardinality(P) = PageLimit
      BY <3>6, <3>7, FS_Injection
    <3> QED BY <1>10, <3>8 DEF HasMore
  <2>3. P = B
    BY <1>4, <2>2
  <2>4. Below(0) = {}
    BY EntryTypes DEF Below
  <2>5. \A e \in P : Ms[e.stamp] >= 0
    BY <1>1, <1>4
  <2> QED BY <2>1, <2>3, <2>4, <2>5 DEF PageLeaves, B, P
<1> QED BY <1>9, <1>10

\* The cursors start above every entry, and each follows from the one before.
LEMMA CursorsFollow ==
    ASSUME TypeOK, EntriesFit, \A e \in catalogue : e.status # "deleted"
    PROVE  /\ Cardinality(catalogue) \in Nat
           /\ Cursors \in [0..Cardinality(catalogue) -> Nat]
           /\ Cursors[0] = Ms[MaxClock] + 1
           /\ \A n \in 1..Cardinality(catalogue) :
                 Cursors[n] = NextCursor(Page(Cursors[n - 1]))
<1> DEFINE N == Cardinality(catalogue)
           step == [c \in Nat |-> NextCursor(Page(c))]
           Is(f) == f = [n \in 0..N |-> IF n = 0 THEN Ms[MaxClock] + 1
                                        ELSE NextCursor(Page(f[n - 1]))]
<1>1. N \in Nat
  BY CatalogueFinite, FS_CardinalityType
<1>2. \A c \in Nat : step[c] = NextCursor(Page(c)) /\ step[c] \in Nat
  <2>1. ASSUME NEW c \in Nat PROVE NextCursor(Page(c)) \in Nat
    <3>1. NextCursor(Page(c)) \in 0..c
      BY PageStep DEF PageLeaves
    <3> QED BY <3>1
  <2> QED BY <2>1
<1>3. step \in [Nat -> Nat]
  BY <1>2
<1>4. Ms[MaxClock] + 1 \in Nat
  <2>1. MaxClock \in Times
    BY BoundsAssumption DEF Times
  <2> QED BY <2>1, MsAssumption
<1> DEFINE first == Ms[MaxClock] + 1
<1>41. first \in Nat
  BY <1>4
<1> HIDE DEF N, step, first
<1>42. \E g \in [0..N -> Nat] : Repeats(g, step, first, N)
  BY <1>1, <1>3, <1>41, Iterate
<1> USE DEF first
<1>5. PICK g \in [0..N -> Nat] :
         g[0] = Ms[MaxClock] + 1 /\ \A n \in 1..N : g[n] = step[g[n - 1]]
  BY <1>42 DEF Repeats
<1>6. Is(g)
  <2>1. ASSUME NEW n \in 0..N
        PROVE  g[n] = IF n = 0 THEN Ms[MaxClock] + 1 ELSE NextCursor(Page(g[n - 1]))
    <3>1. CASE n = 0
      BY <1>5, <3>1
    <3>2. CASE n # 0
      <4>1. n \in 1..N /\ n - 1 \in 0..N
        BY <1>1, <3>2
      <4>2. g[n] = step[g[n - 1]] /\ g[n - 1] \in Nat
        BY <1>5, <4>1
      <4> QED BY <1>2, <3>2, <4>2
    <3> QED BY <3>1, <3>2
  <2> QED BY <1>5, <2>1
<1>7. Is(Cursors)
  <2>1. Cursors = CHOOSE f : Is(f)
    BY DEF Cursors, N
  <2> HIDE DEF Is
  <2> QED BY <1>6, <2>1
<1>8. /\ \A n \in 0..N : Cursors[n] = IF n = 0 THEN Ms[MaxClock] + 1
                                       ELSE NextCursor(Page(Cursors[n - 1]))
      /\ DOMAIN Cursors = 0..N /\ Cursors = [n \in 0..N |-> Cursors[n]]
  BY <1>7
<1> HIDE DEF Is
<1>9. Cursors[0] = Ms[MaxClock] + 1
  <2>1. 0 \in 0..N
    BY <1>1
  <2> QED BY <1>8, <2>1
<1>10. \A n \in 1..N : Cursors[n] = NextCursor(Page(Cursors[n - 1]))
  <2>1. \A n \in 1..N : n \in 0..N /\ n # 0
    BY <1>1
  <2> QED BY <1>8, <2>1
<1>11. \A n \in 0..N : Cursors[n] \in Nat
  <2> DEFINE S == {k \in Nat : k \in 0..N /\ Cursors[k] \notin Nat}
  <2>1. SUFFICES ASSUME S # {} PROVE FALSE
    OBVIOUS
  <2>2. PICK k \in S : \A j \in S : k <= j
    BY <2>1, LeastOf
  <2>3. k \in 1..N /\ k - 1 \in 0..N /\ k - 1 \in Nat /\ Cursors[k] \notin Nat
    BY <1>1, <1>4, <1>9, <2>2
  <2>4. Cursors[k - 1] \in Nat
    BY <2>2, <2>3
  <2> QED BY <1>2, <1>10, <2>3, <2>4
<1>12. Cursors \in [0..N -> Nat]
  BY <1>8, <1>11
<1> QED BY <1>1, <1>9, <1>10, <1>12 DEF N

\* After n pages: what was not listed is below the n-th cursor, or in the
\* millisecond of one of the cursors; what was listed is not below; and each
\* page has taken at least one entry.
ListedBefore(n) ==
    /\ \A e \in catalogue : \/ Ms[e.stamp] < Cursors[n]
                            \/ \E k \in 0..(n - 1) : e \in Page(Cursors[k])
                            \/ \E k \in 1..n : Ms[e.stamp] = Cursors[k]
    /\ \A k \in 0..(n - 1) : \A e \in Page(Cursors[k]) : Ms[e.stamp] >= Cursors[n]
    /\ Cardinality(Below(Cursors[n])) <= Cardinality(catalogue) - n

\* One more page.
LEMMA OnePageMore ==
    ASSUME TypeOK, EntriesFit, \A e \in catalogue : e.status # "deleted",
           NEW n \in 1..Cardinality(catalogue), ListedBefore(n - 1)
    PROVE  ListedBefore(n)
<1> DEFINE N == Cardinality(catalogue)
           c == Cursors[n - 1]
           d == Cursors[n]
<1>1. /\ N \in Nat /\ n - 1 \in 0..N /\ n \in 0..N /\ n \in Nat /\ n >= 1
      /\ (n - 1) - 1 = n - 2 /\ c \in Nat /\ d \in Nat /\ d = NextCursor(Page(c))
  <2>1. N \in Nat /\ Cursors \in [0..N -> Nat] /\ \A k \in 1..N : Cursors[k] = NextCursor(Page(Cursors[k - 1]))
    BY CursorsFollow
  <2>2. n \in Nat /\ n >= 1 /\ n <= N /\ n - 1 \in 0..N /\ n \in 0..N
    BY <2>1
  <2> QED BY <2>1, <2>2
<1>2. PageLeaves(c)
  BY <1>1, PageStep
<1>3. /\ d <= c /\ Page(c) \subseteq Below(c) /\ Below(d) \subseteq Below(c) \ Page(c)
      /\ \A e \in Below(c) : e \in Page(c) \/ e \in Below(d) \/ Ms[e.stamp] = d
      /\ \A e \in Page(c) : Ms[e.stamp] >= d
      /\ Below(c) # {} => Page(c) # {}
  BY <1>1, <1>2 DEF PageLeaves
<1>4. /\ \A e \in catalogue : \/ Ms[e.stamp] < c
                              \/ \E k \in 0..(n - 2) : e \in Page(Cursors[k])
                              \/ \E k \in 1..(n - 1) : Ms[e.stamp] = Cursors[k]
      /\ \A k \in 0..(n - 2) : \A e \in Page(Cursors[k]) : Ms[e.stamp] >= c
      /\ Cardinality(Below(c)) <= N - (n - 1)
  BY <1>1 DEF ListedBefore
<1>5. /\ \A k : k \in 0..(n - 1) <=> k \in 0..(n - 2) \/ k = n - 1
      /\ \A k : k \in 1..n <=> k \in 1..(n - 1) \/ k = n
  BY <1>1
<1>6. \A e \in catalogue : Ms[e.stamp] \in Nat
  BY EntryTypes
<1>7. ASSUME NEW e \in catalogue, ~(Ms[e.stamp] < d)
      PROVE  \/ \E k \in 0..(n - 1) : e \in Page(Cursors[k])
             \/ \E k \in 1..n : Ms[e.stamp] = Cursors[k]
  <2>1. CASE Ms[e.stamp] < c
    <3>1. e \in Below(c) /\ e \notin Below(d)
      BY <1>7, <2>1 DEF Below
    <3>2. e \in Page(c) \/ Ms[e.stamp] = d
      BY <1>3, <3>1
    <3> QED BY <1>5, <3>2
  <2>2. CASE ~(Ms[e.stamp] < c)
    BY <1>4, <1>5, <2>2
  <2> QED BY <2>1, <2>2
<1>8. ASSUME NEW k \in 0..(n - 1), NEW e \in Page(Cursors[k]) PROVE Ms[e.stamp] >= d
  <2>0. e \in catalogue
    BY DEF Page, Below
  <2>1. CASE k \in 0..(n - 2)
    <3>1. Ms[e.stamp] >= c
      BY <1>4, <2>1
    <3> QED BY <1>1, <1>3, <1>6, <2>0, <3>1
  <2>2. CASE k = n - 1
    BY <1>3, <2>2
  <2> QED BY <1>5, <2>1, <2>2
<1>9. Cardinality(Below(d)) <= N - n
  <2>1. IsFiniteSet(Below(c)) /\ IsFiniteSet(Below(d))
    <3>1. Below(c) \in SUBSET catalogue /\ Below(d) \in SUBSET catalogue
      BY DEF Below
    <3> QED BY <3>1, CatalogueFinite, FS_Subset
  <2>2. Cardinality(Below(c)) \in Nat /\ Cardinality(Below(d)) \in Nat
    BY <2>1, FS_CardinalityType
  <2>3. CASE Below(c) = {}
    <3>1. Below(d) = {}
      BY <1>3, <2>3
    <3>2. Cardinality(Below(d)) = 0
      BY <3>1, FS_EmptySet
    <3> QED BY <1>1, <3>2
  <2>4. CASE Below(c) # {}
    <3>1. Below(d) \in SUBSET Below(c) /\ Below(d) # Below(c)
      BY <1>3, <2>4
    <3>2. Cardinality(Below(d)) <= Cardinality(Below(c)) /\ Cardinality(Below(d)) # Cardinality(Below(c))
      BY <2>1, <3>1, FS_Subset
    <3> HIDE DEF c, d, N
    <3> QED BY <1>1, <1>4, <2>2, <3>2
  <2> QED BY <2>3, <2>4
<1> QED BY <1>7, <1>8, <1>9 DEF ListedBefore

\* Following the cursors lists every conversation once, newest first
\* (conversations.py:68, 70-89), whatever the catalogue and the page size, but
\* for those in the millisecond of a cursor.
LEMMA PagesListAll == TypeOK /\ EntriesFit => ListReachesAll
<1> SUFFICES ASSUME TypeOK, EntriesFit, \A e \in catalogue : e.status # "deleted"
             PROVE  /\ \A e \in catalogue :
                          \E n \in DOMAIN Cursors : e \in Page(Cursors[n]) \/ Ms[e.stamp] = Cursors[n]
                    /\ \A k, n \in DOMAIN Cursors : k < n =>
                          \A e \in Page(Cursors[k]), g \in Page(Cursors[n]) :
                              Ms[g.stamp] < Ms[e.stamp]
  BY DEF ListReachesAll
<1> DEFINE N == Cardinality(catalogue)
<1>1. N \in Nat /\ Cursors \in [0..N -> Nat] /\ Cursors[0] = Ms[MaxClock] + 1
  BY CursorsFollow
<1>2. \A e \in catalogue : Ms[e.stamp] \in Nat /\ Ms[e.stamp] < Ms[MaxClock] + 1
  BY EntryTypes, StampsCount
<1>3. ListedBefore(0)
  <2>1. Below(Cursors[0]) = catalogue
    BY <1>1, <1>2 DEF Below
  <2>2. \A k \in 0..(0 - 1) : FALSE
    OBVIOUS
  <2> QED BY <1>1, <1>2, <2>1, <2>2 DEF ListedBefore
<1>4. \A n \in 0..N : ListedBefore(n)
  <2> DEFINE S == {k \in Nat : k \in 0..N /\ ~ListedBefore(k)}
  <2>1. SUFFICES ASSUME S # {} PROVE FALSE
    BY <1>1
  <2>2. PICK k \in S : \A j \in S : k <= j
    BY <2>1, LeastOf
  <2>3. k \in 1..N /\ k - 1 \in 0..N /\ k - 1 \in Nat /\ ~ListedBefore(k)
    BY <1>1, <1>3, <2>2
  <2>4. ListedBefore(k - 1)
    BY <2>2, <2>3
  <2> QED BY <2>3, <2>4, OnePageMore
<1>5. ASSUME NEW e \in catalogue
      PROVE  \E n \in DOMAIN Cursors : e \in Page(Cursors[n]) \/ Ms[e.stamp] = Cursors[n]
  <2>1. N \in 0..N /\ N - N = 0
    BY <1>1
  <2>2. IsFiniteSet(Below(Cursors[N]))
    <3>1. Below(Cursors[N]) \in SUBSET catalogue
      BY DEF Below
    <3> QED BY <3>1, CatalogueFinite, FS_Subset
  <2>3. Cardinality(Below(Cursors[N])) <= 0
    BY <1>4, <2>1 DEF ListedBefore
  <2>4. Below(Cursors[N]) = {}
    <3>1. Cardinality(Below(Cursors[N])) \in Nat
      BY <2>2, FS_CardinalityType
    <3>2. Cardinality(Below(Cursors[N])) = 0
      BY <2>3, <3>1
    <3> QED BY <2>2, <3>2, FS_EmptySet
  <2>5. ~(Ms[e.stamp] < Cursors[N])
    BY <2>4 DEF Below
  <2>6. \/ \E k \in 0..(N - 1) : e \in Page(Cursors[k])
        \/ \E k \in 1..N : Ms[e.stamp] = Cursors[k]
    BY <1>4, <2>1, <2>5 DEF ListedBefore
  <2>7. 0..(N - 1) \subseteq DOMAIN Cursors /\ 1..N \subseteq DOMAIN Cursors
    BY <1>1
  <2> QED BY <2>6, <2>7
<1>6. ASSUME NEW k \in DOMAIN Cursors, NEW n \in DOMAIN Cursors, k < n,
             NEW e \in Page(Cursors[k]), NEW g \in Page(Cursors[n])
      PROVE  Ms[g.stamp] < Ms[e.stamp]
  <2>1. k \in 0..(n - 1) /\ n \in 0..N /\ Cursors[n] \in Nat
    BY <1>1, <1>6
  <2>2. Ms[e.stamp] >= Cursors[n]
    BY <1>4, <2>1 DEF ListedBefore
  <2>3. g \in catalogue /\ e \in catalogue /\ Ms[g.stamp] < Cursors[n]
    BY DEF Page, Below
  <2> QED BY <1>2, <2>1, <2>2, <2>3
<1> QED BY <1>5, <1>6

\* At all times the cursors of the list reach every conversation, once and
\* newest first (conversations.py:68, 70-89), but for those in the very
\* millisecond a full page ends with (conversation_repository.py:191), if none
\* is waiting to be purged.
THEOREM EveryConversationListed == Spec => []ListReachesAll
<1>1. Inv /\ EntriesFit => ListReachesAll
  BY PagesListAll DEF Inv
<1> QED BY <1>1, EntriesAlwaysFit, ConversationInvariant, PTL

-----------------------------------------------------------------------------
(* The forest of the listed conversations. *)

CreatedAt(c) == made[c].created

\* A listed conversation is younger than a parent that is listed too.
Forest ==
    /\ IsFiniteSet(Nodes) /\ Cardinality(Nodes) \in Nat
    /\ \A c \in Nodes : CreatedAt(c) \in Nat
    /\ \A c \in Nodes : NodeParent(c) \in Nodes => CreatedAt(NodeParent(c)) < CreatedAt(c)
    /\ \A c \in Nodes : c \in Convs /\ Ms[CreatedAt(c)] \in Nat

\* The catalogue has the parent each conversation was created with.
LEMMA ListedForest ==
    ASSUME TypeOK, MadeInOrder, EntriesFit
    PROVE  Forest
<1>1. EntriesFit
  OBVIOUS
<1>2. \A c \in Nodes : c \in Convs /\ Exists(c)
  BY <1>1, EntryTypes DEF Nodes, Listed, EntriesFit
<1>3. IsFiniteSet(Nodes) /\ Cardinality(Nodes) \in Nat
  <2> DEFINE f == [e \in Listed |-> e.conv]
  <2>1. Listed \in SUBSET catalogue
    BY DEF Listed
  <2>2. IsFiniteSet(Listed)
    BY <1>1, <2>1, CatalogueFinite, FS_Subset
  <2>3. f \in Surjection(Listed, Nodes)
    <3>1. f \in [Listed -> Nodes] /\ \A c \in Nodes : \E e \in Listed : f[e] = c
      BY DEF Nodes
    <3> HIDE DEF f
    <3> QED BY <3>1 DEF Surjection
  <2> HIDE DEF f
  <2> QED BY <2>2, <2>3, FS_Surjection, FS_CardinalityType
<1>4. ASSUME NEW c \in Nodes PROVE NodeParent(c) = made[c].parent
  <2> DEFINE S == {e.stamp : e \in {g \in Listed : g.conv = c}}
             Oldest(e) == e.conv = c /\ \A f \in Listed : f.conv = c => e.stamp <= f.stamp
  <2>1. S \in SUBSET Nat /\ S # {}
    BY EntryTypes DEF Nodes, Listed
  <2>2. PICK s \in S : \A t \in S : s <= t
    BY <2>1, LeastOf
  <2>3. \E e \in Listed : Oldest(e)
    BY <2>2
  <2>4. NodeParent(c) = (CHOOSE e \in Listed : Oldest(e)).parent
    BY DEF NodeParent
  <2>5. PICK e \in Listed : Oldest(e) /\ NodeParent(c) = e.parent
    BY <2>3, <2>4
  <2> QED BY <1>1, <2>5 DEF Listed, EntriesFit
<1>5. \A c \in Convs : made[c].created \in Nat
  BY BoundsAssumption DEF TypeOK, Row, Times
<1>6. ASSUME NEW c \in Nodes, NodeParent(c) \in Nodes
      PROVE  CreatedAt(NodeParent(c)) < CreatedAt(c)
  <2>1. made[c].parent # NoConv
    BY <1>2, <1>4, <1>6, NoConvAssumption
  <2> QED BY <1>2, <1>4, <2>1 DEF MadeInOrder, CreatedAt
<1>7. \A c \in Nodes : c \in Convs /\ Ms[CreatedAt(c)] \in Nat
  BY <1>2, MsAssumption DEF TypeOK, Row, CreatedAt
<1> QED BY <1>2, <1>3, <1>5, <1>6, <1>7 DEF Forest, CreatedAt

Offspring(c) == {d \in Nodes : NodeParent(d) = c /\ c # d}

\* The order of siblings tells all of them apart.
LEMMA ElderOrders ==
    ASSUME Forest, NEW S \in SUBSET Nodes,
           \A d \in S : Ms[CreatedAt(d)] \in Nat
    PROVE  Orders({p \in S \X S : Elder(p[1], p[2])}, S)
<1> DEFINE R == {p \in S \X S : Elder(p[1], p[2])}
<1>1. \A d \in S : Ms[made[d].created] \in Nat /\ IdRank[d] \in Nat /\ d \in Convs
  BY IdAssumption DEF Forest, CreatedAt
<1>2. \A d, e \in S : <<d, e>> \in R <=> Elder(d, e)
  OBVIOUS
<1>3. \A d \in S : ~Elder(d, d)
  BY <1>1 DEF Elder
<1>4. ASSUME NEW d \in S, NEW e \in S, NEW f \in S, Elder(d, e), Elder(e, f) PROVE Elder(d, f)
  BY <1>1, <1>4 DEF Elder, SameMs
<1>5. ASSUME NEW d \in S, NEW e \in S, ~Elder(d, e), ~Elder(e, d) PROVE d = e
  <2>1. IdRank[d] = IdRank[e]
    BY <1>1, <1>5 DEF Elder, SameMs
  <2> QED BY <1>1, <2>1, IdAssumption
<1> HIDE DEF R
<1>6. Orders(R, S)
  BY <1>2, <1>3, <1>4, <1>5 DEF Orders
<1> QED BY <1>6 DEF R

\* Children lists each child once.
LEMMA ChildrenListed ==
    ASSUME Forest, NEW c
    PROVE  /\ Children(c) \in Seq(Nodes) /\ ToSet(Children(c)) = Offspring(c)
           /\ \A i, j \in 1..Len(Children(c)) : Children(c)[i] = Children(c)[j] => i = j
<1> DEFINE S == Offspring(c)
           n == Cardinality(S)
           R == {p \in S \X S : Elder(p[1], p[2])}
           At(k, d) == Cardinality({e \in S : Elder(e, d)}) = k - 1
<1>1. IsFiniteSet(S) /\ S \in SUBSET Nodes
  <2>1. S \in SUBSET Nodes
    BY DEF Offspring
  <2> QED BY <2>1, FS_Subset DEF Forest
<1>2. \A d, e \in S : <<e, d>> \in R <=> Elder(e, d)
  OBVIOUS
<1>3. Orders(R, S)
  <2>1. \A d \in S : Ms[CreatedAt(d)] \in Nat
    BY <1>1 DEF Forest
  <2> HIDE DEF S
  <2> QED BY <1>1, <2>1, ElderOrders
<1> HIDE DEF R, S
<1>5. \A k, d : d \in S => (At(k, d) <=> Lower(d, S, R) = k - 1)
  <2>1. ASSUME NEW d \in S
        PROVE  {e \in S : Elder(e, d)} = {e \in S : <<e, d>> \in R}
    BY <1>2
  <2> QED BY <2>1 DEF Lower
<1>6. /\ n \in Nat
      /\ \A d \in S : Lower(d, S, R) \in 0..(n - 1)
      /\ \A d, e \in S : Lower(d, S, R) = Lower(e, S, R) => d = e
      /\ \A k \in 1..n : \E d \in S : Lower(d, S, R) = k - 1
  BY <1>1, <1>3, Ranking
<1>7. Children(c) = [k \in 1..n |-> CHOOSE d \in S : At(k, d)]
  BY DEF Children, S, Offspring
<1> HIDE DEF At, n
<1>8. \A k \in 1..n : Children(c)[k] \in S /\ Lower(Children(c)[k], S, R) = k - 1
  <2>1. ASSUME NEW k \in 1..n PROVE Children(c)[k] \in S /\ At(k, Children(c)[k])
    <3>1. \E d \in S : At(k, d)
      BY <1>5, <1>6
    <3> QED BY <1>7, <3>1
  <2> QED BY <1>5, <2>1
<1>9. Children(c) \in Seq(Nodes) /\ Len(Children(c)) = n /\ DOMAIN Children(c) = 1..n
  <2>1. \A k \in 1..n : Children(c)[k] \in Nodes
    BY <1>1, <1>8
  <2>2. Children(c) \in [1..n -> Nodes]
    <3> DEFINE h == Children(c)
    <3>1. h = [k \in 1..n |-> h[k]] /\ \A k \in 1..n : h[k] \in Nodes
      BY <1>7, <2>1
    <3> HIDE DEF h
    <3>2. h \in [1..n -> Nodes]
      BY <3>1
    <3> QED BY <3>2 DEF h
  <2> QED BY <1>6, <2>2
<1>10. \A i, j \in 1..n : Children(c)[i] = Children(c)[j] => i = j
  <2>1. ASSUME NEW i \in 1..n, NEW j \in 1..n, Children(c)[i] = Children(c)[j] PROVE i = j
    <3>1. i - 1 = j - 1
      BY <1>8, <2>1
    <3> QED BY <1>6, <3>1
  <2> QED BY <2>1
<1>11. ASSUME NEW d \in S PROVE \E k \in 1..n : Children(c)[k] = d
  <2>1. PICK k \in 1..n : Lower(d, S, R) = k - 1
    <3>1. Lower(d, S, R) \in 0..(n - 1)
      BY <1>6
    <3>2. Lower(d, S, R) + 1 \in 1..n /\ (Lower(d, S, R) + 1) - 1 = Lower(d, S, R)
      BY <1>6, <3>1
    <3> QED BY <3>2
  <2>2. Lower(Children(c)[k], S, R) = Lower(d, S, R) /\ Children(c)[k] \in S
    BY <1>8, <2>1
  <2> QED BY <1>6, <2>2
<1>12. ToSet(Children(c)) = S
  BY <1>8, <1>9, <1>11 DEF ToSet
<1> QED BY <1>9, <1>10, <1>12 DEF S

\* What is appended joins the elements, and is the last of them.
LEMMA AppendAdds ==
    ASSUME NEW D, NEW s \in Seq(D), NEW x \in D
    PROVE  /\ ToSet(Append(s, x)) = ToSet(s) \cup {x} /\ Last(Append(s, x)) = x
           /\ Append(s, x) \in Seq(D) /\ Append(s, x) # << >>
<1> DEFINE t == Append(s, x)
<1>1. t \in Seq(D) /\ Len(t) = Len(s) + 1 /\ Len(s) \in Nat /\ t # << >>
  OBVIOUS
<1>2. \A i \in 1..Len(s) : t[i] = s[i]
  OBVIOUS
<1>3. t[Len(s) + 1] = x
  OBVIOUS
<1>4. DOMAIN t = 1..(Len(s) + 1) /\ DOMAIN s = 1..Len(s)
  BY <1>1
<1> HIDE DEF t
<1>5. \A i : i \in DOMAIN t <=> i \in DOMAIN s \/ i = Len(s) + 1
  BY <1>1, <1>4
<1>6. ToSet(t) = ToSet(s) \cup {x}
  BY <1>2, <1>3, <1>4, <1>5 DEF ToSet
<1> QED BY <1>1, <1>3, <1>6 DEF t, Last

\* A chain upwards from c: its last is the oldest, every other has its parent
\* in it, and a set that is closed under the links and has c has the last.
ChainUp(c, s, n) ==
    /\ s \in Seq(Nodes) /\ s # << >> /\ c \in ToSet(s)
    /\ ToSet(s) \subseteq Nodes /\ Last(s) \in ToSet(s)
    /\ \A d \in ToSet(s) : d = Last(s) \/ NodeParent(d) \in ToSet(s)
    /\ \A d \in ToSet(s) : CreatedAt(Last(s)) <= CreatedAt(d)
    /\ \A S \in SUBSET Nodes : c \in S /\ ClosedUnderLinks(S) => Last(s) \in S
    /\ NodeParent(Last(s)) \notin Nodes \/ Cardinality(ToSet(s)) = n + 1

Longer(s) == IF NodeParent(Last(s)) \in Nodes \ ToSet(s)
             THEN Append(s, NodeParent(Last(s))) ELSE s

\* The chain begins with c alone.
LEMMA ChainBegins ==
    ASSUME Forest, NEW c \in Nodes
    PROVE  ChainUp(c, <<c>>, 0)
<1>1. <<c>> \in Seq(Nodes) /\ <<c>> # << >> /\ Last(<<c>>) = c /\ ToSet(<<c>>) = {c}
  BY DEF Last, ToSet
<1>2. Cardinality({c}) = 1 /\ CreatedAt(c) \in Nat
  BY FS_Singleton DEF Forest
<1> QED BY <1>1, <1>2 DEF ChainUp

\* The chain goes on.
LEMMA ChainGrows ==
    ASSUME Forest, NEW c \in Nodes, NEW s, NEW n \in Nat, n >= 1, ChainUp(c, s, n - 1)
    PROVE  ChainUp(c, Longer(s), n)
<1> DEFINE l == Last(s)
           p == NodeParent(l)
<1>1. /\ s \in Seq(Nodes) /\ s # << >> /\ c \in ToSet(s)
      /\ ToSet(s) \subseteq Nodes /\ l \in ToSet(s) /\ l \in Nodes
      /\ \A d \in ToSet(s) : d = l \/ NodeParent(d) \in ToSet(s)
      /\ \A d \in ToSet(s) : CreatedAt(l) <= CreatedAt(d)
      /\ \A S \in SUBSET Nodes : c \in S /\ ClosedUnderLinks(S) => l \in S
      /\ p \notin Nodes \/ Cardinality(ToSet(s)) = n
  BY DEF ChainUp
<1>2. CASE p \notin Nodes
  <2>1. Longer(s) = s
    BY <1>2 DEF Longer
  <2> QED BY <1>2, <2>1 DEF ChainUp
<1>3. CASE p \in Nodes
  <2>1. CreatedAt(p) < CreatedAt(l) /\ \A d \in Nodes : CreatedAt(d) \in Nat
    BY <1>1, <1>3 DEF Forest
  <2> DEFINE t == Append(s, p)
  <2> HIDE DEF l, p
  <2>2. p \notin ToSet(s)
    BY <1>1, <1>3, <2>1
  <2>3. Longer(s) = t
    BY <1>3, <2>2 DEF Longer, l, p
  <2>4. t \in Seq(Nodes) /\ t # << >> /\ ToSet(t) = ToSet(s) \cup {p} /\ Last(t) = p
    BY <1>1, <1>3, AppendAdds
  <2> HIDE DEF t
  <2>5. \A d \in ToSet(t) : d = p \/ NodeParent(d) \in ToSet(t)
    BY <1>1, <2>4 DEF p
  <2>6. \A d \in ToSet(t) : CreatedAt(p) <= CreatedAt(d)
    <3>1. ASSUME NEW d \in ToSet(s) PROVE CreatedAt(p) <= CreatedAt(d)
      <4>1. CreatedAt(l) <= CreatedAt(d) /\ d \in Nodes
        BY <1>1
      <4> QED BY <1>1, <1>3, <2>1, <4>1
    <3>2. CreatedAt(p) <= CreatedAt(p)
      BY <1>3, <2>1
    <3> QED BY <2>4, <3>1, <3>2
  <2>7. \A S \in SUBSET Nodes : c \in S /\ ClosedUnderLinks(S) => p \in S
    <3>1. ASSUME NEW S \in SUBSET Nodes, c \in S, ClosedUnderLinks(S) PROVE p \in S
      <4>1. l \in S
        BY <1>1, <3>1
      <4> QED BY <1>3, <3>1, <4>1 DEF ClosedUnderLinks, p
    <3> QED BY <3>1
  <2>8. Cardinality(ToSet(t)) = n + 1
    <3>1. IsFiniteSet(ToSet(s))
      <4>1. ToSet(s) \in SUBSET Nodes
        BY <1>1
      <4> QED BY <4>1, FS_Subset DEF Forest
    <3>2. Cardinality(ToSet(s) \cup {p}) = Cardinality(ToSet(s)) + 1
      BY <2>2, <3>1, FS_AddElement
    <3> QED BY <1>1, <1>3, <2>4, <3>2
  <2> QED BY <1>1, <1>3, <2>3, <2>4, <2>5, <2>6, <2>7, <2>8 DEF ChainUp
<1> QED BY <1>2, <1>3

\* The chain of c is a chain upwards that has come to its end.
LEMMA ChainEnds ==
    ASSUME Forest, NEW c \in Nodes
    PROVE  \E s : /\ ChainUp(c, s, Cardinality(Nodes)) /\ RootOf(c) = Last(s)
                  /\ NodeParent(RootOf(c)) \notin Nodes
<1> DEFINE N == Cardinality(Nodes)
           D == Seq(Nodes) \ {<< >>}
           step == [s \in D |-> Longer(s)]
           Is(f) == f = [n \in 0..N |->
                           IF n = 0 THEN <<c>>
                           ELSE LET p == NodeParent(Last(f[n - 1])) IN
                                IF p \in Nodes \ ToSet(f[n - 1]) THEN Append(f[n - 1], p)
                                ELSE f[n - 1]]
<1>1. N \in Nat
  BY DEF Forest
<1>2. step \in [D -> D]
  <2>1. ASSUME NEW s \in D PROVE Longer(s) \in D
    <3>1. CASE NodeParent(Last(s)) \in Nodes \ ToSet(s)
      BY <3>1, AppendAdds DEF Longer
    <3>2. CASE NodeParent(Last(s)) \notin Nodes \ ToSet(s)
      BY <3>2 DEF Longer
    <3> QED BY <3>1, <3>2
  <2> QED BY <2>1
<1>3. <<c>> \in D
  OBVIOUS
<1>4. \A s \in D : step[s] = Longer(s)
  OBVIOUS
<1>5. Chain(c) = CHOOSE f : Is(f)
  BY DEF Chain
<1> HIDE DEF N, D, step
<1>6. PICK f \in [0..N -> D] : Repeats(f, step, <<c>>, N)
  BY <1>1, <1>2, <1>3, Iterate
<1>7. Is(f)
  <2>1. ASSUME NEW n \in 0..N
        PROVE  f[n] = IF n = 0 THEN <<c>>
                      ELSE LET p == NodeParent(Last(f[n - 1])) IN
                           IF p \in Nodes \ ToSet(f[n - 1]) THEN Append(f[n - 1], p)
                           ELSE f[n - 1]
    <3>1. CASE n = 0
      BY <1>6, <3>1 DEF Repeats
    <3>2. CASE n # 0
      <4>1. n \in 1..N /\ n - 1 \in 0..N
        BY <1>1, <3>2
      <4>2. f[n] = Longer(f[n - 1])
        BY <1>4, <1>6, <4>1 DEF Repeats
      <4> QED BY <3>2, <4>2 DEF Longer
    <3> QED BY <3>1, <3>2
  <2> QED BY <1>6, <2>1
<1> DEFINE g == Chain(c)
<1>8. Is(g)
  <2> HIDE DEF Is
  <2> QED BY <1>5, <1>7
<1>9. /\ g[0] = <<c>>
      /\ \A n \in 1..N : g[n] = Longer(g[n - 1])
  <2> HIDE DEF g
  <2>1. \A n \in 0..N : g[n] = IF n = 0 THEN <<c>>
                      ELSE LET p == NodeParent(Last(g[n - 1])) IN
                           IF p \in Nodes \ ToSet(g[n - 1]) THEN Append(g[n - 1], p)
                           ELSE g[n - 1]
    BY <1>8
  <2> HIDE DEF Is
  <2>2. 0 \in 0..N /\ \A n \in 1..N : n \in 0..N /\ n # 0
    BY <1>1
  <2> QED BY <2>1, <2>2 DEF Longer
<1> HIDE DEF g, Is
<1>10. \A n \in 0..N : ChainUp(c, g[n], n)
  <2> DEFINE S == {n \in 0..N : ChainUp(c, g[n], n)}
  <2>1. 0 \in S
    <3>1. ChainUp(c, g[0], 0)
      BY <1>9, ChainBegins
    <3> QED BY <1>1, <3>1
  <2>2. ASSUME NEW n \in 1..N, n - 1 \in S PROVE n \in S
    <3>1. n \in Nat /\ n >= 1 /\ n \in 0..N /\ ChainUp(c, g[n - 1], n - 1)
      BY <1>1, <2>2
    <3> QED BY <1>9, <3>1, ChainGrows
  <2>3. \A n \in 0..N : n \in S
    <3> HIDE DEF S
    <3> QED BY <1>1, <2>1, <2>2, UpTo
  <2> QED BY <2>3
<1>11. ChainUp(c, g[N], N) /\ RootOf(c) = Last(g[N])
  BY <1>1, <1>10 DEF RootOf, g, N
<1>12. NodeParent(Last(g[N])) \notin Nodes
  <2>1. ToSet(g[N]) \in SUBSET Nodes
    BY <1>11 DEF ChainUp
  <2>2. Cardinality(ToSet(g[N])) # N + 1
    <3>1. Cardinality(ToSet(g[N])) <= N /\ IsFiniteSet(ToSet(g[N]))
      BY <2>1, FS_Subset DEF Forest, N
    <3>2. Cardinality(ToSet(g[N])) \in Nat
      BY <3>1, FS_CardinalityType
    <3> QED BY <1>1, <3>1, <3>2
  <2> QED BY <1>11, <2>2 DEF ChainUp
<1> QED BY <1>11, <1>12 DEF N

NoneTwice(s) == \A i, j \in 1..Len(s) : s[i] = s[j] => i = j

\* What is popped from a stack is no longer on it.
LEMMA Popped ==
    ASSUME NEW D, NEW s \in Seq(D), s # << >>, NoneTwice(s)
    PROVE  /\ Front(s) \in Seq(D) /\ NoneTwice(Front(s)) /\ Last(s) \in D
           /\ Last(s) \in ToSet(s) /\ ToSet(Front(s)) = ToSet(s) \ {Last(s)}
<1> DEFINE r == Front(s)
           n == Len(s)
<1>1. /\ n \in Nat /\ n >= 1 /\ DOMAIN s = 1..n /\ \A i \in 1..n : s[i] \in D
  OBVIOUS
<1>2. r \in Seq(D) /\ Len(r) = n - 1 /\ \A i \in 1..(n - 1) : r[i] = s[i]
  BY <1>1 DEF Front
<1>3. DOMAIN r = 1..(n - 1)
  BY <1>2
<1>4. NoneTwice(r)
  BY <1>1, <1>2 DEF NoneTwice
<1>5. Last(s) = s[n]
  BY DEF Last
<1>6. \A i \in 1..n : i = n \/ i \in 1..(n - 1)
  <2> HIDE DEF n
  <2> QED BY <1>1
<1>7. \A i \in 1..(n - 1) : i \in 1..n /\ s[i] # s[n]
  BY <1>1 DEF NoneTwice
<1> HIDE DEF r, n
<1>8. ToSet(r) = ToSet(s) \ {s[n]}
  <2>1. ASSUME NEW x \in ToSet(r) PROVE x \in ToSet(s) \ {s[n]}
    <3>1. PICK i \in 1..(n - 1) : x = s[i]
      BY <1>2, <1>3 DEF ToSet
    <3> QED BY <1>1, <1>7, <3>1 DEF ToSet
  <2>2. ASSUME NEW x \in ToSet(s) \ {s[n]} PROVE x \in ToSet(r)
    <3>1. PICK i \in 1..n : x = s[i] /\ i # n
      BY <1>1 DEF ToSet
    <3> QED BY <1>2, <1>3, <1>6, <3>1 DEF ToSet
  <2> QED BY <2>1, <2>2
<1>9. n \in 1..n
  BY <1>1
<1> QED BY <1>1, <1>2, <1>4, <1>5, <1>8, <1>9 DEF r, ToSet

\* A list pushed in reverse on a stack that has none of it.
LEMMA Pushed ==
    ASSUME NEW D, NEW s \in Seq(D), NEW t \in Seq(D), NoneTwice(s), NoneTwice(t),
           ToSet(s) \cap ToSet(t) = {}
    PROVE  LET u == s \o Reverse(t) IN
           u \in Seq(D) /\ NoneTwice(u) /\ ToSet(u) = ToSet(s) \cup ToSet(t)
<1> DEFINE v == Reverse(t)
           u == s \o v
           n == Len(s)
           m == Len(t)
<1>1. /\ n \in Nat /\ m \in Nat /\ DOMAIN s = 1..n /\ DOMAIN t = 1..m
      /\ \A i \in 1..n : s[i] \in D /\ \A j \in 1..m : t[j] \in D
  OBVIOUS
<1>2. \A i \in 1..m : (m - i) + 1 \in 1..m /\ m - ((m - i) + 1) + 1 = i
  BY <1>1
<1>3. v \in Seq(D) /\ Len(v) = m /\ \A i \in 1..m : v[i] = t[(m - i) + 1]
  <2>1. v = [i \in 1..m |-> t[(m - i) + 1]]
    BY DEF Reverse
  <2>2. v \in [1..m -> D]
    BY <1>1, <1>2, <2>1
  <2> QED BY <1>1, <2>1, <2>2
<1> HIDE DEF v
<1>4. /\ u \in Seq(D) /\ Len(u) = n + m
      /\ \A i \in 1..(n + m) : u[i] = IF i <= n THEN s[i] ELSE v[i - n]
  <2>1. u \in Seq(D)
    BY <1>3
  <2>2. Len(u) = Len(s) + Len(v)
    <3>1. v \in Seq(D)
      BY <1>3
    <3> HIDE DEF n, m
    <3> QED BY <3>1
  <2>3. \A i \in 1..(Len(s) + Len(v)) : u[i] = IF i <= Len(s) THEN s[i] ELSE v[i - Len(s)]
    <3>1. ASSUME NEW i \in 1..(Len(s) + Len(v)), i <= Len(s) PROVE u[i] = s[i]
      BY <1>3, <3>1
    <3>2. ASSUME NEW i \in 1..(Len(s) + Len(v)), ~(i <= Len(s)) PROVE u[i] = v[i - Len(s)]
      BY <1>3, <3>2
    <3> QED BY <3>1, <3>2
  <2> QED BY <1>3, <2>1, <2>2, <2>3
<1> HIDE DEF n, m, u
<1>5. \A i \in 1..(n + m) : \/ i \in 1..n /\ u[i] = s[i]
                            \/ /\ i \notin 1..n /\ (m - (i - n)) + 1 \in 1..m
                               /\ u[i] = t[(m - (i - n)) + 1]
  <2>1. ASSUME NEW i \in 1..(n + m), ~(i <= n)
        PROVE  /\ i \notin 1..n /\ (m - (i - n)) + 1 \in 1..m
               /\ u[i] = t[(m - (i - n)) + 1]
    <3>1. i - n \in 1..m
      BY <1>1, <2>1
    <3> QED BY <1>1, <1>2, <1>3, <1>4, <2>1, <3>1
  <2>2. ASSUME NEW i \in 1..(n + m), i <= n PROVE i \in 1..n /\ u[i] = s[i]
    BY <1>1, <1>4, <2>2
  <2> QED BY <2>1, <2>2
<1>6. \A i \in 1..n, j \in 1..m : s[i] # t[j]
  BY <1>1 DEF ToSet
<1>7. NoneTwice(u)
  <2>1. ASSUME NEW i \in 1..(n + m), NEW j \in 1..(n + m), u[i] = u[j] PROVE i = j
    <3>1. CASE i \in 1..n /\ j \in 1..n
      BY <1>1, <1>5, <2>1, <3>1 DEF NoneTwice, n
    <3>2. CASE i \in 1..n /\ j \notin 1..n
      BY <1>5, <1>6, <2>1, <3>2
    <3>3. CASE i \notin 1..n /\ j \in 1..n
      BY <1>5, <1>6, <2>1, <3>3
    <3>4. CASE i \notin 1..n /\ j \notin 1..n
      <4>1. (m - (i - n)) + 1 = (m - (j - n)) + 1
        BY <1>5, <2>1, <3>4 DEF NoneTwice, m
      <4> QED BY <1>1, <4>1
    <3> QED BY <3>1, <3>2, <3>3, <3>4
  <2> QED BY <1>4, <2>1 DEF NoneTwice
<1>8. ToSet(u) = ToSet(s) \cup ToSet(t)
  <2>0. DOMAIN u = 1..(n + m)
    BY <1>4
  <2>1. ASSUME NEW x \in ToSet(u) PROVE x \in ToSet(s) \cup ToSet(t)
    <3>1. PICK i \in 1..(n + m) : x = u[i]
      BY <2>0 DEF ToSet
    <3> QED BY <1>1, <1>5, <3>1 DEF ToSet
  <2>2. ASSUME NEW x \in ToSet(s) PROVE x \in ToSet(u)
    <3>1. PICK i \in 1..n : x = s[i]
      BY <1>1 DEF ToSet
    <3>2. i \in 1..(n + m)
      BY <1>1
    <3> QED BY <1>5, <2>0, <3>1, <3>2 DEF ToSet
  <2>3. ASSUME NEW x \in ToSet(t) PROVE x \in ToSet(u)
    <3>1. PICK i \in 1..m : x = t[i]
      BY <1>1 DEF ToSet
    <3>2. n + ((m - i) + 1) \in 1..(n + m)
      BY <1>1
    <3>3. u[n + ((m - i) + 1)] = t[i]
      <4>1. n + ((m - i) + 1) \notin 1..n
        BY <1>1
      <4>2. (m - ((n + ((m - i) + 1)) - n)) + 1 = i
        BY <1>1
      <4> QED BY <1>5, <3>2, <4>1, <4>2
    <3> QED BY <2>0, <3>1, <3>2, <3>3 DEF ToSet
  <2> QED BY <2>1, <2>2, <2>3
<1> QED BY <1>4, <1>7, <1>8 DEF u, v

\* After n passes of the walk below root: what is recorded and what waits are
\* told apart, a parent is recorded before its children, and no child of a
\* recorded conversation is forgotten.
WalkHas(root, st, od, n) ==
    /\ st \in Seq(Nodes) /\ od \in Seq(Nodes) /\ NoneTwice(st) /\ NoneTwice(od)
    /\ ToSet(od) \cap ToSet(st) = {}
    /\ \A i \in 2..Len(od) : \E j \in 1..(i - 1) : od[j] = NodeParent(od[i])
    /\ od = << >> => st = <<root>>
    /\ od # << >> => od[1] = root /\ \A d \in ToSet(st) : NodeParent(d) \in ToSet(od)
    /\ \A d \in Nodes : NodeParent(d) \in ToSet(od) => d \in ToSet(od) \cup ToSet(st)
    /\ st = << >> \/ Cardinality(ToSet(od)) = n

WalkAt(root, w, n) == WalkHas(root, w.stack, w.order, n)

\* A sequence of one.
LEMMA Single ==
    ASSUME NEW x
    PROVE  ToSet(<<x>>) = {x} /\ Last(<<x>>) = x /\ NoneTwice(<<x>>)
BY DEF ToSet, Last, NoneTwice

\* The elements of a sequence are in its set.
LEMMA Elements ==
    ASSUME NEW D, NEW s \in Seq(D)
    PROVE  /\ ToSet(s) \subseteq D /\ \A i \in 1..Len(s) : s[i] \in ToSet(s)
           /\ \A x \in ToSet(s) : \E i \in 1..Len(s) : x = s[i]
           /\ s # << >> => Len(s) >= 1 /\ s[1] \in ToSet(s)
BY DEF ToSet

\* The walk begins at the root.
LEMMA WalkBegins ==
    ASSUME Forest, NEW root \in Nodes
    PROVE  WalkAt(root, [stack |-> <<root>>, order |-> << >>], 0)
<1>1. <<root>> \in Seq(Nodes) /\ NoneTwice(<<root>>)
  BY DEF NoneTwice
<1>2. << >> \in Seq(Nodes) /\ NoneTwice(<< >>) /\ ToSet(<< >>) = {} /\ Len(<< >>) = 0
  BY DEF NoneTwice, ToSet
<1>3. Cardinality({}) = 0
  BY FS_EmptySet
<1>4. WalkHas(root, <<root>>, << >>, 0)
  <2> DEFINE st == <<root>>
             od == << >>
  <2>1. /\ st \in Seq(Nodes) /\ NoneTwice(st) /\ st = <<root>> /\ od = << >> /\ Len(od) = 0
        /\ od \in Seq(Nodes) /\ NoneTwice(od) /\ ToSet(od) = {}
        /\ Cardinality(ToSet(od)) = 0
    BY <1>1, <1>2, <1>3
  <2> HIDE DEF st, od
  <2>2. \A i \in 2..Len(od) : FALSE
    BY <2>1
  <2> QED BY <2>1, <2>2 DEF WalkHas
<1> QED BY <1>4 DEF WalkAt

\* One more element, seen nowhere before.
LEMMA AppendKeepsApart ==
    ASSUME NEW D, NEW s \in Seq(D), NEW x \in D, NoneTwice(s), x \notin ToSet(s)
    PROVE  NoneTwice(Append(s, x))
<1> DEFINE t == Append(s, x)
<1>1. Len(s) \in Nat /\ Len(t) = Len(s) + 1 /\ t[Len(s) + 1] = x
      /\ \A i \in 1..Len(s) : t[i] = s[i]
  OBVIOUS
<1>2. \A i \in 1..Len(s) : s[i] # x
  BY Elements
<1> HIDE DEF t
<1>3. ASSUME NEW i \in 1..Len(t), NEW j \in 1..Len(t), t[i] = t[j] PROVE i = j
  <2>1. (i \in 1..Len(s) \/ i = Len(s) + 1) /\ (j \in 1..Len(s) \/ j = Len(s) + 1)
    BY <1>1
  <2> QED BY <1>1, <1>2, <1>3, <2>1 DEF NoneTwice
<1> QED BY <1>3 DEF NoneTwice, t

\* A pass takes one conversation and leaves its children for later.
LEMMA WalkGoesOn ==
    ASSUME Forest, NEW root \in Nodes, NodeParent(root) \notin Nodes,
           NEW w \in [stack : Seq(Nodes), order : Seq(Nodes)], NEW n \in Nat, n >= 1,
           WalkAt(root, w, n - 1)
    PROVE  WalkAt(root, Visit(w), n)
<1> DEFINE st == w.stack
           od == w.order
<1>1. /\ st \in Seq(Nodes) /\ od \in Seq(Nodes) /\ NoneTwice(st) /\ NoneTwice(od)
      /\ ToSet(od) \cap ToSet(st) = {}
      /\ \A i \in 2..Len(od) : \E j \in 1..(i - 1) : od[j] = NodeParent(od[i])
      /\ od = << >> => st = <<root>>
      /\ od # << >> => od[1] = root /\ \A d \in ToSet(st) : NodeParent(d) \in ToSet(od)
      /\ \A d \in Nodes : NodeParent(d) \in ToSet(od) => d \in ToSet(od) \cup ToSet(st)
      /\ st = << >> \/ Cardinality(ToSet(od)) = n - 1
  BY DEF WalkAt, WalkHas
<1>2. CASE st = << >>
  <2>1. Visit(w) = w
    BY <1>2 DEF Visit
  <2> QED BY <1>2, <2>1 DEF WalkAt, WalkHas
<1>3. CASE st # << >>
  <2> DEFINE c == Last(st)
             rest == Front(st)
             new == rest \o Reverse(Children(c))
             ord == Append(od, c)
  <2>1. /\ rest \in Seq(Nodes) /\ NoneTwice(rest) /\ c \in Nodes /\ c \in ToSet(st)
        /\ ToSet(rest) = ToSet(st) \ {c}
    BY <1>1, <1>3, Popped
  <2>2. c \notin ToSet(od)
    BY <1>1, <2>1
  <2>3. Visit(w) = [stack |-> new, order |-> ord]
    BY <1>3, <2>1, <2>2 DEF Visit
  <2>4. /\ Children(c) \in Seq(Nodes) /\ ToSet(Children(c)) = Offspring(c)
        /\ NoneTwice(Children(c))
    BY ChildrenListed DEF NoneTwice
  <2>5. \A d \in Offspring(c) : d \in Nodes /\ NodeParent(d) = c /\ d # c
    BY DEF Offspring
  <2>6. \A d \in ToSet(od) : d \in Nodes /\ (NodeParent(d) \in ToSet(od) \/ NodeParent(d) \notin Nodes)
    <3>1. ASSUME NEW d \in ToSet(od)
          PROVE  d \in Nodes /\ (NodeParent(d) \in ToSet(od) \/ NodeParent(d) \notin Nodes)
      <4>1. PICK i \in 1..Len(od) : d = od[i]
        BY <1>1, Elements
      <4>2. d \in Nodes /\ od # << >> /\ Len(od) \in Nat
        BY <1>1, Elements
      <4>3. CASE i = 1
        BY <1>1, <4>1, <4>2, <4>3
      <4>4. CASE i # 1
        <5>1. i \in 2..Len(od)
          BY <4>1, <4>2, <4>4
        <5>2. PICK j \in 1..(i - 1) : od[j] = NodeParent(od[i])
          BY <1>1, <5>1
        <5>3. j \in 1..Len(od)
          BY <4>2, <5>1
        <5>4. od[j] \in ToSet(od)
          BY <1>1, <5>3, Elements
        <5> QED BY <4>1, <4>2, <5>2, <5>4
      <4> QED BY <4>3, <4>4
    <3> QED BY <3>1
  <2>7. ToSet(od) \cap Offspring(c) = {}
    BY <2>1, <2>2, <2>5, <2>6
  <2>8. ToSet(rest) \cap Offspring(c) = {}
    <3>1. ASSUME NEW d \in ToSet(rest), d \in Offspring(c) PROVE FALSE
      <4>1. CASE od = << >>
        <5>1. ToSet(st) = {root}
          BY <1>1, <4>1, Single
        <5> QED BY <2>1, <3>1, <5>1
      <4>2. CASE od # << >>
        <5>1. NodeParent(d) \in ToSet(od)
          BY <1>1, <2>1, <3>1, <4>2
        <5> QED BY <2>2, <2>5, <3>1, <5>1
      <4> QED BY <4>1, <4>2
    <3> QED BY <3>1
  <2> HIDE DEF st, od, c, rest
  <2>9. new \in Seq(Nodes) /\ NoneTwice(new) /\ ToSet(new) = ToSet(rest) \cup Offspring(c)
    BY <2>1, <2>4, <2>8, Pushed
  <2>10. /\ ord \in Seq(Nodes) /\ ord # << >> /\ ToSet(ord) = ToSet(od) \cup {c}
         /\ NoneTwice(ord)
    <3>1. ord \in Seq(Nodes) /\ ord # << >> /\ ToSet(ord) = ToSet(od) \cup {c}
      <4>1. od \in Seq(Nodes) /\ c \in Nodes
        BY <1>1, <2>1
      <4>2. ToSet(ord) = ToSet(od) \cup {c}
        BY <4>1, AppendAdds
      <4>3. ord \in Seq(Nodes) /\ ord # << >>
        BY <4>1
      <4> QED BY <4>2, <4>3
    <3>2. NoneTwice(ord)
      <4>1. od \in Seq(Nodes) /\ c \in Nodes /\ NoneTwice(od) /\ c \notin ToSet(od)
        BY <1>1, <2>1, <2>2
      <4> QED BY <4>1, AppendKeepsApart
    <3> QED BY <3>1, <3>2
  <2>11. /\ Len(od) \in Nat /\ Len(ord) = Len(od) + 1 /\ ord[Len(od) + 1] = c
         /\ \A i \in 1..Len(od) : ord[i] = od[i]
    BY <1>1
  <2> HIDE DEF new, ord
  <2>12. ToSet(ord) \cap ToSet(new) = {}
    BY <1>1, <2>1, <2>5, <2>7, <2>9, <2>10
  <2>13. ord[1] = root
    <3>1. CASE od = << >>
      <4>1. c = root
        BY <1>1, <3>1, Single DEF c
      <4>2. Len(od) = 0
        BY <3>1
      <4> QED BY <2>11, <4>1, <4>2
    <3>2. CASE od # << >>
      <4>1. 1 \in 1..Len(od)
        BY <1>1, <2>11, <3>2, Elements
      <4> QED BY <1>1, <2>11, <3>2, <4>1
    <3> QED BY <3>1, <3>2
  <2>14. ASSUME NEW i \in 2..Len(ord) PROVE \E j \in 1..(i - 1) : ord[j] = NodeParent(ord[i])
    <3>1. CASE i = Len(od) + 1
      <4>1. od # << >>
        BY <2>11, <2>14, <3>1
      <4>2. NodeParent(c) \in ToSet(od)
        BY <1>1, <2>1, <4>1
      <4>3. PICK j \in 1..Len(od) : NodeParent(c) = od[j]
        BY <1>1, <4>2, Elements
      <4>4. ord[j] = NodeParent(ord[i]) /\ j \in 1..(i - 1)
        BY <2>11, <3>1, <4>3
      <4> QED BY <4>4
    <3>2. CASE i # Len(od) + 1
      <4>1. i \in 2..Len(od)
        BY <2>11, <3>2
      <4>2. PICK j \in 1..(i - 1) : od[j] = NodeParent(od[i])
        BY <1>1, <4>1
      <4>3. j \in 1..Len(od) /\ i \in 1..Len(od)
        BY <2>11, <4>1
      <4> QED BY <2>11, <4>2, <4>3
    <3> QED BY <3>1, <3>2
  <2>15. \A d \in ToSet(new) : NodeParent(d) \in ToSet(ord)
    <3>1. ASSUME NEW d \in ToSet(rest) PROVE NodeParent(d) \in ToSet(od)
      <4>1. CASE od = << >>
        <5>1. ToSet(st) = {root} /\ c = root
          BY <1>1, <4>1, Single DEF c
        <5> QED BY <2>1, <3>1, <5>1
      <4>2. CASE od # << >>
        BY <1>1, <2>1, <3>1, <4>2
      <4> QED BY <4>1, <4>2
    <3> QED BY <2>5, <2>9, <2>10, <3>1
  <2>16. ASSUME NEW d \in Nodes, NodeParent(d) \in ToSet(ord)
         PROVE  d \in ToSet(ord) \cup ToSet(new)
    <3>1. CASE NodeParent(d) \in ToSet(od)
      <4>1. d \in ToSet(od) \cup ToSet(st)
        BY <1>1, <3>1
      <4> QED BY <2>1, <2>9, <2>10, <4>1
    <3>2. CASE NodeParent(d) = c
      <4>1. d = c \/ d \in Offspring(c)
        BY <3>2 DEF Offspring
      <4> QED BY <2>9, <2>10, <4>1
    <3> QED BY <2>10, <2>16, <3>1, <3>2
  <2>17. Cardinality(ToSet(ord)) = n
    <3>1. ToSet(od) \in SUBSET Nodes
      BY <2>6
    <3>2. IsFiniteSet(ToSet(od))
      BY <3>1, FS_Subset DEF Forest
    <3>3. Cardinality(ToSet(od) \cup {c}) = Cardinality(ToSet(od)) + 1
      BY <2>2, <3>2, FS_AddElement
    <3>4. Cardinality(ToSet(od)) = n - 1
      BY <1>1, <1>3
    <3> QED BY <2>10, <3>3, <3>4
  <2>18. WalkHas(root, new, ord, n)
    BY <2>9, <2>10, <2>12, <2>13, <2>14, <2>15, <2>16, <2>17 DEF WalkHas
  <2> QED BY <2>3, <2>18 DEF WalkAt
<1> QED BY <1>2, <1>3

\* A list of the tree below root: each once, its parent earlier, and all the
\* children of what is in it.
TreeList(root, s) ==
    /\ s \in Seq(Nodes) /\ NoneTwice(s) /\ s # << >> /\ s[1] = root
    /\ \A i \in 2..Len(s) : \E j \in 1..(i - 1) : s[j] = NodeParent(s[i])
    /\ \A d \in Nodes : NodeParent(d) \in ToSet(s) => d \in ToSet(s)

\* The pass keeps the types of the walk.
LEMMA VisitTyped ==
    ASSUME Forest, NEW w \in [stack : Seq(Nodes), order : Seq(Nodes)]
    PROVE  Visit(w) \in [stack : Seq(Nodes), order : Seq(Nodes)]
<1>0. w.stack \in Seq(Nodes) /\ w.order \in Seq(Nodes)
  OBVIOUS
<1>1. CASE w.stack = << >>
  BY <1>1 DEF Visit
<1>2. CASE w.stack # << >>
  <2> DEFINE c == Last(w.stack)
             rest == Front(w.stack)
  <2>1. rest \in Seq(Nodes) /\ c \in Nodes
    <3> DEFINE st == w.stack
    <3>1. st \in Seq(Nodes) /\ st # << >>
      BY <1>0, <1>2
    <3> HIDE DEF st
    <3>2. Front(st) \in Seq(Nodes) /\ Last(st) \in Nodes
      BY <3>1 DEF Front, Last
    <3> QED BY <3>2 DEF st
  <2>2. CASE c \in ToSet(w.order) \/ c \notin Nodes
    <3>1. Visit(w) = [w EXCEPT !.stack = rest]
      BY <1>2, <2>2 DEF Visit
    <3> QED BY <2>1, <3>1
  <2>3. CASE ~(c \in ToSet(w.order) \/ c \notin Nodes)
    <3>1. Visit(w) = [stack |-> rest \o Reverse(Children(c)), order |-> Append(w.order, c)]
      BY <1>2, <2>3 DEF Visit
    <3>2. Reverse(Children(c)) \in Seq(Nodes)
      <4> DEFINE t == Children(c)
                 m == Len(t)
      <4>1. t \in Seq(Nodes)
        BY ChildrenListed
      <4> HIDE DEF t
      <4>2. m \in Nat /\ \A i \in 1..m : t[(m - i) + 1] \in Nodes
        BY <4>1
      <4>3. Reverse(t) = [i \in 1..m |-> t[(m - i) + 1]]
        BY DEF Reverse
      <4> HIDE DEF m
      <4>4. Reverse(t) \in [1..m -> Nodes]
        BY <4>2, <4>3
      <4>5. Reverse(t) \in Seq(Nodes)
        BY <4>2, <4>4
      <4> QED BY <4>5 DEF t
    <3> HIDE DEF c, rest
    <3>3. rest \o Reverse(Children(c)) \in Seq(Nodes) /\ Append(w.order, c) \in Seq(Nodes)
      BY <1>0, <2>1, <3>2
    <3> QED BY <3>1, <3>3
  <2> QED BY <2>2, <2>3
<1> QED BY <1>1, <1>2

\* The walk below a root is the list of its tree: there are as many passes as
\* there are conversations, and each pass records another one.
LEMMA WalkEnds ==
    ASSUME Forest, NEW root \in Nodes, NodeParent(root) \notin Nodes
    PROVE  TreeList(root, Subtree(root))
<1> DEFINE N == Cardinality(Nodes)
           D == [stack : Seq(Nodes), order : Seq(Nodes)]
           w0 == [stack |-> <<root>>, order |-> << >>]
           step == [w \in D |-> Visit(w)]
           Is(f) == f = [n \in 0..N |->
                           IF n = 0 THEN [stack |-> <<root>>, order |-> << >>]
                           ELSE Visit(f[n - 1])]
<1>1. N \in Nat
  BY DEF Forest
<1>2. step \in [D -> D]
  BY VisitTyped
<1>3. w0 \in D
  OBVIOUS
<1>4. \A w \in D : step[w] = Visit(w)
  OBVIOUS
<1>5. Walk(root) = CHOOSE f : Is(f)
  BY DEF Walk
<1>6. WalkAt(root, w0, 0)
  BY WalkBegins
<1>61. w0 = [stack |-> <<root>>, order |-> << >>]
  OBVIOUS
<1> HIDE DEF N, step, w0
<1>7. PICK f \in [0..N -> D] : Repeats(f, step, w0, N)
  <2> HIDE DEF D
  <2> QED BY <1>1, <1>2, <1>3, Iterate
<1>8. Is(f)
  <2>1. ASSUME NEW n \in 0..N
        PROVE  f[n] = IF n = 0 THEN [stack |-> <<root>>, order |-> << >>] ELSE Visit(f[n - 1])
    <3>1. CASE n = 0
      BY <1>7, <1>61, <3>1 DEF Repeats
    <3>2. CASE n # 0
      <4>1. n \in 1..N /\ n - 1 \in 0..N
        BY <1>1, <3>2
      <4>2. f[n - 1] \in D /\ f[n] = step[f[n - 1]]
        BY <1>7, <4>1 DEF Repeats
      <4>3. f[n] = Visit(f[n - 1])
        BY <1>4, <4>2
      <4> QED BY <3>2, <4>3
    <3> QED BY <3>1, <3>2
  <2> QED BY <1>7, <2>1
<1> DEFINE g == Walk(root)
<1>9. Is(g)
  <2> HIDE DEF Is
  <2> QED BY <1>5, <1>8
<1>10. g[0] = w0 /\ \A n \in 1..N : g[n] = Visit(g[n - 1])
  <2> HIDE DEF g
  <2>1. \A n \in 0..N :
           g[n] = IF n = 0 THEN [stack |-> <<root>>, order |-> << >>] ELSE Visit(g[n - 1])
    BY <1>9
  <2> HIDE DEF Is
  <2>2. 0 \in 0..N /\ \A n \in 1..N : n \in 0..N /\ n # 0
    BY <1>1
  <2> QED BY <1>61, <2>1, <2>2
<1> HIDE DEF g, Is
<1>11. \A n \in 0..N : g[n] \in D /\ WalkAt(root, g[n], n)
  <2> DEFINE S == {n \in 0..N : g[n] \in D /\ WalkAt(root, g[n], n)}
  <2>1. 0 \in S
    <3>1. g[0] \in D /\ WalkAt(root, g[0], 0)
      BY <1>3, <1>6, <1>10
    <3> QED BY <1>1, <3>1
  <2>2. ASSUME NEW n \in 1..N, n - 1 \in S PROVE n \in S
    <3>1. n \in Nat /\ n >= 1 /\ n \in 0..N
      BY <1>1
    <3>2. g[n - 1] \in D /\ WalkAt(root, g[n - 1], n - 1) /\ g[n] = Visit(g[n - 1])
      BY <1>10, <2>2
    <3>3. Visit(g[n - 1]) \in D
      BY <3>2, VisitTyped
    <3>4. WalkAt(root, Visit(g[n - 1]), n)
      BY <3>1, <3>2, WalkGoesOn
    <3> QED BY <3>1, <3>2, <3>3, <3>4
  <2>3. \A n \in 0..N : n \in S
    <3> HIDE DEF S
    <3> QED BY <1>1, <2>1, <2>2, UpTo
  <2> QED BY <2>3
<1> DEFINE st == g[N].stack
           od == g[N].order
<1>12. WalkHas(root, st, od, N) /\ Subtree(root) = od
  BY <1>1, <1>11 DEF WalkAt, Subtree, g, N
<1> HIDE DEF st, od
<1>13. ToSet(od) \in SUBSET Nodes /\ IsFiniteSet(ToSet(od)) /\ N >= 1
  <2>1. ToSet(od) \in SUBSET Nodes
    BY <1>12, Elements DEF WalkHas
  <2>2. N # 0
    BY FS_EmptySet DEF Forest, N
  <2> QED BY <1>1, <2>1, <2>2, FS_Subset DEF Forest
<1>14. st = << >> \/ ToSet(od) = Nodes
  BY <1>12, <1>13, FS_Subset DEF Forest, WalkHas, N
<1>15. od # << >>
  <2>1. SUFFICES ASSUME od = << >> PROVE FALSE
    OBVIOUS
  <2>2. ToSet(od) = {} /\ st # << >>
    <3>1. ToSet(<< >>) = {} /\ <<root>> # << >>
      BY DEF ToSet
    <3>2. st = <<root>>
      BY <1>12, <2>1 DEF WalkHas
    <3> QED BY <2>1, <3>1, <3>2
  <2> QED BY <1>14, <2>2
<1>16. \A d \in Nodes : NodeParent(d) \in ToSet(od) => d \in ToSet(od)
  <2>1. CASE st = << >>
    <3>1. ToSet(st) = {}
      BY <2>1 DEF ToSet
    <3> QED BY <1>12, <3>1 DEF WalkHas
  <2>2. CASE ToSet(od) = Nodes
    BY <2>2
  <2> QED BY <1>14, <2>1, <2>2
<1> QED BY <1>12, <1>15, <1>16 DEF WalkHas, TreeList

-----------------------------------------------------------------------------
(* How deep a conversation is below its root. *)

Older(d) == {e \in Nodes : CreatedAt(e) < CreatedAt(d)}
AtTop(w, root) == w.at = root \/ NodeParent(w.at) \notin Nodes
Up(w, root) == IF AtTop(w, root) THEN w
               ELSE [at |-> NodeParent(w.at), depth |-> w.depth + 1]

\* Climbing is a repetition of one step.
LEMMA ClimbSteps ==
    ASSUME Forest, NEW c \in Nodes, NEW root
    PROVE  /\ Climbed(c, root) \in [0..Cardinality(Nodes) -> [at : Nodes, depth : Nat]]
           /\ Climbed(c, root)[0] = [at |-> c, depth |-> 0]
           /\ \A n \in 1..Cardinality(Nodes) :
                 Climbed(c, root)[n] = Up(Climbed(c, root)[n - 1], root)
<1> DEFINE N == Cardinality(Nodes)
           D == [at : Nodes, depth : Nat]
           w0 == [at |-> c, depth |-> 0]
           step == [w \in D |-> Up(w, root)]
           Is(f) == f = [n \in 0..N |->
                           IF n = 0 THEN [at |-> c, depth |-> 0]
                           ELSE LET w == f[n - 1] IN
                                IF w.at = root \/ NodeParent(w.at) \notin Nodes THEN w
                                ELSE [at |-> NodeParent(w.at), depth |-> w.depth + 1]]
<1>1. N \in Nat
  BY DEF Forest
<1>2. step \in [D -> D]
  BY DEF Up, AtTop
<1>3. w0 \in D /\ w0 = [at |-> c, depth |-> 0]
  OBVIOUS
<1>4. \A w \in D : step[w] = Up(w, root)
  OBVIOUS
<1>5. Climbed(c, root) = CHOOSE f : Is(f)
  BY DEF Climbed
<1> HIDE DEF N, step, w0
<1>6. PICK f \in [0..N -> D] : Repeats(f, step, w0, N)
  <2> HIDE DEF D
  <2> QED BY <1>1, <1>2, <1>3, Iterate
<1>7. Is(f)
  <2>1. ASSUME NEW n \in 0..N
        PROVE  f[n] = IF n = 0 THEN [at |-> c, depth |-> 0]
                      ELSE LET w == f[n - 1] IN
                           IF w.at = root \/ NodeParent(w.at) \notin Nodes THEN w
                           ELSE [at |-> NodeParent(w.at), depth |-> w.depth + 1]
    <3>1. CASE n = 0
      BY <1>3, <1>6, <3>1 DEF Repeats
    <3>2. CASE n # 0
      <4>1. n \in 1..N /\ n - 1 \in 0..N
        BY <1>1, <3>2
      <4>2. f[n - 1] \in D /\ f[n] = step[f[n - 1]]
        BY <1>6, <4>1 DEF Repeats
      <4>3. f[n] = Up(f[n - 1], root)
        BY <1>4, <4>2
      <4> QED BY <3>2, <4>3 DEF Up, AtTop
    <3> QED BY <3>1, <3>2
  <2> QED BY <1>6, <2>1
<1> DEFINE g == Climbed(c, root)
<1>8. Is(g)
  <2> HIDE DEF Is
  <2> QED BY <1>5, <1>7
<1>9. g = f
  <2>1. \A n \in 0..N : g[n] = IF n = 0 THEN [at |-> c, depth |-> 0]
                      ELSE LET w == g[n - 1] IN
                           IF w.at = root \/ NodeParent(w.at) \notin Nodes THEN w
                           ELSE [at |-> NodeParent(w.at), depth |-> w.depth + 1]
    <3> HIDE DEF g
    <3> QED BY <1>8
  <2>2. g = [n \in 0..N |-> g[n]]
    <3> HIDE DEF g
    <3> QED BY <1>8
  <2> HIDE DEF g, Is
  <2>3. \A n \in 0..N : g[n] = f[n]
    <3> DEFINE S == {n \in 0..N : g[n] = f[n]}
    <3>1. 0 \in S
      <4>1. f[0] = w0
        BY <1>6 DEF Repeats
      <4>2. 0 \in 0..N
        BY <1>1
      <4>3. g[0] = [at |-> c, depth |-> 0]
        BY <2>1, <4>2
      <4> QED BY <1>3, <4>1, <4>2, <4>3
    <3>2. ASSUME NEW n \in 1..N, n - 1 \in S PROVE n \in S
      <4>1. n \in 0..N /\ n # 0 /\ g[n - 1] = f[n - 1]
        BY <1>1, <3>2
      <4>2. g[n] = Up(g[n - 1], root)
        BY <2>1, <4>1 DEF Up, AtTop
      <4>3. f[n] = Up(f[n - 1], root)
        <5>1. n - 1 \in 0..N
          BY <1>1
        <5>2. f[n - 1] \in D /\ f[n] = step[f[n - 1]]
          BY <1>6, <5>1 DEF Repeats
        <5> QED BY <1>4, <5>2
      <4> QED BY <4>1, <4>2, <4>3
    <3>3. \A n \in 0..N : n \in S
      <4> HIDE DEF S
      <4> QED BY <1>1, <3>1, <3>2, UpTo
    <3> QED BY <3>3
  <2> QED BY <1>6, <2>2, <2>3
<1> HIDE DEF g, Is
<1>10. ASSUME NEW n \in 1..N PROVE f[n] = Up(f[n - 1], root)
  <2>1. n - 1 \in 0..N
    BY <1>1
  <2>2. f[n - 1] \in D /\ f[n] = step[f[n - 1]]
    BY <1>6, <2>1 DEF Repeats
  <2> QED BY <1>4, <2>2
<1>11. f[0] = w0
  BY <1>6 DEF Repeats
<1> QED BY <1>3, <1>6, <1>9, <1>10, <1>11 DEF g, N

\* One conversation is older than both: two fewer are older.
LEMMA OlderThanParent ==
    ASSUME Forest, NEW x \in Nodes, NodeParent(x) \in Nodes
    PROVE  /\ Older(NodeParent(x)) \in SUBSET Older(x) /\ IsFiniteSet(Older(x))
           /\ Cardinality(Older(x)) \in Nat /\ Cardinality(Older(NodeParent(x))) \in Nat
           /\ Cardinality(Older(NodeParent(x))) <= Cardinality(Older(x)) - 1
           /\ Cardinality(Older(x)) <= Cardinality(Nodes) - 1
<1> DEFINE p == NodeParent(x)
<1>1. /\ CreatedAt(p) < CreatedAt(x) /\ \A d \in Nodes : CreatedAt(d) \in Nat
      /\ IsFiniteSet(Nodes) /\ Cardinality(Nodes) \in Nat
  BY DEF Forest
<1> HIDE DEF p
<1>2. \A d \in Older(p) : d \in Older(x)
  BY <1>1 DEF Older, p
<1>3. p \in Older(x) /\ p \notin Older(p) /\ x \notin Older(x)
  BY <1>1 DEF Older, p
<1>4. Older(p) \in SUBSET Older(x) /\ Older(p) # Older(x)
  BY <1>2, <1>3
<1>5. Older(x) \in SUBSET Nodes /\ Older(x) # Nodes
  BY <1>3 DEF Older
<1>6. IsFiniteSet(Older(x)) /\ IsFiniteSet(Older(p))
  BY <1>1, <1>4, <1>5, FS_Subset
<1>7. Cardinality(Older(x)) \in Nat /\ Cardinality(Older(p)) \in Nat
  BY <1>6, FS_CardinalityType
<1>8. Cardinality(Older(p)) <= Cardinality(Older(x)) /\ Cardinality(Older(p)) # Cardinality(Older(x))
  BY <1>4, <1>6, FS_Subset
<1>9. Cardinality(Older(x)) <= Cardinality(Nodes) /\ Cardinality(Older(x)) # Cardinality(Nodes)
  BY <1>1, <1>5, FS_Subset
<1>10. /\ Cardinality(Older(p)) <= Cardinality(Older(x)) - 1
       /\ Cardinality(Older(x)) <= Cardinality(Nodes) - 1
  BY <1>1, <1>7, <1>8, <1>9
<1> QED BY <1>4, <1>6, <1>7, <1>10 DEF p

\* A conversation is one level below its parent: the climb from it is the climb
\* from its parent with one step before it, and both come to an end.
LEMMA OneLevelBelow ==
    ASSUME Forest, NEW x \in Nodes, NEW root, x # root, NodeParent(x) \in Nodes
    PROVE  DepthOf(x, root) = DepthOf(NodeParent(x), root) + 1
<1> DEFINE p == NodeParent(x)
           N == Cardinality(Nodes)
           U == Climbed(x, root)
           V == Climbed(p, root)
           D == [at : Nodes, depth : Nat]
<1>1. /\ U \in [0..N -> D] /\ U[0] = [at |-> x, depth |-> 0]
      /\ \A n \in 1..N : U[n] = Up(U[n - 1], root)
  BY ClimbSteps
<1>2. /\ V \in [0..N -> D] /\ V[0] = [at |-> p, depth |-> 0]
      /\ \A n \in 1..N : V[n] = Up(V[n - 1], root)
  BY ClimbSteps
<1>3. /\ Cardinality(Older(p)) \in Nat /\ N \in Nat
      /\ Cardinality(Older(p)) <= N - 2 /\ N >= 2
  <2>1. /\ Cardinality(Older(x)) \in Nat /\ Cardinality(Older(p)) \in Nat
        /\ Cardinality(Older(p)) <= Cardinality(Older(x)) - 1
        /\ Cardinality(Older(x)) <= N - 1
    BY OlderThanParent
  <2>2. N \in Nat
    BY DEF Forest
  <2> HIDE DEF N, p
  <2> QED BY <2>1, <2>2
<1>4. p \in Nodes /\ DepthOf(x, root) = U[N].depth /\ DepthOf(p, root) = V[N].depth
  BY DEF DepthOf
<1>5. ~AtTop(U[0], root) /\ NodeParent(U[0].at) = p
  BY <1>1 DEF AtTop
<1> HIDE DEF U, V, N, p
<1>6. \A n \in 0..(N - 1) : U[n + 1].at = V[n].at /\ U[n + 1].depth = V[n].depth + 1
  <2> DEFINE S == {n \in 0..(N - 1) : U[n + 1].at = V[n].at /\ U[n + 1].depth = V[n].depth + 1}
  <2>1. 0 \in S
    <3>1. 1 \in 1..N /\ 0 \in 0..(N - 1) /\ 1 - 1 = 0 /\ 0 + 1 = 1
      BY <1>3
    <3>2. U[1] = Up(U[0], root)
      BY <1>1, <3>1
    <3>3. U[1].at = p /\ U[1].depth = 0 + 1
      BY <1>1, <1>5, <3>2 DEF Up
    <3> QED BY <1>2, <3>1, <3>3
  <2>2. ASSUME NEW n \in 1..(N - 1), n - 1 \in S PROVE n \in S
    <3>1. /\ n \in 0..(N - 1) /\ n \in 1..N /\ n + 1 \in 1..N /\ (n + 1) - 1 = n
          /\ (n - 1) + 1 = n /\ n - 1 \in 0..N /\ n \in 0..N
      BY <1>3
    <3>2. U[n].at = V[n - 1].at /\ U[n].depth = V[n - 1].depth + 1
      BY <2>2, <3>1
    <3>3. U[n + 1] = Up(U[n], root) /\ V[n] = Up(V[n - 1], root)
      BY <1>1, <1>2, <3>1
    <3>4. V[n - 1] \in D /\ U[n] \in D
      BY <1>1, <1>2, <3>1
    <3>5. U[n + 1].at = V[n].at /\ U[n + 1].depth = V[n].depth + 1
      <4>1. CASE AtTop(V[n - 1], root)
        <5>1. U[n + 1] = U[n] /\ V[n] = V[n - 1]
          BY <3>2, <3>3, <4>1 DEF Up, AtTop
        <5> QED BY <3>2, <5>1
      <4>2. CASE ~AtTop(V[n - 1], root)
        <5>1. /\ U[n + 1] = [at |-> NodeParent(V[n - 1].at), depth |-> U[n].depth + 1]
              /\ V[n] = [at |-> NodeParent(V[n - 1].at), depth |-> V[n - 1].depth + 1]
          BY <3>2, <3>3, <4>2 DEF Up, AtTop
        <5> QED BY <3>2, <5>1
      <4> QED BY <4>1, <4>2
    <3> QED BY <3>1, <3>5
  <2>3. N - 1 \in Nat
    BY <1>3
  <2>4. \A n \in 0..(N - 1) : n \in S
    <3> HIDE DEF S
    <3> QED BY <2>1, <2>2, <2>3, UpTo
  <2> QED BY <2>4
<1>7. \A n \in 0..(N - 1) : AtTop(V[n], root) \/ Cardinality(Older(V[n].at)) <= (N - 2) - n
  <2> DEFINE S == {n \in 0..(N - 1) :
                      AtTop(V[n], root) \/ Cardinality(Older(V[n].at)) <= (N - 2) - n}
  <2>1. 0 \in S
    <3>1. V[0].at = p /\ (N - 2) - 0 = N - 2 /\ 0 \in 0..(N - 1)
      BY <1>2, <1>3
    <3> QED BY <1>3, <3>1
  <2>2. ASSUME NEW n \in 1..(N - 1), n - 1 \in S PROVE n \in S
    <3>1. n \in 0..(N - 1) /\ n \in 1..N /\ n - 1 \in 0..N /\ n \in Nat
      BY <1>3
    <3>2. V[n] = Up(V[n - 1], root) /\ V[n - 1] \in D
      BY <1>2, <3>1
    <3>3. CASE AtTop(V[n - 1], root)
      BY <3>1, <3>2, <3>3 DEF Up
    <3>4. CASE ~AtTop(V[n - 1], root)
      <4> DEFINE a == V[n - 1].at
      <4>1. a \in Nodes /\ NodeParent(a) \in Nodes /\ V[n].at = NodeParent(a)
        BY <3>2, <3>4 DEF Up, AtTop
      <4>2. Cardinality(Older(a)) <= (N - 2) - (n - 1)
        BY <2>2, <3>4
      <4> HIDE DEF a
      <4>3. /\ Cardinality(Older(a)) \in Nat /\ Cardinality(Older(NodeParent(a))) \in Nat
            /\ Cardinality(Older(NodeParent(a))) <= Cardinality(Older(a)) - 1
        BY <4>1, OlderThanParent
      <4>4. Cardinality(Older(V[n].at)) <= (N - 2) - n
        BY <1>3, <3>1, <4>1, <4>2, <4>3
      <4> QED BY <3>1, <4>4
    <3> QED BY <3>3, <3>4
  <2>3. N - 1 \in Nat
    BY <1>3
  <2>4. \A n \in 0..(N - 1) : n \in S
    <3> HIDE DEF S
    <3> QED BY <2>1, <2>2, <2>3, UpTo
  <2> QED BY <2>4
<1>8. N - 1 \in 0..(N - 1) /\ N - 1 \in 0..N /\ N \in 1..N /\ (N - 1) + 1 = N
  BY <1>3
<1>9. AtTop(V[N - 1], root)
  <2> DEFINE a == V[N - 1].at
  <2>1. SUFFICES ASSUME ~AtTop(V[N - 1], root) PROVE FALSE
    OBVIOUS
  <2>2. a \in Nodes /\ NodeParent(a) \in Nodes
    BY <1>2, <1>8, <2>1 DEF AtTop
  <2>3. Cardinality(Older(a)) <= (N - 2) - (N - 1)
    BY <1>7, <1>8, <2>1
  <2> HIDE DEF a
  <2>4. Cardinality(Older(a)) \in Nat
    BY <2>2, OlderThanParent
  <2> QED BY <1>3, <2>3, <2>4
<1>10. V[N] = V[N - 1]
  BY <1>2, <1>8, <1>9 DEF Up
<1>11. U[N].depth = V[N - 1].depth + 1
  BY <1>6, <1>8
<1> QED BY <1>4, <1>10, <1>11 DEF p

\* Everything listed below a root is linked to whatever the root is linked to,
\* and everything so linked is listed below the root.
LEMMA TreeIsLinked ==
    ASSUME Forest, NEW c \in Nodes
    PROVE  ToSet(Subtree(RootOf(c))) = Linked(c)
<1>1. PICK s : /\ ChainUp(c, s, Cardinality(Nodes)) /\ RootOf(c) = Last(s)
               /\ NodeParent(RootOf(c)) \notin Nodes
  BY ChainEnds
<1> DEFINE root == RootOf(c)
           Q == ToSet(s)
           L == Subtree(root)
           T == ToSet(L)
<1>2. /\ c \in Q /\ Q \subseteq Nodes /\ root \in Q
      /\ \A d \in Q : d = root \/ NodeParent(d) \in Q
      /\ \A S \in SUBSET Nodes : c \in S /\ ClosedUnderLinks(S) => root \in S
  BY <1>1 DEF ChainUp
<1>3. root \in Nodes /\ NodeParent(root) \notin Nodes
  BY <1>1, <1>2
<1> HIDE DEF root, Q
<1>4. /\ L \in Seq(Nodes) /\ L # << >> /\ L[1] = root
      /\ \A i \in 2..Len(L) : \E j \in 1..(i - 1) : L[j] = NodeParent(L[i])
      /\ \A d \in Nodes : NodeParent(d) \in T => d \in T
  BY <1>3, WalkEnds DEF TreeList
<1> HIDE DEF L
<1>5. T \subseteq Nodes /\ root \in T /\ Len(L) \in Nat
  BY <1>4, Elements
<1>6. \A d \in T : d = root \/ NodeParent(d) \in T
  <2>1. ASSUME NEW d \in T, d # root PROVE NodeParent(d) \in T
    <3>1. PICK i \in 1..Len(L) : d = L[i]
      BY <1>4, Elements
    <3>2. i \in 2..Len(L)
      BY <1>4, <1>5, <2>1, <3>1
    <3>3. PICK j \in 1..(i - 1) : L[j] = NodeParent(L[i])
      BY <1>4, <3>2
    <3>4. j \in 1..Len(L)
      BY <1>5, <3>2
    <3>5. L[j] \in T
      BY <1>4, <3>4, Elements
    <3> QED BY <3>1, <3>3, <3>5
  <2> QED BY <2>1
<1> HIDE DEF T
<1>7. c \in T
  <2> DEFINE Missing == {CreatedAt(d) : d \in Q \ T}
  <2>1. SUFFICES ASSUME c \notin T PROVE FALSE
    OBVIOUS
  <2>2. Missing \in SUBSET Nat /\ Missing # {}
    BY <1>2, <2>1 DEF Forest
  <2>3. PICK t \in Missing : \A v \in Missing : t <= v
    BY <2>2, LeastOf
  <2>4. PICK d \in Q \ T : \A e \in Q \ T : CreatedAt(d) <= CreatedAt(e)
    BY <2>3
  <2>5. d # root /\ d \in Nodes /\ NodeParent(d) \in Q
    BY <1>2, <1>5, <2>4
  <2>6. NodeParent(d) \in Nodes /\ NodeParent(d) \notin T
    BY <1>2, <1>4, <2>4, <2>5
  <2>7. CreatedAt(NodeParent(d)) < CreatedAt(d)
    BY <2>5, <2>6 DEF Forest
  <2>8. CreatedAt(d) <= CreatedAt(NodeParent(d))
    BY <2>4, <2>5, <2>6
  <2>9. CreatedAt(d) \in Nat /\ CreatedAt(NodeParent(d)) \in Nat
    BY <2>5, <2>6 DEF Forest
  <2> QED BY <2>7, <2>8, <2>9
<1>8. ClosedUnderLinks(T)
  <2>1. ASSUME NEW d \in T, NEW e \in Nodes, NodeParent(d) = e PROVE e \in T
    BY <1>3, <1>6, <2>1
  <2>2. ASSUME NEW d \in T, NEW e \in Nodes, NodeParent(e) = d PROVE e \in T
    BY <1>4, <2>2
  <2> QED BY <2>1, <2>2 DEF ClosedUnderLinks
<1>9. ASSUME NEW d \in Linked(c) PROVE d \in T
  BY <1>5, <1>7, <1>8 DEF Linked
<1>10. ASSUME NEW d \in T PROVE d \in Linked(c)
  <2>1. ASSUME NEW S \in SUBSET Nodes, c \in S, ClosedUnderLinks(S) PROVE d \in S
    <3> DEFINE Missing == {CreatedAt(e) : e \in T \ S}
    <3>1. SUFFICES ASSUME d \notin S PROVE FALSE
      OBVIOUS
    <3>2. Missing \in SUBSET Nat /\ Missing # {}
      BY <1>5, <3>1 DEF Forest
    <3>3. PICK t \in Missing : \A v \in Missing : t <= v
      BY <3>2, LeastOf
    <3>4. PICK e \in T \ S : \A g \in T \ S : CreatedAt(e) <= CreatedAt(g)
      BY <3>3
    <3>5. root \in S
      BY <1>2, <2>1
    <3>6. NodeParent(e) \in T /\ NodeParent(e) \in Nodes /\ e \in Nodes
      BY <1>5, <1>6, <3>4, <3>5
    <3>7. CreatedAt(NodeParent(e)) < CreatedAt(e)
      BY <3>6 DEF Forest
    <3>8. NodeParent(e) \in S
      <4>1. SUFFICES ASSUME NodeParent(e) \notin S PROVE FALSE
        OBVIOUS
      <4>2. CreatedAt(e) <= CreatedAt(NodeParent(e))
        BY <3>4, <3>6, <4>1
      <4>3. CreatedAt(e) \in Nat /\ CreatedAt(NodeParent(e)) \in Nat
        BY <3>6 DEF Forest
      <4> QED BY <3>7, <4>2, <4>3
    <3>9. e \in S
      BY <2>1, <3>6, <3>8 DEF ClosedUnderLinks
    <3> QED BY <3>4, <3>9
  <2>2. d \in Nodes
    BY <1>5
  <2> QED BY <2>1, <2>2 DEF Linked
<1>11. T = Linked(c)
  BY <1>9, <1>10
<1> QED BY <1>11 DEF T, L, root

\* The scope of a listing is the whole tree, each conversation once, parents
\* first and one level above their children, whatever the tree.
LEMMA ForestScope == Forest => ScopeIsTree
<1> SUFFICES ASSUME Forest, NEW c \in Nodes
             PROVE  LET s == ScopeIds(c, "hierarchy") IN
                    /\ IsInjective(s)
                    /\ ToSet(s) = Linked(c)
                    /\ \A i \in 2..Len(s) :
                          /\ \E j \in 1..(i - 1) : s[j] = NodeParent(s[i])
                          /\ DepthOf(s[i], s[1]) = DepthOf(NodeParent(s[i]), s[1]) + 1
  BY DEF ScopeIsTree
<1> DEFINE root == RootOf(c)
           s == Subtree(root)
<1>1. ScopeIds(c, "hierarchy") = s
  BY DEF ScopeIds
<1>2. ToSet(s) = Linked(c)
  BY TreeIsLinked
<1>3. root \in Nodes /\ NodeParent(root) \notin Nodes
  <2>1. PICK t : /\ ChainUp(c, t, Cardinality(Nodes)) /\ RootOf(c) = Last(t)
                 /\ NodeParent(RootOf(c)) \notin Nodes
    BY ChainEnds
  <2> QED BY <2>1 DEF ChainUp
<1> HIDE DEF root
<1>4. /\ s \in Seq(Nodes) /\ NoneTwice(s) /\ s # << >> /\ s[1] = root
      /\ \A i \in 2..Len(s) : \E j \in 1..(i - 1) : s[j] = NodeParent(s[i])
  BY <1>3, WalkEnds DEF TreeList
<1> HIDE DEF s
<1>5. DOMAIN s = 1..Len(s) /\ Len(s) \in Nat
  BY <1>4
<1>6. IsInjective(s)
  BY <1>4, <1>5 DEF IsInjective, NoneTwice
<1>7. ASSUME NEW i \in 2..Len(s)
      PROVE  /\ \E j \in 1..(i - 1) : s[j] = NodeParent(s[i])
             /\ DepthOf(s[i], s[1]) = DepthOf(NodeParent(s[i]), s[1]) + 1
  <2>1. PICK j \in 1..(i - 1) : s[j] = NodeParent(s[i])
    BY <1>4
  <2>2. i \in 1..Len(s) /\ j \in 1..Len(s) /\ 1 \in 1..Len(s) /\ i # 1
    BY <1>5
  <2>3. s[i] \in Nodes /\ NodeParent(s[i]) \in Nodes
    BY <1>4, <2>1, <2>2, Elements
  <2>4. s[i] # s[1]
    BY <1>4, <2>2 DEF NoneTwice
  <2>5. DepthOf(s[i], s[1]) = DepthOf(NodeParent(s[i]), s[1]) + 1
    BY <2>3, <2>4, OneLevelBelow
  <2> QED BY <2>1, <2>5
<1> QED BY <1>1, <1>2, <1>6, <1>7

\* The scope of every listing is a tree at all times.
THEOREM ScopesAreTrees == Spec => []ScopeIsTree
<1>1. Inv /\ EntriesFit => ScopeIsTree
  BY ListedForest, ForestScope DEF Inv
<1> QED BY <1>1, EntriesAlwaysFit, ConversationInvariant, PTL
=============================================================================
