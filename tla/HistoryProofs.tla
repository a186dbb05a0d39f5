---------------------------- MODULE HistoryProofs ---------------------------
(***************************************************************************)
(* Theorems about History, for every number of readers, writers, messages, *)
(* summaries and faults: types, the truth of the cached list, and that no  *)
(* summary the group has passed is lost.                                   *)
(***************************************************************************)
EXTENDS History, FiniteSetTheorems, TLAPS

-----------------------------------------------------------------------------
(* A page is a list of rows that are there. *)

\* The places of the table are finitely many numbers.
LEMMA IdsFinite == Ids \subseteq Nat /\ \A S \in SUBSET Ids : IsFiniteSet(S)
<1>1. /\ MaxSummaries + MaxFaults \in Nat
      /\ MaxSummaries + MaxFaults + 1 \in Nat
      /\ MaxSummaries + MaxFaults + MaxMessages \in Nat
  BY BoundsAssumption
<1>2. Ids \subseteq Nat
  BY <1>1 DEF Ids, SummaryIds, MessageIds
<1>3. IsFiniteSet(Ids)
  <2>1. IsFiniteSet(SummaryIds)
    BY <1>1, FS_Interval DEF SummaryIds
  <2>2. IsFiniteSet(MessageIds)
    BY <1>1, FS_Interval DEF MessageIds
  <2> QED BY <2>1, <2>2, FS_Union DEF Ids
<1> QED BY <1>2, <1>3, FS_Subset

\* Newest first: every position of a list has its place, because no two
\* places have equally many newer ones.
LEMMA Positions ==
    ASSUME NEW S \in SUBSET Ids, NEW k \in 1..Cardinality(S)
    PROVE  \E i \in S : Newer(i, S) = k - 1
<1> DEFINE n == Cardinality(S)
           T == 0..(n - 1)
           g == [i \in S |-> Newer(i, S)]
<1>0. IsFiniteSet(S) /\ n \in Nat /\ n >= 1 /\ S \subseteq Nat
  BY IdsFinite, FS_CardinalityType
<1>1. ASSUME NEW i \in S PROVE Newer(i, S) \in T
  <2> DEFINE U == {j \in S : j > i}
  <2>1. U \in SUBSET S /\ U # S
    BY <1>0
  <2>2. Cardinality(U) \in Nat /\ Cardinality(U) <= n /\ Cardinality(U) # n
    BY <1>0, <2>1, FS_Subset, FS_CardinalityType
  <2> HIDE DEF U, n
  <2> QED BY <1>0, <2>2 DEF Newer, U
<1>2. ASSUME NEW i \in S, NEW j \in S, i < j PROVE Newer(i, S) # Newer(j, S)
  <2> DEFINE U == {x \in S : x > i}
             V == {x \in S : x > j}
  <2>0. i \in Nat /\ j \in Nat /\ \A x \in S : x \in Nat
    BY <1>0
  <2>1. U \in SUBSET S /\ V \in SUBSET U /\ V # U
    <3>1. j \in U /\ j \notin V
      BY <1>2, <2>0
    <3>2. \A x \in V : x \in U
      BY <1>2, <2>0
    <3> QED BY <3>1, <3>2
  <2>2. IsFiniteSet(U)
    BY <1>0, <2>1, FS_Subset
  <2>3. Cardinality(U) # Cardinality(V)
    BY <2>1, <2>2, FS_Subset
  <2> QED BY <2>3 DEF Newer
<1>3. g \in Injection(S, T)
  <2>1. g \in [S -> T]
    BY <1>1
  <2>2. ASSUME NEW i \in S, NEW j \in S, g[i] = g[j] PROVE i = j
    BY <1>0, <1>2, <2>2
  <2> HIDE DEF g
  <2> QED BY <2>1, <2>2 DEF Injection, IsInjective
<1>4. IsFiniteSet(T) /\ Cardinality(T) = n
  <2>1. 0 \in Int /\ n - 1 \in Int /\ ~(0 > n - 1)
    BY <1>0
  <2>2. Cardinality(T) = n - 1 - 0 + 1
    BY <2>1, FS_Interval
  <2> QED BY <1>0, <2>1, <2>2, FS_Interval
<1>5. g \in Surjection(S, T)
  BY <1>3, <1>4, FS_Injection
<1>6. k - 1 \in T
  BY <1>0
<1>7. PICK i \in S : g[i] = k - 1
  <2> HIDE DEF g
  <2> QED BY <1>5, <1>6 DEF Surjection
<1> QED BY <1>7

States == {"absent", "pending", "sent", "deleted"}
ReaderState == [pc : {"idle", "fetch", "del", "push", "expire"},
                limit : Limits \cup {1}, page : Seq(Item)]

\* SELECT ... LIMIT returns a list of rows that are neither absent nor deleted.
LEMMA PageTyped ==
    ASSUME NEW f \in [Ids -> States], NEW limit
    PROVE  PageOf(f, limit) \in Seq(Item)
<1> DEFINE existing == {i \in Ids : f[i] # "absent"}
           shown == {i \in existing : Newer(i, existing) < limit /\ f[i] # "deleted"}
           Nth(k) == CHOOSE i \in shown : Newer(i, shown) = k - 1
           item(k) == [id |-> Nth(k), state |-> f[Nth(k)]]
<1>1. shown \in SUBSET Ids
  OBVIOUS
<1>2. Cardinality(shown) \in Nat
  BY <1>1, IdsFinite, FS_CardinalityType
<1>3. ASSUME NEW k \in 1..Cardinality(shown) PROVE item(k) \in Item
  <2>1. Nth(k) \in shown
    <3> HIDE DEF shown
    <3> QED BY <1>1, Positions
  <2> QED BY <2>1 DEF Item, States
<1>4. PageOf(f, limit) = [k \in 1..Cardinality(shown) |-> item(k)]
  BY DEF PageOf
<1> HIDE DEF shown, item
<1> QED BY <1>2, <1>3, <1>4
-----------------------------------------------------------------------------
(* The inductive invariant. *)

\* The summary worker goes through the events in order: what lies behind its
\* offset was attached or raised, and an inbox entry stands for a summary.
WorkerInOrder ==
    /\ committed <= offset
    /\ spc # "idle" => committed < offset
    /\ \A n \in 1..offset : n < offset \/ spc # "attach" => attached[n] > 0 \/ n \in raised
    /\ spc \in {"evict", "save"} => attached[offset] > 0
    /\ \A n \in inbox : attached[n] > 0

\* A reader fetches a page of a size that callers ask for.
AsksForPage ==
    \A r \in Readers : reader[r].pc = "fetch" => reader[r].limit \in Limits

\* Without a race at most one reader fills, with a page that is still true,
\* into a list that it has emptied.
FillIsTrue ==
    ~raced =>
        /\ \A r \in Readers : Filling(r) => \E n \in Limits : reader[r].page = PageOf(rows, n)
        /\ \A r \in Readers : reader[r].pc = "push" => cache = << >>
        /\ \A r, q \in Readers : Filling(r) /\ Filling(q) => r = q

\* The placeholder of a send that is under way is pending, or was deleted.
SendsOpen ==
    \A w \in Writers :
        /\ placed[w] \in Ids => rows[placed[w]] \in {"pending", "deleted"}
        /\ wpc[w] # "open" => placed[w] = 0

Inv == /\ TypeOK /\ WorkerInOrder /\ AsksForPage /\ SendsOpen
       /\ FillIsTrue /\ CacheIsTrue /\ ListExpires

\* The invariant holds at the start.
LEMMA InitInv == Init => Inv
<1> SUFFICES ASSUME Init PROVE Inv
  OBVIOUS
<1> USE DEF Init
<1>1. AtRest \in [pc : {"idle", "fetch", "del", "push", "expire"},
                  limit : Limits \cup {1}, page : Seq(Item)]
  BY DEF AtRest
<1>2. TypeOK
  <2>1. rows \in [Ids -> States] /\ cache \in Seq(Item)
    BY DEF States
  <2>2. reader \in [Readers -> ReaderState]
    BY <1>1 DEF ReaderState
  <2>3. ttl \in BOOLEAN /\ raced \in BOOLEAN /\ untimed \in BOOLEAN
    OBVIOUS
  <2>4. /\ reads \in 0..MaxReads /\ faults \in 0..MaxFaults
        /\ offset \in 0..MaxSummaries /\ committed \in 0..MaxSummaries
    BY BoundsAssumption
  <2>5. /\ wpc \in [Writers -> {"idle", "open", "evict"}]
        /\ placed \in [Writers -> Ids \cup {0}] /\ abandoned \subseteq Ids
        /\ spc \in {"idle", "attach", "evict", "save", "commit"}
        /\ inbox \subseteq 1..MaxSummaries /\ raised \subseteq 1..MaxSummaries
        /\ attached \in [1..MaxSummaries -> Nat]
    OBVIOUS
  <2> HIDE DEF Init
  <2> QED BY <2>1, <2>2, <2>3, <2>4, <2>5 DEF TypeOK, States, ReaderState
<1>3. WorkerInOrder
  BY DEF WorkerInOrder
<1>4. AsksForPage /\ FillIsTrue /\ CacheIsTrue /\ ListExpires
  BY DEF AsksForPage, FillIsTrue, CacheIsTrue, ListExpires, Filling, AtRest
<1>5. SendsOpen
  <2>1. 0 \notin Ids
    BY BoundsAssumption DEF Ids, SummaryIds, MessageIds
  <2> QED BY <2>1 DEF SendsOpen
<1> QED BY <1>2, <1>3, <1>4, <1>5 DEF Inv

-----------------------------------------------------------------------------
(* Types. *)

\* The steps of a writer.
WriterStep(w) ==
    Open(w) \/ Stage(w) \/ Compensate(w) \/ Change(w) \/ Evict(w) \/ EvictFails(w)

\* The values a removal of the list leaves are typed.
LEMMA EmptyFalse == FALSE \in BOOLEAN /\ {} \subseteq Ids
OBVIOUS

\* A step of a reader.
LEMMA ReaderTyped ==
    ASSUME TypeOK, NEW r \in Readers, Read(r) \/ FillStep(r) \/ FillStops(r)
    PROVE  TypeOK'
<1> USE DEF TypeOK, summaryVars, writerVars, raceVars
<1>e. << >> \in Seq(Item)
  OBVIOUS
<1>0. reader \in [Readers -> ReaderState] /\ AtRest \in ReaderState
  BY DEF ReaderState, AtRest
<1>r. reader' \in [Readers -> ReaderState] => reader' \in [Readers ->
         [pc : {"idle", "fetch", "del", "push", "expire"}, limit : Limits \cup {1}, page : Seq(Item)]]
  BY DEF ReaderState
<1>s. ASSUME NEW x \in ReaderState, reader' = [reader EXCEPT ![r] = x] PROVE reader' \in [Readers -> ReaderState]
  BY <1>0, <1>s
<1>f. Fault => faults' \in 0..MaxFaults
  BY BoundsAssumption DEF Fault
<1>1. CASE Read(r)
  <2>1. PICK n \in Limits : reader' = [reader EXCEPT ![r] = [pc |-> "fetch", limit |-> n, page |-> << >>]]
    BY <1>1 DEF Read
  <2>2. [pc |-> "fetch", limit |-> n, page |-> << >>] \in ReaderState
    BY DEF ReaderState
  <2>3. reads' \in 0..MaxReads
    BY <1>1, BoundsAssumption DEF Read
  <2>4. faults' \in 0..MaxFaults
    BY <1>1, <1>f DEF Read
  <2> QED BY <1>1, <1>r, <1>s, <2>1, <2>2, <2>3, <2>4 DEF Read
<1>3. CASE Fetch(r)
  <2>1. PageOf(rows, reader[r].limit) \in Seq(Item)
    BY PageTyped DEF States
  <2>2. reader' \in [Readers -> ReaderState]
    BY <1>0, <1>3, <2>1 DEF Fetch, ReaderState
  <2> QED BY <1>3, <1>r, <2>2 DEF Fetch
<1>4. CASE Clear(r)
  <2>1. reader' \in [Readers -> ReaderState]
    BY <1>0, <1>4 DEF Clear, ReaderState
  <2>2. cache' \in Seq(Item) /\ ttl' \in BOOLEAN
    BY <1>4, <1>e, Zenon DEF Clear
  <2> QED BY <1>4, <1>r, <2>1, <2>2 DEF Clear
<1>5. CASE Push(r)
  <2>1. [AtRest EXCEPT !.pc = "expire"] \in ReaderState
    <3>1. [AtRest EXCEPT !.pc = "expire"] = [pc |-> "expire", limit |-> 1, page |-> << >>]
      BY SMTT(30) DEF AtRest
    <3>2. [pc |-> "expire", limit |-> 1, page |-> << >>] \in ReaderState
      BY <1>e DEF ReaderState
    <3> QED BY <3>1, <3>2, Zenon
  <2>2. reader[r].page \in Seq(Item) /\ cache' \in Seq(Item)
    BY <1>0, <1>5 DEF Push, ReaderState
  <2> QED BY <1>5, <1>r, <1>s, <2>1, <2>2 DEF Push
<1>6. CASE SetExpiry(r)
  BY <1>0, <1>6, <1>r, <1>s DEF SetExpiry
<1>7. CASE FillStops(r)
  BY <1>0, <1>7, <1>r, <1>s, <1>f DEF FillStops
<1> QED BY <1>1, <1>3, <1>4, <1>5, <1>6, <1>7 DEF FillStep

\* A step of a writer, or the expiry of the list.
LEMMA WriterTyped ==
    ASSUME TypeOK, Expire \/ \E w \in Writers : WriterStep(w)
    PROVE  TypeOK'
<1> USE DEF TypeOK, summaryVars, writerVars, raceVars
<1>f. Fault => faults' \in 0..MaxFaults
  BY BoundsAssumption DEF Fault
<1>d. Drop => /\ cache' \in Seq(Item) /\ ttl' \in BOOLEAN /\ raced' \in BOOLEAN
              /\ abandoned' \subseteq Ids /\ untimed' \in BOOLEAN
  <2>1. AnyFilling \in BOOLEAN
    BY Zenon DEF AnyFilling
  <2>2. << >> \in Seq(Item)
    OBVIOUS
  <2> QED BY <2>1, <2>2, EmptyFalse, Zenon DEF Drop
<1>1. CASE Expire
  BY <1>1, <1>d DEF Expire
<1>2. ASSUME NEW w \in Writers, Change(w) PROVE TypeOK'
  <2>1. rows' \in [Ids -> {"absent", "pending", "sent", "deleted"}]
    BY <1>2 DEF Change, Changes
  <2> QED BY <1>2, <2>1 DEF Change
<1>3. ASSUME NEW w \in Writers, Evict(w) PROVE TypeOK'
  BY <1>3, <1>d DEF Evict
<1>4. ASSUME NEW w \in Writers, EvictFails(w) PROVE TypeOK'
  BY <1>4, <1>f DEF EvictFails
<1>5. ASSUME NEW w \in Writers, Open(w) PROVE TypeOK'
  <2>1. PICK i \in Ids : /\ rows' = [rows EXCEPT ![i] = "pending"]
                         /\ placed' = [placed EXCEPT ![w] = i]
    BY <1>5 DEF Open, Unsent, Absent
  <2> QED BY <1>5, <2>1 DEF Open
<1>m. ASSUME NEW w \in Writers PROVE WithMessage(w) \in [Ids -> {"absent", "pending", "sent", "deleted"}]
  BY DEF WithMessage
<1>6. ASSUME NEW w \in Writers, Stage(w) PROVE TypeOK'
  <2>1. rows' \in [Ids -> {"absent", "pending", "sent", "deleted"}]
    BY <1>m, <1>6 DEF Stage
  <2> QED BY <1>6, <2>1 DEF Stage
<1>7. ASSUME NEW w \in Writers, Compensate(w) PROVE TypeOK'
  <2>1. rows' \in [Ids -> {"absent", "pending", "sent", "deleted"}]
    BY <1>m, <1>7 DEF Compensate
  <2> QED BY <1>7, <1>f, <2>1 DEF Compensate
<1> QED BY <1>1, <1>2, <1>3, <1>4, <1>5, <1>6, <1>7 DEF WriterStep

\* A step of the summary worker.
LEMMA WorkerTyped ==
    ASSUME TypeOK, WorkerInOrder, SummaryStep \/ EvictSummaryFails \/ WorkerRaises \/ WorkerCrashes
    PROVE  TypeOK'
<1> USE DEF TypeOK, writerVars, raceVars
<1>f. Fault => faults' \in 0..MaxFaults
  BY BoundsAssumption DEF Fault
<1>d. Drop => /\ cache' \in Seq(Item) /\ ttl' \in BOOLEAN /\ raced' \in BOOLEAN
              /\ abandoned' \subseteq Ids /\ untimed' \in BOOLEAN
  <2>1. AnyFilling \in BOOLEAN
    BY Zenon DEF AnyFilling
  <2>2. << >> \in Seq(Item)
    OBVIOUS
  <2> QED BY <2>1, <2>2, EmptyFalse, Zenon DEF Drop
<1>o. spc # "idle" => offset \in 1..MaxSummaries
  BY BoundsAssumption DEF WorkerInOrder
<1>1. CASE Consume
  BY <1>1, BoundsAssumption DEF Consume
<1>2. CASE Attach
  <2>1. attached' \in [1..MaxSummaries -> Nat]
    <3>1. /\ attached \in [1..MaxSummaries -> Nat] /\ offset \in 1..MaxSummaries
          /\ attached' = [attached EXCEPT ![offset] = attached[offset] + 1]
      BY <1>2, <1>o DEF Attach
    <3> HIDE DEF TypeOK
    <3>2. attached[offset] + 1 \in Nat
      BY <3>1
    <3> QED BY <3>1, <3>2
  <2>2. rows' \in [Ids -> {"absent", "pending", "sent", "deleted"}]
    BY <1>2 DEF Attach
  <2> QED BY <1>2, <2>1, <2>2 DEF Attach
<1>3. CASE EvictSummary
  BY <1>3, <1>d DEF EvictSummary
<1>4. CASE Save
  BY <1>4, <1>o DEF Save
<1>5. CASE Commit
  BY <1>5, <1>o DEF Commit
<1>6. CASE WorkerRaises
  BY <1>6, <1>o, <1>f DEF WorkerRaises
<1>7. CASE WorkerCrashes
  BY <1>7, <1>f DEF WorkerCrashes
<1>8. CASE EvictSummaryFails
  BY <1>8, <1>f DEF EvictSummaryFails
<1> QED BY <1>1, <1>2, <1>3, <1>4, <1>5, <1>6, <1>7, <1>8 DEF SummaryStep

\* Every step keeps the types.
LEMMA Typed ==
    ASSUME TypeOK, WorkerInOrder, Next
    PROVE  TypeOK'
BY ReaderTyped, WriterTyped, WorkerTyped DEF Next, WriterStep
-----------------------------------------------------------------------------
(* The summary worker. *)

\* No step loses the worker's place: an event is passed over only when its
\* summary was attached, is known to the inbox, or its handler raised.
LEMMA WorkerKept ==
    ASSUME TypeOK, WorkerInOrder, Next
    PROVE  WorkerInOrder'
<1>0. /\ offset \in Nat /\ committed \in Nat /\ inbox \subseteq 1..MaxSummaries
      /\ MaxSummaries \in Nat /\ offset <= MaxSummaries
      /\ attached \in [1..MaxSummaries -> Nat]
  BY BoundsAssumption DEF TypeOK
<1>u. UNCHANGED summaryVars => WorkerInOrder'
  BY DEF summaryVars, WorkerInOrder
<1>1. ASSUME NEW r \in Readers, Read(r) \/ FillStep(r) \/ FillStops(r) PROVE WorkerInOrder'
  BY <1>1, <1>u DEF Read, FillStep, Fetch, Clear, Push, SetExpiry, FillStops
<1>2. ASSUME NEW w \in Writers, WriterStep(w) PROVE WorkerInOrder'
  BY <1>2, <1>u DEF WriterStep, Open, Stage, Compensate, Change, Evict, EvictFails
<1>3. CASE Expire
  BY <1>3, <1>u DEF Expire
<1>4. CASE Consume
  BY <1>0, <1>4 DEF Consume, WorkerInOrder
<1>5. CASE Attach
  BY <1>0, <1>5 DEF Attach, WorkerInOrder
<1>6. CASE EvictSummary
  BY <1>0, <1>6 DEF EvictSummary, WorkerInOrder
<1>7. CASE Save
  BY <1>0, <1>7 DEF Save, WorkerInOrder
<1>8. CASE Commit
  BY <1>0, <1>8 DEF Commit, WorkerInOrder
<1>9. CASE WorkerRaises
  BY <1>0, <1>9 DEF WorkerRaises, WorkerInOrder
<1>10. CASE WorkerCrashes
  BY <1>0, <1>10 DEF WorkerCrashes, WorkerInOrder
<1>11. CASE EvictSummaryFails
  BY <1>0, <1>11 DEF EvictSummaryFails, WorkerInOrder
<1> QED BY <1>1, <1>2, <1>3, <1>4, <1>5, <1>6, <1>7, <1>8, <1>9, <1>10, <1>11
        DEF Next, SummaryStep, WriterStep

-----------------------------------------------------------------------------
(* The cached list. *)

\* A reader takes the size of its page from its caller.
LEMMA AsksKept ==
    ASSUME TypeOK, AsksForPage, Next
    PROVE  AsksForPage'
<1>0. reader \in [Readers -> ReaderState]
  BY DEF TypeOK, ReaderState
<1>a. AtRest.pc = "idle" /\ [AtRest EXCEPT !.pc = "expire"].pc = "expire"
  BY DEF AtRest
<1>u. UNCHANGED reader => AsksForPage'
  BY DEF AsksForPage
<1>1. ASSUME NEW r \in Readers, Read(r) PROVE AsksForPage'
  BY <1>0, <1>1 DEF Read, AsksForPage, ReaderState
<1>3. ASSUME NEW r \in Readers, Fetch(r) PROVE AsksForPage'
  <2>1. reader' = [reader EXCEPT ![r] = AtRest]
        \/ reader' = [reader EXCEPT ![r] = [reader[r] EXCEPT !.pc = "del",
                                                    !.page = PageOf(rows, reader[r].limit)]]
    BY <1>0, <1>3 DEF Fetch
  <2>2. reader'[r].pc \in {"idle", "del"} /\ \A q \in Readers : q # r => reader'[q] = reader[q]
    BY <1>0, <1>a, <2>1 DEF ReaderState
  <2> QED BY <2>2 DEF AsksForPage
<1>4. ASSUME NEW r \in Readers, Clear(r) \/ Push(r) PROVE AsksForPage'
  <2>1. CASE Clear(r)
    BY <1>0, <2>1 DEF Clear, AsksForPage, ReaderState
  <2>2. CASE Push(r)
    <3>1. reader'[r].pc = "expire" /\ \A q \in Readers : q # r => reader'[q] = reader[q]
      BY <1>0, <1>a, <2>2 DEF Push
    <3> QED BY <3>1 DEF AsksForPage
  <2> QED BY <1>4, <2>1, <2>2
<1>5. ASSUME NEW r \in Readers, SetExpiry(r) \/ FillStops(r) PROVE AsksForPage'
  BY <1>0, <1>a, <1>5 DEF SetExpiry, FillStops, AsksForPage, ReaderState
<1>6. ASSUME NEW w \in Writers, WriterStep(w) PROVE AsksForPage'
  BY <1>6, <1>u DEF WriterStep, Open, Stage, Compensate, Change, Evict, EvictFails
<1>7. CASE Expire \/ SummaryStep \/ EvictSummaryFails \/ WorkerRaises \/ WorkerCrashes
  BY <1>7, <1>u DEF Expire, SummaryStep, Consume, Attach, EvictSummary, EvictSummaryFails, Save, Commit,
                    WorkerRaises, WorkerCrashes
<1> QED BY <1>1, <1>3, <1>4, <1>5, <1>6, <1>7 DEF Next, FillStep, WriterStep

\* A page depends on the rows only.
LEMMA PageKept ==
    ASSUME rows' = rows, NEW n
    PROVE  PageOf(rows, n)' = PageOf(rows, n)
BY DEF PageOf, Newer

\* The rows a list may be a page of depend on the rows, and on the sends that
\* are under way or failed.
LEMMA KnownKept ==
    ASSUME UNCHANGED <<rows, abandoned, placed>>
    PROVE  Known' = Known
BY DEF Known, Loose, Opened

\* The list is removed: whatever was wrong with it is gone, unless a fill is
\* under way that may bring it back.
LEMMA DropKept ==
    ASSUME Drop, UNCHANGED reader
    PROVE  FillIsTrue' /\ CacheIsTrue'
<1>1. ~raced' => \A r \in Readers : ~Filling(r)' /\ reader'[r].pc # "push"
  BY DEF Drop, AnyFilling, Filling
<1>2. FillIsTrue'
  BY <1>1 DEF FillIsTrue
<1>3. cache' = << >>
  BY DEF Drop
<1>4. CacheIsTrue'
  BY <1>3 DEF CacheIsTrue
<1> QED BY <1>2, <1>4

\* A row changes: a fill that is under way has raced, and the eviction that
\* follows is pending.
LEMMA ChangeKept ==
    ASSUME raced' = (raced \/ AnyFilling), UNCHANGED reader,
           spc' = "evict" \/ \E w \in Writers : wpc'[w] = "evict"
    PROVE  FillIsTrue' /\ CacheIsTrue'
<1>1. ~raced' => \A r \in Readers : ~Filling(r)' /\ reader'[r].pc # "push"
  BY DEF AnyFilling, Filling
<1>2. FillIsTrue'
  BY <1>1 DEF FillIsTrue
<1>3. CacheIsTrue'
  BY DEF CacheIsTrue
<1> QED BY <1>2, <1>3
\* A step that touches neither the rows nor the list, starts no fill and
\* forgets no eviction that is still due.
LEMMA QuietKept ==
    ASSUME FillIsTrue, CacheIsTrue, UNCHANGED <<rows, cache, abandoned, placed>>, raced => raced',
           \A r \in Readers : Filling(r)' => Filling(r) /\ reader'[r] = reader[r],
           ~raced' /\ cache # << >> /\ spc' # "evict" /\ (\A w \in Writers : wpc'[w] # "evict")
               => spc # "evict" /\ \A w \in Writers : wpc[w] # "evict"
    PROVE  FillIsTrue' /\ CacheIsTrue'
<1>1. \A n : PageOf(rows, n)' = PageOf(rows, n)
  BY PageKept
<1>2. FillIsTrue'
  <2> SUFFICES ASSUME ~raced' PROVE
         /\ \A r \in Readers : Filling(r)' => \E n \in Limits : reader'[r].page = PageOf(rows, n)'
         /\ \A r \in Readers : reader'[r].pc = "push" => cache' = << >>
         /\ \A r, q \in Readers : Filling(r)' /\ Filling(q)' => r = q
    BY DEF FillIsTrue
  <2>0. ~raced
    OBVIOUS
  <2>1. ASSUME NEW r \in Readers, Filling(r)' PROVE \E n \in Limits : reader'[r].page = PageOf(rows, n)'
    BY <1>1, <2>0, <2>1 DEF FillIsTrue
  <2>2. ASSUME NEW r \in Readers, reader'[r].pc = "push" PROVE cache' = << >>
    <3>1. Filling(r)'
      BY <2>2 DEF Filling
    <3> QED BY <2>0, <2>2, <3>1 DEF FillIsTrue
  <2>3. ASSUME NEW r \in Readers, NEW q \in Readers, Filling(r)', Filling(q)' PROVE r = q
    BY <2>0, <2>3 DEF FillIsTrue
  <2> QED BY <2>1, <2>2, <2>3
<1>3. CacheIsTrue'
  BY KnownKept DEF CacheIsTrue
<1> QED BY <1>2, <1>3

\* A reader that fetches a page has raced with every other fill under way;
\* without one it is the only filler, and its page is true.
LEMMA FetchKept ==
    ASSUME Inv, NEW r \in Readers, Fetch(r)
    PROVE  FillIsTrue' /\ CacheIsTrue'
<1> DEFINE page == PageOf(rows, reader[r].limit)
           filled == [reader[r] EXCEPT !.pc = "del", !.page = page]
<1>0. reader \in [Readers -> ReaderState] /\ reader[r].pc = "fetch"
  BY DEF Inv, TypeOK, ReaderState, Fetch
<1>u. UNCHANGED <<rows, cache, spc, wpc, abandoned, placed>> /\ FillIsTrue /\ CacheIsTrue
  BY DEF Fetch, summaryVars, writerVars, Inv
<1>1. CASE page = << >>
  <2>1. reader' = [reader EXCEPT ![r] = AtRest]
    BY <1>0, <1>1 DEF Fetch
  <2>2. ASSUME NEW q \in Readers, Filling(q)' PROVE Filling(q) /\ reader'[q] = reader[q]
    BY <1>0, <2>1, <2>2 DEF Filling, AtRest
  <2>3. raced => raced'
    BY DEF Fetch
  <2> QED BY <1>u, <2>2, <2>3, QuietKept
<1>2. CASE page # << >>
  <2>1. reader' = [reader EXCEPT ![r] = filled]
    BY <1>0, <1>2 DEF Fetch
  <2>2. reader'[r] = filled /\ filled.pc = "del" /\ filled.page = page
    BY <1>0, <2>1 DEF ReaderState
  <2>3. \A q \in Readers : q # r => reader'[q] = reader[q]
    BY <1>0, <2>1
  <2>4. ~raced' => ~raced /\ \A q \in Readers : ~Filling(q)
    BY <1>2 DEF Fetch, AnyFilling
  <2>5. \A n : PageOf(rows, n)' = PageOf(rows, n)
    BY <1>u, PageKept
  <2>6. reader[r].limit \in Limits
    BY <1>0 DEF Inv, AsksForPage
  <2>7. ~raced' => \A q \in Readers : Filling(q)' => q = r
    BY <2>3, <2>4 DEF Filling
  <2>8. \E n \in Limits : reader'[r].page = PageOf(rows, n)'
    BY <2>2, <2>5, <2>6
  <2>9. FillIsTrue'
    <3>1. ~raced' => \A q \in Readers : reader'[q].pc # "push"
      BY <2>2, <2>7 DEF Filling
    <3> HIDE DEF page, filled
    <3> QED BY <2>7, <2>8, <3>1 DEF FillIsTrue
  <2>10. CacheIsTrue'
    BY <1>u, <2>4, KnownKept DEF CacheIsTrue
  <2> QED BY <2>9, <2>10
<1> QED BY <1>1, <1>2

\* DEL: the filler is now the one that has emptied the list.
LEMMA ClearKept ==
    ASSUME Inv, NEW r \in Readers, Clear(r)
    PROVE  FillIsTrue' /\ CacheIsTrue'
<1>0. reader \in [Readers -> ReaderState]
  BY DEF Inv, TypeOK, ReaderState
<1>u. cache' = << >> /\ UNCHANGED <<rows, raced>> /\ FillIsTrue
  BY DEF Clear, Inv
<1>1. \A q \in Readers : (Filling(q)' => Filling(q)) /\ reader'[q].page = reader[q].page
  BY <1>0 DEF Clear, Filling, ReaderState
<1>2. \A n : PageOf(rows, n)' = PageOf(rows, n)
  BY <1>u, PageKept
<1>3. FillIsTrue'
  BY <1>u, <1>1, <1>2 DEF FillIsTrue
<1>4. CacheIsTrue'
  BY <1>u DEF CacheIsTrue
<1> QED BY <1>3, <1>4

\* RPUSH: the only filler puts a true page into an empty list, and is done.
LEMMA PushKept ==
    ASSUME Inv, NEW r \in Readers, Push(r)
    PROVE  FillIsTrue' /\ CacheIsTrue'
<1>0. /\ reader \in [Readers -> ReaderState] /\ reader[r].pc = "push"
      /\ reader[r].page \in Seq(Item) /\ cache \in Seq(Item)
  BY DEF Inv, TypeOK, ReaderState, Push
<1>u. UNCHANGED <<rows, raced>> /\ FillIsTrue /\ cache' = cache \o reader[r].page
  BY DEF Push, raceVars, Inv
<1>1. reader' = [reader EXCEPT ![r] = [AtRest EXCEPT !.pc = "expire"]]
  BY DEF Push
<1>2. \A q \in Readers : reader'[q] = IF q = r THEN [AtRest EXCEPT !.pc = "expire"] ELSE reader[q]
  BY <1>0, <1>1
<1>3. ~raced' => \A q \in Readers : ~Filling(q)' /\ reader'[q].pc # "push"
  <2>1. ~raced => \A q \in Readers : Filling(q) => q = r
    BY <1>0, <1>u DEF FillIsTrue, Filling
  <2>2. [AtRest EXCEPT !.pc = "expire"].pc = "expire"
    BY DEF AtRest
  <2> QED BY <1>u, <1>2, <2>1, <2>2 DEF Filling
<1>4. FillIsTrue'
  BY <1>3 DEF FillIsTrue
<1>5. ~raced => \E n \in Limits : cache' = PageOf(rows, n)'
  <2>1. \A n : PageOf(rows, n)' = PageOf(rows, n)
    BY <1>u, PageKept
  <2>2. ~raced => cache = << >> /\ \E n \in Limits : reader[r].page = PageOf(rows, n)
    BY <1>0, <1>u DEF FillIsTrue, Filling
  <2>3. << >> \o reader[r].page = reader[r].page
    BY <1>0
  <2> QED BY <1>u, <2>1, <2>2, <2>3
<1>6. rows' \in Known'
  BY <1>u DEF Known, Inv, TypeOK
<1>7. CacheIsTrue'
  BY <1>u, <1>5, <1>6 DEF CacheIsTrue
<1> QED BY <1>4, <1>7

\* A send writes its placeholder: the list may lack it from now on.
LEMMA OpenKnown ==
    ASSUME Inv, NEW w \in Writers, Open(w)
    PROVE  Known \subseteq Known'
<1>1. TypeOK /\ SendsOpen
  BY DEF Inv
<1>2. PICK i \in Ids : rows[i] = "absent" /\ rows' = [rows EXCEPT ![i] = "pending"]
                      /\ placed' = [placed EXCEPT ![w] = i]
  BY DEF Open, Unsent, Absent
<1>3. placed[w] \notin Ids /\ UNCHANGED abandoned
  <2>1. 0 \notin Ids
    BY BoundsAssumption DEF Ids, SummaryIds, MessageIds
  <2>2. placed[w] = 0 /\ UNCHANGED abandoned
    BY <1>1 DEF SendsOpen, Open
  <2> QED BY <2>1, <2>2
<1>4. i \in Loose' /\ \A j \in Ids : j \in Loose => j \in Loose'
  BY <1>1, <1>2, <1>3 DEF Loose, Opened, TypeOK
<1>5. ASSUME NEW f \in Known PROVE f \in Known'
  <2>1. ASSUME NEW j \in Ids
        PROVE  f[j] = rows'[j] \/ (j \in Loose' /\ f[j] \in {"absent", "pending"})
    BY <1>1, <1>2, <1>4 DEF Known, TypeOK
  <2> QED BY <2>1 DEF Known
<1> QED BY <1>5

\* A send that fails: the list may lack what it wrote, or show as pending what
\* it deleted.
LEMMA CompensateKnown ==
    ASSUME Inv, NEW w \in Writers, Compensate(w)
    PROVE  Known \subseteq Known'
<1>1. TypeOK /\ SendsOpen
  BY DEF Inv
<1>2. /\ abandoned' = abandoned \cup {i \in Ids : i = placed[w] \/ rows'[i] # rows[i]}
      /\ placed' = [placed EXCEPT ![w] = 0]
  BY DEF Compensate
<1>3. ASSUME NEW i \in Ids, rows'[i] # rows[i]
      PROVE  rows[i] \in {"absent", "pending"}
  <2>1. PICK f \in {rows, WithMessage(w)} : rows' \in {f, [f EXCEPT ![placed[w]] = "deleted"]}
    BY DEF Compensate
  <2>2. f \in [Ids -> States] /\ (f[i] # rows[i] => rows[i] = "absent")
    BY <1>1, <2>1 DEF WithMessage, Unsent, Absent, TypeOK, States
  <2>3. CASE f[i] # rows[i]
    BY <2>2, <2>3
  <2>4. CASE f[i] = rows[i]
    <3>1. i = placed[w] /\ rows'[i] = "deleted"
      BY <1>3, <2>1, <2>2, <2>4
    <3> QED BY <1>1, <1>3, <3>1 DEF SendsOpen
  <2> QED BY <2>3, <2>4
<1>4. \A j \in Ids : j \in Loose => j \in Loose'
  BY <1>1, <1>2 DEF Loose, Opened, TypeOK
<1>5. \A j \in Ids : rows'[j] # rows[j] => j \in Loose'
  BY <1>2 DEF Loose
<1>6. ASSUME NEW f \in Known PROVE f \in Known'
  <2>1. ASSUME NEW j \in Ids
        PROVE  f[j] = rows'[j] \/ (j \in Loose' /\ f[j] \in {"absent", "pending"})
    BY <1>3, <1>4, <1>5 DEF Known
  <2> QED BY <2>1 DEF Known
<1> QED BY <1>6

\* Rows of a send change without an eviction: a fill that is under way has
\* raced, and the list is still a page of what may be known.
LEMMA SendKept ==
    ASSUME Inv, NEW w \in Writers, Open(w) \/ Compensate(w)
    PROVE  FillIsTrue' /\ CacheIsTrue'
<1>1. raced' = (raced \/ AnyFilling) /\ UNCHANGED <<reader, cache, spc>> /\ CacheIsTrue
  BY DEF Open, Compensate, summaryVars, Inv
<1>2. ~raced' => ~raced /\ \A r \in Readers : ~Filling(r)' /\ reader'[r].pc # "push"
  BY <1>1 DEF AnyFilling, Filling
<1>3. FillIsTrue'
  BY <1>2 DEF FillIsTrue
<1>4. \A v \in Writers : wpc[v] = "evict" => wpc'[v] = "evict"
  BY DEF Open, Compensate, Inv, TypeOK
<1>5. Known \subseteq Known'
  BY OpenKnown, CompensateKnown
<1>6. CacheIsTrue'
  BY <1>1, <1>2, <1>4, <1>5 DEF CacheIsTrue
<1> QED BY <1>3, <1>6

\* Only the send itself, a deletion or the clean end of the send touch the
\* placeholder of a send that is under way.
LEMMA SendsKept ==
    ASSUME Inv, Next
    PROVE  SendsOpen'
<1>0. TypeOK /\ SendsOpen /\ 0 \notin Ids
  BY BoundsAssumption DEF Inv, Ids, SummaryIds, MessageIds
<1>u. UNCHANGED <<rows, placed>> /\ (\A w \in Writers : wpc'[w] # "open" => wpc[w] # "open") => SendsOpen'
  BY <1>0 DEF SendsOpen
<1>c. ASSUME UNCHANGED placed, \A w \in Writers : wpc'[w] # "open" => wpc[w] # "open",
             \A i \in Ids : rows'[i] = rows[i] \/ rows'[i] \in {"pending", "deleted"} \/ i \notin Opened
                            \/ rows[i] = "absent"
      PROVE  SendsOpen'
  BY <1>0, <1>c DEF SendsOpen, Opened
<1>1. ASSUME NEW r \in Readers, Read(r) \/ FillStep(r) \/ FillStops(r) PROVE SendsOpen'
  BY <1>1, <1>u DEF Read, FillStep, Fetch, Clear, Push, SetExpiry, FillStops, writerVars
<1>2. CASE Expire \/ Consume \/ EvictSummary \/ Save \/ Commit \/ EvictSummaryFails
           \/ WorkerRaises \/ WorkerCrashes
  BY <1>2, <1>u DEF Expire, Consume, EvictSummary, Save, Commit, EvictSummaryFails, WorkerRaises,
                    WorkerCrashes, writerVars
<1>3. CASE Attach
  <2>1. PICK i \in Ids : rows[i] = "absent" /\ rows' = [rows EXCEPT ![i] = "sent"]
    BY <1>3 DEF Attach, Absent
  <2>2. UNCHANGED <<placed, wpc>>
    BY <1>3 DEF Attach, writerVars
  <2>3. \A j \in Ids : rows'[j] = rows[j] \/ rows[j] = "absent"
    BY <1>0, <2>1 DEF TypeOK
  <2> QED BY <1>c, <2>2, <2>3
<1>4. ASSUME NEW w \in Writers, Evict(w) \/ EvictFails(w) PROVE SendsOpen'
  <2>1. UNCHANGED <<rows, placed>> /\ wpc[w] # "open"
    BY <1>4 DEF Evict, EvictFails
  <2>2. \A v \in Writers : wpc'[v] # "open" => wpc[v] # "open"
    BY <1>0, <1>4, <2>1 DEF Evict, EvictFails, TypeOK
  <2> QED BY <1>u, <2>1, <2>2
<1>5. ASSUME NEW w \in Writers, Change(w) PROVE SendsOpen'
  <2>1. UNCHANGED placed /\ rows' \in Changes
    BY <1>5 DEF Change
  <2>2. \A v \in Writers : wpc'[v] # "open" => wpc[v] # "open"
    BY <1>0, <1>5 DEF Change, TypeOK
  <2>3. \A i \in Ids : rows'[i] = rows[i] \/ rows'[i] \in {"pending", "deleted"} \/ i \notin Opened
    BY <1>0, <2>1 DEF Changes, TypeOK
  <2> QED BY <1>c, <2>1, <2>2, <2>3
<1>6. ASSUME NEW w \in Writers, Open(w) PROVE SendsOpen'
  <2>1. PICK i \in Ids : /\ rows' = [rows EXCEPT ![i] = "pending"]
                         /\ placed' = [placed EXCEPT ![w] = i] /\ wpc' = [wpc EXCEPT ![w] = "open"]
    BY <1>6 DEF Open, Unsent, Absent
  <2> QED BY <1>0, <2>1 DEF SendsOpen, TypeOK
<1>7. ASSUME NEW w \in Writers, Stage(w) \/ Compensate(w) PROVE SendsOpen'
  <2>1. placed' = [placed EXCEPT ![w] = 0] /\ \E s \in {"idle", "evict"} : wpc' = [wpc EXCEPT ![w] = s]
    BY <1>7 DEF Stage, Compensate
  <2>2. \A i \in Ids : WithMessage(w)[i] = rows[i] \/ rows[i] = "absent"
    BY DEF WithMessage, Unsent, Absent
  <2>3. WithMessage(w) \in [Ids -> States]
    BY <1>0 DEF WithMessage, TypeOK, States
  <2>4. \A i \in Ids : rows'[i] = rows[i] \/ rows'[i] = "deleted" \/ rows[i] = "absent"
    <3>1. CASE Stage(w)
      BY <1>0, <2>2, <3>1 DEF Stage, TypeOK
    <3>2. CASE Compensate(w)
      <4>1. PICK f \in {rows, WithMessage(w)} : rows' \in {f, [f EXCEPT ![placed[w]] = "deleted"]}
        BY <3>2 DEF Compensate
      <4>2. f \in [Ids -> States] /\ \A i \in Ids : f[i] = rows[i] \/ rows[i] = "absent"
        BY <1>0, <2>2, <2>3, <4>1 DEF TypeOK, States
      <4> QED BY <4>1, <4>2
    <3> QED BY <1>7, <3>1, <3>2
  <2> QED BY <1>0, <2>1, <2>4 DEF SendsOpen, TypeOK
<1> QED BY <1>1, <1>2, <1>3, <1>4, <1>5, <1>6, <1>7 DEF Next, SummaryStep

\* Every list has an expiry, or someone is about to set it.
LEMMA ExpiresKept ==
    ASSUME Inv, Next
    PROVE  ListExpires'
<1>0. reader \in [Readers -> ReaderState] /\ ListExpires
  BY DEF Inv, TypeOK, ReaderState
<1>a. AtRest.pc = "idle" /\ [AtRest EXCEPT !.pc = "expire"].pc = "expire"
  BY DEF AtRest
<1>d. Drop => ListExpires'
  BY DEF Drop, ListExpires
<1>u. UNCHANGED <<cache, ttl, untimed, reader>> => ListExpires'
  BY <1>0 DEF ListExpires
<1>o. ASSUME NEW r \in Readers, reader[r].pc # "expire", UNCHANGED <<cache, ttl, untimed>>,
             \A q \in Readers : q # r => reader'[q] = reader[q]
      PROVE  ListExpires'
  BY <1>0, <1>o DEF ListExpires
<1>1. ASSUME NEW r \in Readers, Read(r) \/ Fetch(r) PROVE ListExpires'
  <2>1. UNCHANGED <<cache, ttl, untimed>> /\ reader[r].pc # "expire"
    BY <1>1 DEF Read, Fetch
  <2>2. \A q \in Readers : q # r => reader'[q] = reader[q]
    BY <1>0, <1>1 DEF Read, Fetch
  <2> QED BY <1>o, <2>1, <2>2
<1>2. ASSUME NEW r \in Readers, Clear(r) PROVE ListExpires'
  BY <1>2 DEF Clear, ListExpires
<1>3. ASSUME NEW r \in Readers, Push(r) PROVE ListExpires'
  <2>1. reader'[r].pc = "expire"
    BY <1>0, <1>a, <1>3 DEF Push
  <2> QED BY <2>1 DEF ListExpires
<1>4. ASSUME NEW r \in Readers, SetExpiry(r) PROVE ListExpires'
  BY <1>4 DEF SetExpiry, ListExpires
<1>5. ASSUME NEW r \in Readers, FillStops(r) PROVE ListExpires'
  <2>1. CASE reader[r].pc = "expire"
    BY <1>5, <2>1 DEF FillStops, ListExpires
  <2>2. CASE reader[r].pc # "expire"
    <3>1. UNCHANGED <<cache, ttl>> /\ untimed' = untimed
      BY <1>5, <2>2 DEF FillStops, Inv, TypeOK
    <3>2. \A q \in Readers : q # r => reader'[q] = reader[q]
      BY <1>0, <1>5 DEF FillStops
    <3> QED BY <1>o, <2>2, <3>1, <3>2
  <2> QED BY <2>1, <2>2
<1>6. ASSUME NEW w \in Writers, WriterStep(w) PROVE ListExpires'
  BY <1>6, <1>d, <1>u DEF WriterStep, Open, Stage, Compensate, Change, Evict, EvictFails
<1>7. CASE Expire \/ SummaryStep \/ EvictSummaryFails \/ WorkerRaises \/ WorkerCrashes
  BY <1>7, <1>d, <1>u DEF Expire, SummaryStep, Consume, Attach, EvictSummary, EvictSummaryFails, Save,
                    Commit, WorkerRaises, WorkerCrashes
<1> QED BY <1>1, <1>2, <1>3, <1>4, <1>5, <1>6, <1>7 DEF Next, FillStep, WriterStep

\* Every step keeps the cached list true.
LEMMA CacheKept ==
    ASSUME Inv, Next
    PROVE  FillIsTrue' /\ CacheIsTrue'
<1>0. /\ reader \in [Readers -> ReaderState] /\ wpc \in [Writers -> {"idle", "open", "evict"}]
      /\ FillIsTrue /\ CacheIsTrue
  BY DEF Inv, TypeOK, ReaderState
<1>a. AtRest.pc = "idle"
  BY DEF AtRest
<1>r. ASSUME NEW r \in Readers, NEW x, reader' = [reader EXCEPT ![r] = x],
             x.pc \notin {"del", "push"},
             UNCHANGED <<rows, cache, raced, spc, wpc, abandoned, placed>>
      PROVE  FillIsTrue' /\ CacheIsTrue'
  <2>1. \A q \in Readers : Filling(q)' => Filling(q) /\ reader'[q] = reader[q]
    BY <1>0, <1>r DEF Filling
  <2> QED BY <1>0, <1>r, <2>1, QuietKept
<1>w. ASSUME UNCHANGED <<rows, cache, reader, raced, wpc, abandoned, placed>>, spc = "evict" => spc' = "evict"
      PROVE  FillIsTrue' /\ CacheIsTrue'
  BY <1>0, <1>w, QuietKept DEF Filling
<1>1. ASSUME NEW r \in Readers, Read(r) PROVE FillIsTrue' /\ CacheIsTrue'
  <2>1. PICK n \in Limits : reader' = [reader EXCEPT ![r] = [pc |-> "fetch", limit |-> n, page |-> << >>]]
    BY <1>1 DEF Read
  <2> QED BY <1>1, <1>r, <2>1 DEF Read, summaryVars, writerVars, raceVars
<1>3. ASSUME NEW r \in Readers, Fetch(r) \/ Clear(r) \/ Push(r) PROVE FillIsTrue' /\ CacheIsTrue'
  BY <1>3, FetchKept, ClearKept, PushKept
<1>4. ASSUME NEW r \in Readers, SetExpiry(r) \/ FillStops(r) PROVE FillIsTrue' /\ CacheIsTrue'
  BY <1>4, <1>a, <1>r DEF SetExpiry, FillStops, summaryVars, writerVars, raceVars
<1>5. CASE Expire \/ EvictSummary \/ \E w \in Writers : Evict(w)
  BY <1>5, DropKept DEF Expire, EvictSummary, Evict
<1>6. ASSUME NEW w \in Writers, Change(w) \/ Stage(w) PROVE FillIsTrue' /\ CacheIsTrue'
  <2>1. wpc'[w] = "evict"
    BY <1>0, <1>6 DEF Change, Stage
  <2> QED BY <1>6, <2>1, ChangeKept DEF Change, Stage
<1>12. ASSUME NEW w \in Writers, Open(w) \/ Compensate(w) PROVE FillIsTrue' /\ CacheIsTrue'
  BY <1>12, SendKept
<1>7. CASE Attach
  BY <1>7, ChangeKept DEF Attach
<1>8. ASSUME NEW w \in Writers, EvictFails(w) PROVE FillIsTrue' /\ CacheIsTrue'
  <2>1. /\ raced' = (raced \/ cache # << >>)
        /\ UNCHANGED <<rows, cache, reader, abandoned, placed>>
    BY <1>8 DEF EvictFails
  <2>2. (raced => raced') /\ (~raced' => cache = << >>)
    BY <2>1
  <2> QED BY <1>0, <2>1, <2>2, QuietKept DEF Filling
<1>9. CASE Consume \/ Save \/ Commit
  BY <1>9, <1>w DEF Consume, Save, Commit, writerVars, raceVars
<1>10. CASE WorkerRaises
  BY <1>10, <1>w DEF WorkerRaises, writerVars, raceVars
<1>11. CASE WorkerCrashes
  <2>1. /\ raced' = (raced \/ (spc = "evict" /\ cache # << >>))
        /\ UNCHANGED <<rows, cache, reader, wpc, abandoned, placed>>
    BY <1>11 DEF WorkerCrashes, writerVars
  <2>2. (raced => raced') /\ (~raced' /\ cache # << >> => spc # "evict")
    BY <2>1
  <2> QED BY <1>0, <2>1, <2>2, QuietKept DEF Filling
<1>13. CASE EvictSummaryFails
  <2>1. /\ raced' = (raced \/ cache # << >>)
        /\ UNCHANGED <<rows, cache, reader, wpc, abandoned, placed>>
    BY <1>13 DEF EvictSummaryFails, writerVars
  <2>2. (raced => raced') /\ (~raced' => cache = << >>)
    BY <2>1
  <2> QED BY <1>0, <2>1, <2>2, QuietKept DEF Filling
<1> QED BY <1>1, <1>3, <1>4, <1>5, <1>6, <1>7, <1>8, <1>9, <1>10, <1>11, <1>12, <1>13
        DEF Next, FillStep, SummaryStep

-----------------------------------------------------------------------------
(* The theorems. *)

\* The invariant of History holds in every reachable state.
THEOREM HistoryInvariant == Spec => []Inv
<1>1. ASSUME Inv, Next PROVE Inv'
  <2>1. TypeOK /\ WorkerInOrder /\ AsksForPage
    BY <1>1 DEF Inv
  <2> QED BY <1>1, <2>1, Typed, WorkerKept, AsksKept, SendsKept, CacheKept, ExpiresKept DEF Inv
<1>2. ASSUME Inv, UNCHANGED vars PROVE Inv'
  <2>1. /\ UNCHANGED <<rows, cache, ttl, reader, reads, wpc, placed, raced, abandoned, untimed, faults>>
        /\ UNCHANGED summaryVars
    BY <1>2 DEF vars, writerVars, raceVars
  <2>2. TypeOK'
    BY <1>2, <2>1 DEF Inv, TypeOK, summaryVars
  <2>3. WorkerInOrder'
    BY <1>2, <2>1 DEF Inv, WorkerInOrder, summaryVars
  <2>4. AsksForPage' /\ SendsOpen'
    BY <1>2, <2>1 DEF Inv, AsksForPage, SendsOpen
  <2>5. FillIsTrue' /\ CacheIsTrue'
    BY <1>2, <2>1, QuietKept DEF Inv, Filling, summaryVars
  <2>6. ListExpires'
    BY <1>2, <2>1 DEF Inv, ListExpires
  <2> QED BY <2>2, <2>3, <2>4, <2>5, <2>6 DEF Inv
<1> QED BY InitInv, <1>1, <1>2, PTL DEF Spec

\* Rows, list, readers, writers, worker and the offsets keep their
\* types, whatever fails or crashes.
THEOREM HistoryTypes == Spec => []TypeOK
BY HistoryInvariant, PTL DEF Inv

\* Readers that fill the list, requests and the worker that change rows and
\* evict it, sends that fail and do not evict it, expiry and lost evictions, any
\* number of each: a list that no fill raced with is a page of the table as it is
\* now, but for rows of a send under way or failed that it lacks or shows as
\* pending.
THEOREM CachedListIsTrue == Spec => []CacheIsTrue
BY HistoryInvariant, PTL DEF Inv

\* However fills, evictions, expiries and failures interleave, a list has an
\* expiry or a reader about to set it, unless a reader died between RPUSH and
\* EXPIRE (cache_service.py:146-148).
THEOREM EveryListExpires == Spec => []ListExpires
BY HistoryInvariant, PTL DEF Inv

\* A summary that the consumer group has committed past was attached, or its
\* handler raised, wherever the worker crashed and whatever was redelivered.
THEOREM NoSummaryLost == Spec => []SummaryNotLost
<1>1. ASSUME Inv PROVE SummaryNotLost
  <2>1. offset \in Nat /\ committed \in Nat /\ WorkerInOrder
    BY <1>1, BoundsAssumption DEF Inv, TypeOK
  <2> QED BY <2>1 DEF WorkerInOrder, SummaryNotLost
<1> QED BY HistoryInvariant, <1>1, PTL
=============================================================================
