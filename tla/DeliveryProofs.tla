--------------------------- MODULE DeliveryProofs ---------------------------
(***************************************************************************)
(* Theorems about Outbox, for any number of workers, events and failures:  *)
(* at-least-once, the exclusion a lease gives, and first copies in order;  *)
(* and about Idempotency: once per key, however often a request is made.   *)
(***************************************************************************)
EXTENDS Outbox, Idempotency, FiniteSetTheorems, TLAPS

-----------------------------------------------------------------------------
(* Types. *)

\* A worker is an outbox or a retry worker.
LEMMA KindTyped == ASSUME NEW w PROVE Kind(w) \in Kinds
BY DEF Kind, Kinds

\* The end of a process, crashed or stopped, keeps the types.
LEMMA EndTyped ==
    ASSUME TypeOK, NEW w \in Workers, NEW k \in [Kinds -> Workers \cup {None, Gone}], End(w, k)
    PROVE  /\ lock' \in [Kinds -> Workers \cup {None, Gone}]
           /\ held' \in SUBSET Workers
           /\ wpc' \in [Workers -> Steps]
           /\ batch' \in [Workers -> SUBSET Events]
BY DEF TypeOK, End, Goto, Steps

\* Going on with the rest of a batch keeps the types.
LEMMA GoOnTyped ==
    ASSUME TypeOK, NEW w \in Workers, NEW B \in SUBSET Events, GoOn(w, B)
    PROVE  wpc' \in [Workers -> Steps] /\ batch' \in [Workers -> SUBSET Events]
BY DEF TypeOK, GoOn, Goto, Steps

\* Every step of a worker keeps the types.
LEMMA WorkerTyped ==
    ASSUME TypeOK, NEW w \in Workers, WorkerStep(w)
    PROVE  TypeOK'
<1>k. Kind(w) \in Kinds
  BY KindTyped
<1>f. Fault \/ NoFault => faults' \in Nat
  BY DEF TypeOK, Fault, NoFault
<1>g. ASSUME NEW x \in Steps, Goto(w, x) PROVE wpc' \in [Workers -> Steps]
  BY <1>g DEF TypeOK, Goto
<1>b. Fetched(w) \in SUBSET Events /\ \A e : AfterFailure(w, e) \in SUBSET Events
  BY DEF Fetched, First, AfterFailure, TypeOK
<1>1. CASE Acquire(w)
  BY <1>1, <1>k, <1>f, <1>g DEF Acquire, TypeOK, Steps
<1>2. CASE Enter(w)
  BY <1>2, <1>g DEF Enter, TypeOK, Steps
<1>3. CASE Fetch(w)
  BY <1>3, <1>b, <1>f, GoOnTyped DEF Fetch, TypeOK
<1>4. ASSUME NEW e \in Events, Send(w, e) PROVE TypeOK'
  <2>1. wpc' \in [Workers -> Steps] /\ batch' \in [Workers -> SUBSET Events]
    BY <1>4, <1>b, <1>g, GoOnTyped DEF Send, TypeOK, Steps
  <2> QED BY <1>4, <1>f, <2>1 DEF Send, TypeOK
<1>5. ASSUME NEW e \in Events, Mark(w, e) PROVE TypeOK'
  <2>1. batch[w] \ {e} \in SUBSET Events
    BY DEF TypeOK
  <2>2. wpc' \in [Workers -> Steps] /\ batch' \in [Workers -> SUBSET Events]
    BY <1>5, <1>b, <2>1, GoOnTyped DEF Mark
  <2> QED BY <1>5, <1>f, <2>2 DEF Mark, TypeOK
<1>6. CASE Renew(w)
  BY <1>6 DEF Renew, TypeOK
<1>7. CASE Stop(w)
  <2>1. topic' \in SUBSET Events
    BY <1>7 DEF Stop, IsNext, TypeOK
  <2>2. CASE w \in held
    BY <1>7, <1>f, <1>g, <2>1, <2>2 DEF Stop, TypeOK, Steps
  <2>3. CASE w \notin held
    BY <1>7, <1>f, <2>1, <2>3, EndTyped DEF Stop, TypeOK
  <2> QED BY <2>2, <2>3
<1>8. CASE ReleaseGet(w)
  BY <1>8, <1>f, <1>g, EndTyped DEF ReleaseGet, TypeOK, Steps
<1>9. CASE ReleaseDelete(w)
  <2>1. [lock EXCEPT ![Kind(w)] = None] \in [Kinds -> Workers \cup {None, Gone}]
    BY DEF TypeOK
  <2> QED BY <1>9, <1>f, <2>1, EndTyped DEF ReleaseDelete, TypeOK
<1>10. CASE Crash(w)
  BY <1>10, <1>f, EndTyped DEF Crash, TypeOK
<1> QED BY <1>1, <1>2, <1>3, <1>4, <1>5, <1>6, <1>7, <1>8, <1>9, <1>10 DEF WorkerStep

\* Type correctness of the outbox.
THEOREM OutboxTypeCorrect == Spec => []TypeOK
<1>1. Init => TypeOK
  BY DEF Init, TypeOK, Steps, Kinds
<1>2. TypeOK /\ [Next]_vars => TypeOK'
  <2> SUFFICES ASSUME TypeOK, [Next]_vars PROVE TypeOK'
    OBVIOUS
  <2>1. ASSUME NEW e \in Events, Stage(e) \/ Age(e) PROVE TypeOK'
    BY <2>1 DEF Stage, Age, TypeOK
  <2>2. ASSUME NEW k \in Kinds, LeaseExpires(k) PROVE TypeOK'
    BY <2>2 DEF LeaseExpires, Fault, NoFault, TypeOK
  <2>3. CASE UNCHANGED vars
    BY <2>3 DEF vars, TypeOK
  <2> QED BY <2>1, <2>2, <2>3, WorkerTyped DEF Next
<1> QED BY <1>1, <1>2, PTL DEF Spec

-----------------------------------------------------------------------------
(* At least once. *)

\* A worker flags what it has sent before.
MarkedIsSent == \A w \in Workers, e \in Events : wpc[w] = "mark" /\ IsNext(w, e) => e \in topic
SentInv == FlaggedIsSent /\ MarkedIsSent

\* A worker only moves its own counter and batch.
LEMMA OthersKept ==
    ASSUME TypeOK, NEW w \in Workers, WorkerStep(w), NEW v \in Workers, v # w
    PROVE  wpc'[v] = wpc[v] /\ batch'[v] = batch[v]
BY DEF WorkerStep, Acquire, Enter, Fetch, Send, Mark, Renew, Stop, ReleaseGet, ReleaseDelete, Crash,
   End, GoOn, Goto, TypeOK

\* Kafka loses nothing.
LEMMA TopicGrows ==
    ASSUME Next
    PROVE  topic \subseteq topic'
<1>1. ASSUME NEW w \in Workers, WorkerStep(w) PROVE topic \subseteq topic'
  BY <1>1 DEF WorkerStep, Acquire, Enter, Fetch, Send, Mark, Renew, Stop, ReleaseGet, ReleaseDelete, Crash
<1> QED BY <1>1 DEF Next, Stage, Age, LeaseExpires

\* An event is flagged by a worker that was about to mark it.
LEMMA FlaggedStep ==
    ASSUME Next, NEW e \in flagged' \ flagged
    PROVE  \E w \in Workers : wpc[w] = "mark" /\ IsNext(w, e)
<1>1. ASSUME NEW w \in Workers, WorkerStep(w) PROVE wpc[w] = "mark" /\ IsNext(w, e)
  BY <1>1 DEF WorkerStep, Acquire, Enter, Fetch, Send, Mark, Renew, Stop, ReleaseGet, ReleaseDelete, Crash
<1> QED BY <1>1 DEF Next, Stage, Age, LeaseExpires

\* A worker comes to the marking of an event by sending it.
LEMMA MarkStep ==
    ASSUME TypeOK, NEW w \in Workers, WorkerStep(w), wpc'[w] = "mark"
    PROVE  /\ batch'[w] = batch[w]
           /\ wpc[w] = "mark" \/ \E e \in Events : IsNext(w, e) /\ e \in topic'
<1> USE DEF TypeOK, Goto, GoOn, End
<1>1. CASE Acquire(w) \/ Enter(w) \/ Fetch(w)
  BY <1>1 DEF Acquire, Enter, Fetch
<1>2. ASSUME NEW e \in Events, Send(w, e) PROVE batch'[w] = batch[w] /\ IsNext(w, e) /\ e \in topic'
  BY <1>2 DEF Send
<1>3. ASSUME NEW e \in Events, Mark(w, e) PROVE FALSE
  BY <1>3 DEF Mark
<1>4. CASE Renew(w)
  BY <1>4 DEF Renew
<1>5. CASE Stop(w) \/ ReleaseGet(w) \/ ReleaseDelete(w) \/ Crash(w)
  BY <1>5 DEF Stop, ReleaseGet, ReleaseDelete, Crash
<1> QED BY <1>1, <1>2, <1>3, <1>4, <1>5 DEF WorkerStep

\* Every step keeps flagged events, and those about to be, on the topic.
LEMMA SentStep ==
    ASSUME TypeOK, SentInv, Next
    PROVE  SentInv'
<1>1. FlaggedIsSent'
  BY FlaggedStep, TopicGrows DEF SentInv, FlaggedIsSent, MarkedIsSent, TypeOK, IsNext
<1>2. ASSUME NEW v \in Workers, NEW e \in Events, wpc'[v] = "mark", IsNext(v, e)'
      PROVE  e \in topic'
  <2>1. ASSUME wpc[v] = "mark", batch'[v] = batch[v] PROVE e \in topic'
    BY <1>2, <2>1, TopicGrows DEF SentInv, MarkedIsSent, IsNext
  <2>2. ASSUME WorkerStep(v) PROVE e \in topic'
    <3>1. batch'[v] = batch[v]
      BY <1>2, <2>2, MarkStep
    <3>2. ASSUME NEW d \in Events, IsNext(v, d), d \in topic' PROVE e \in topic'
      <4>1. d <= e /\ e <= d /\ d \in Nat /\ e \in Nat
        BY <1>2, <3>1, <3>2, EventsAreOrdered DEF IsNext
      <4>2. d = e
        BY <4>1
      <4> QED BY <3>2, <4>2
    <3> QED BY <1>2, <2>1, <2>2, <3>1, <3>2, MarkStep
  <2>3. ASSUME NEW w \in Workers, WorkerStep(w), w # v PROVE e \in topic'
    BY <1>2, <2>1, <2>3, OthersKept
  <2>4. CASE UNCHANGED <<wpc, batch>>
    BY <1>2, <2>1, <2>4
  <2> QED BY <2>2, <2>3, <2>4 DEF Next, Stage, Age, LeaseExpires
<1> QED BY <1>1, <1>2 DEF SentInv, MarkedIsSent

\* At least once: no failed, lost or repeated call, crash or lapsed lease
\* leaves an event flagged published that the topic does not hold.
THEOREM FlaggedWasSent == Spec => []FlaggedIsSent
<1>1. Init => SentInv
  BY DEF Init, SentInv, FlaggedIsSent, MarkedIsSent
<1>2. TypeOK /\ SentInv /\ [Next]_vars => SentInv'
  <2>1. TypeOK /\ SentInv /\ UNCHANGED vars => SentInv'
    BY DEF vars, SentInv, FlaggedIsSent, MarkedIsSent, IsNext
  <2> QED BY <2>1, SentStep
<1>3. SentInv => FlaggedIsSent
  BY DEF SentInv
<1> QED BY <1>1, <1>2, <1>3, OutboxTypeCorrect, PTL DEF Spec

-----------------------------------------------------------------------------
(* What a lease gives until one lapses. *)

\* The list of held buckets tells the truth, and only holders process.
LeaseInv ==
    /\ \A w \in held : lock[Kind(w)] = w
    /\ \A w \in Workers : wpc[w] # "idle" => w \in held

\* A process that ends leaves the leases of the others alone.
LEMMA EndLease ==
    ASSUME TypeOK, LeaseInv, NEW w \in Workers, NEW k, End(w, k),
           \A v \in held \ {w} : k[Kind(v)] = v,
           k \in [Kinds -> Workers \cup {None, Gone}]
    PROVE  LeaseInv'
<1>1. ASSUME NEW v \in held' PROVE lock'[Kind(v)] = v
  <2>1. v \in held \ {w} /\ k[Kind(v)] = v
    BY <1>1 DEF End
  <2>2. k[Kind(w)] = w => Kind(v) # Kind(w)
    BY <2>1
  <2> QED BY <2>1, <2>2 DEF End
<1>2. ASSUME NEW v \in Workers, wpc'[v] # "idle" PROVE v \in held'
  BY <1>2 DEF End, Goto, TypeOK, LeaseInv
<1> QED BY <1>1, <1>2 DEF LeaseInv

\* Unless a lease lapses, every step leaves it with the worker using it.
LEMMA LeaseStep ==
    ASSUME lapsed' = {}, TypeOK, LeaseInv, Next
    PROVE  LeaseInv'
<1>h. held \subseteq Workers
  BY DEF TypeOK
<1>1. ASSUME NEW w \in Workers, WorkerStep(w) PROVE LeaseInv'
  <2>e. ASSUME End(w, lock) PROVE LeaseInv'
    BY <2>e, EndLease DEF LeaseInv, TypeOK
  <2>1. CASE Acquire(w)
    <3>1. lock[Kind(w)] = None /\ lock' = [lock EXCEPT ![Kind(w)] = w] /\ lock'[Kind(w)] = w
      BY <2>1, KindTyped DEF Acquire, TypeOK
    <3>2. ASSUME NEW v \in held PROVE lock'[Kind(v)] = v
      <4>1. Kind(v) # Kind(w)
        BY <1>h, <3>1, <3>2, WorkersAssumption DEF LeaseInv
      <4> QED BY <3>1, <3>2, <4>1 DEF LeaseInv, TypeOK
    <3>3. ASSUME NEW v \in held' PROVE lock'[Kind(v)] = v
      BY <2>1, <3>1, <3>2, <3>3 DEF Acquire
    <3>4. ASSUME NEW v \in Workers, wpc'[v] # "idle" PROVE v \in held'
      BY <2>1, <3>4 DEF Acquire, Goto, LeaseInv, TypeOK
    <3> QED BY <3>3, <3>4 DEF LeaseInv
  <2>2. CASE Enter(w)
    BY <2>2 DEF Enter, Goto, LeaseInv, TypeOK
  <2>3. CASE Fetch(w) \/ (\E e \in Events : Send(w, e) \/ Mark(w, e))
    <3>1. wpc[w] # "idle" /\ UNCHANGED <<lock, held>>
      BY <2>3 DEF Fetch, Send, Mark
    <3>2. \A v \in Workers : v # w => wpc'[v] = wpc[v]
      BY <1>1, OthersKept
    <3> QED BY <3>1, <3>2 DEF LeaseInv
  <2>4. CASE Renew(w)
    BY <2>4 DEF Renew, LeaseInv
  <2>5. CASE Stop(w)
    <3>1. CASE w \in held
      BY <2>5, <3>1 DEF Stop, Goto, LeaseInv, TypeOK
    <3>2. CASE w \notin held
      BY <2>5, <2>e, <3>2 DEF Stop
    <3> QED BY <3>1, <3>2
  <2>6. CASE ReleaseGet(w)
    <3>1. CASE Goto(w, "delete") /\ UNCHANGED <<lock, held>>
      BY <2>6, <3>1 DEF ReleaseGet, Goto, LeaseInv, TypeOK
    <3>2. CASE End(w, lock)
      BY <2>e, <3>2
    <3> QED BY <2>6, <3>1, <3>2 DEF ReleaseGet
  <2>7. CASE ReleaseDelete(w)
    <3>1. CASE End(w, [lock EXCEPT ![Kind(w)] = None])
      <4> DEFINE k == [lock EXCEPT ![Kind(w)] = None]
      <4>1. k \in [Kinds -> Workers \cup {None, Gone}]
        BY DEF TypeOK
      <4>2. w \in held /\ lock[Kind(w)] = w
        BY <2>7 DEF ReleaseDelete, LeaseInv
      <4>3. ASSUME NEW v \in held \ {w} PROVE k[Kind(v)] = v
        BY <4>2, <4>3, KindTyped DEF LeaseInv, TypeOK
      <4> QED BY <3>1, <4>1, <4>3, EndLease
    <3>2. CASE End(w, lock)
      BY <2>e, <3>2
    <3> QED BY <2>7, <3>1, <3>2 DEF ReleaseDelete
  <2>8. CASE Crash(w)
    BY <2>e, <2>8 DEF Crash
  <2> QED BY <1>1, <2>1, <2>2, <2>3, <2>4, <2>5, <2>6, <2>7, <2>8 DEF WorkerStep
<1>2. ASSUME NEW e \in Events, Stage(e) \/ Age(e) PROVE LeaseInv'
  BY <1>2 DEF Stage, Age, LeaseInv
<1>3. ASSUME NEW k \in Kinds, LeaseExpires(k) PROVE LeaseInv'
  <2>1. lock[k] \notin held /\ lock' = [lock EXCEPT ![k] = None] /\ UNCHANGED <<held, wpc>>
    BY <1>3 DEF LeaseExpires
  <2>2. ASSUME NEW v \in held PROVE lock'[Kind(v)] = v
    BY <2>1, <2>2, KindTyped DEF LeaseInv, TypeOK
  <2> QED BY <2>1, <2>2 DEF LeaseInv
<1> QED BY <1>1, <1>2, <1>3 DEF Next

\* A lapse is remembered.
LEMMA LapseKept ==
    ASSUME Next
    PROVE  lapsed \subseteq lapsed'
<1>1. ASSUME NEW w \in Workers, WorkerStep(w) PROVE lapsed \subseteq lapsed'
  BY <1>1 DEF WorkerStep, Acquire, Enter, Fetch, Send, Mark, Renew, Stop, ReleaseGet, ReleaseDelete, Crash
<1> QED BY <1>1 DEF Next, Stage, Age, LeaseExpires

\* Until a lease lapses, crashes, restarts, failed calls and releases never
\* put two outbox workers on one bucket (acquire_lock, release_lock).
THEOREM LeaseExcludes == Spec => []OneOutboxWorker
<1> DEFINE Inv == lapsed = {} => LeaseInv
<1>1. Init => Inv
  BY DEF Init, LeaseInv
<1>2. TypeOK /\ Inv /\ [Next]_vars => Inv'
  <2>1. LeaseInv /\ UNCHANGED vars => LeaseInv'
    BY DEF vars, LeaseInv
  <2>2. UNCHANGED vars => lapsed' = lapsed
    BY DEF vars
  <2> QED BY <2>1, <2>2, LeaseStep, LapseKept
<1>3. Inv => OneOutboxWorker
  BY DEF LeaseInv, OneOutboxWorker, Busy, Kind, Workers
<1> QED BY <1>1, <1>2, <1>3, OutboxTypeCorrect, PTL DEF Spec

-----------------------------------------------------------------------------
(* First copies in order, save of what a retry worker passed over. *)

\* A fetch returns an initial part of what is unpublished.
LEMMA FirstIsInitial ==
    ASSUME NEW S, IsFiniteSet(S), S \subseteq Nat, NEW n \in Nat,
           NEW e \in First(S, n), NEW d \in S, d < e
    PROVE  d \in First(S, n)
<1> DEFINE D == {x \in S : x < d}
           E == {x \in S : x < e}
<1>0. e \in Nat /\ d \in Nat
  BY DEF First
<1>1. D \subseteq E /\ E \subseteq S
  <2>1. ASSUME NEW x \in S, x < d PROVE x < e
    BY <1>0, <2>1
  <2> QED BY <2>1
<1>2. IsFiniteSet(E) /\ IsFiniteSet(D) /\ Cardinality(D) <= Cardinality(E)
  BY <1>1, FS_Subset, Zenon
<1>3. Cardinality(E) \in Nat /\ Cardinality(D) \in Nat
  BY <1>2, FS_CardinalityType, Zenon
<1>4. Cardinality(E) < n
  BY DEF First
<1>5. Cardinality(D) < n
  BY <1>2, <1>3, <1>4
<1> QED BY <1>5 DEF First

\* Events are staged in order and grow old in order; they are sent after they
\* are staged, and a worker that holds an event also holds every smaller one
\* that is still waiting and was never passed over.
OrderInv ==
    /\ IsFiniteSet(staged)
    /\ topic \subseteq staged
    /\ passed \subseteq staged
    /\ old \subseteq staged
    /\ \A e \in staged, d \in Events : d < e => d \in staged
    /\ \A e \in old, d \in Events : d < e => d \in old
    /\ \A w \in Workers : batch[w] \subseteq staged
    /\ \A w \in Workers, e \in Events, d \in staged \ (topic \cup passed) :
          e \in batch[w] /\ d < e => d \in batch[w]

\* A worker adds to the topic the next event of its batch, or nothing.
LEMMA TopicStep ==
    ASSUME NEW w \in Workers, WorkerStep(w), topic' # topic
    PROVE  \E e \in batch[w] : IsNext(w, e) /\ topic' = topic \cup {e} /\ staged' = staged
BY DEF WorkerStep, Acquire, Enter, Fetch, Send, Mark, Renew, Stop, ReleaseGet, ReleaseDelete, Crash, IsNext

\* If it passes over an event in the same step, it is that one.
LEMMA SentAndPassed ==
    ASSUME NEW w \in Workers, WorkerStep(w), topic' # topic
    PROVE  \E e \in batch[w] : /\ IsNext(w, e) /\ topic' = topic \cup {e} /\ staged' = staged
                               /\ passed' \in {passed, passed \cup {e}}
BY DEF WorkerStep, Acquire, Enter, Fetch, Send, Mark, Renew, Stop, ReleaseGet, ReleaseDelete, Crash, IsNext

\* A retry worker passes over the next event of its batch.
LEMMA PassedStep ==
    ASSUME NEW w \in Workers, WorkerStep(w), passed' # passed
    PROVE  \E e \in batch[w] : /\ passed' = passed \cup {e} /\ staged' = staged
                               /\ topic' \in {topic, topic \cup {e}}
BY DEF WorkerStep, Acquire, Enter, Fetch, Send, Mark, Renew, Stop, ReleaseGet, ReleaseDelete, Crash, IsNext

\* Every step of a worker keeps its batch free of gaps.
LEMMA OrderWorker ==
    ASSUME TypeOK, SentInv, OrderInv, NEW w \in Workers, WorkerStep(w)
    PROVE  OrderInv'
<1>1. staged' = staged /\ old' = old
  BY DEF WorkerStep, Acquire, Enter, Fetch, Send, Mark, Renew, Stop, ReleaseGet, ReleaseDelete, Crash
<1>2. topic \subseteq topic' /\ topic' \subseteq staged
  <2>1. Next
    BY DEF Next
  <2>2. topic' \subseteq staged
    BY TopicStep DEF OrderInv
  <2> QED BY <2>1, <2>2, TopicGrows
<1>3. passed \subseteq passed' /\ passed' \subseteq staged
  BY PassedStep DEF OrderInv
<1>4. \/ batch'[w] \in {batch[w], {}}
      \/ batch'[w] = First(staged \ flagged, BatchLimit)
      \/ batch'[w] = First(staged \ flagged, BatchLimit) \cap old
      \/ \E x \in topic \cup passed' : batch'[w] = batch[w] \ {x}
  <2> USE DEF TypeOK, GoOn, End
  <2>1. CASE Fetch(w)
    BY <2>1 DEF Fetch, Fetched
  <2>2. ASSUME NEW x \in Events, Send(w, x)
        PROVE  batch'[w] \in {batch[w], {}} \/ (x \in passed' /\ batch'[w] = batch[w] \ {x})
    BY <2>2 DEF Send, AfterFailure
  <2>3. ASSUME NEW x \in Events, Mark(w, x)
        PROVE  batch'[w] = {} \/ (x \in topic /\ batch'[w] = batch[w] \ {x})
    BY <2>3 DEF Mark, AfterFailure, SentInv, MarkedIsSent
  <2>4. CASE Stop(w)
    BY <2>4 DEF Stop
  <2>5. CASE ReleaseGet(w) \/ ReleaseDelete(w) \/ Crash(w)
    BY <2>5 DEF ReleaseGet, ReleaseDelete, Crash
  <2>6. CASE Acquire(w) \/ Enter(w) \/ Renew(w)
    BY <2>6 DEF Acquire, Enter, Renew
  <2> QED BY <2>1, <2>2, <2>3, <2>4, <2>5, <2>6 DEF WorkerStep
<1>5. batch'[w] \subseteq staged
  BY <1>4 DEF OrderInv, First
<1>6. ASSUME NEW e \in Events, NEW d \in staged \ (topic' \cup passed'), e \in batch'[w], d < e
      PROVE  d \in batch'[w]
  <2>1. d \in staged \ (topic \cup passed) /\ d \notin flagged /\ d \in Events
    BY <1>2, <1>3, <1>6 DEF SentInv, FlaggedIsSent, TypeOK
  <2>2. CASE batch'[w] \in {batch[w], {}}
    BY <1>6, <2>1, <2>2 DEF OrderInv
  <2>3. ASSUME e \in First(staged \ flagged, BatchLimit) PROVE d \in First(staged \ flagged, BatchLimit)
    <3>1. IsFiniteSet(staged \ flagged)
      <4>1. staged \ flagged \subseteq staged
        OBVIOUS
      <4>2. IsFiniteSet(staged)
        BY DEF OrderInv
      <4> QED BY <4>1, <4>2, FS_Subset, Zenon
    <3>2. staged \ flagged \subseteq Nat /\ BatchLimit \in Nat /\ d \in staged \ flagged
      BY <2>1, EventsAreOrdered, BoundsAssumption DEF TypeOK
    <3> QED BY <1>6, <2>3, <3>1, <3>2, FirstIsInitial
  <2>4. CASE batch'[w] = First(staged \ flagged, BatchLimit)
    BY <1>6, <2>3, <2>4
  <2>5. CASE batch'[w] = First(staged \ flagged, BatchLimit) \cap old
    <3>1. e \in First(staged \ flagged, BatchLimit) /\ e \in old
      BY <1>6, <2>5
    <3>2. d \in old
      BY <1>6, <2>1, <3>1 DEF OrderInv
    <3> QED BY <2>3, <2>5, <3>1, <3>2
  <2>6. ASSUME NEW x \in topic \cup passed', batch'[w] = batch[w] \ {x} PROVE d \in batch'[w]
    <3>1. d # x
      BY <1>2, <1>6, <2>6
    <3>2. d \in batch[w]
      BY <1>6, <2>1, <2>6 DEF OrderInv
    <3> QED BY <2>6, <3>1, <3>2
  <2> QED BY <1>4, <2>2, <2>4, <2>5, <2>6
<1>7. ASSUME NEW v \in Workers
      PROVE  /\ batch'[v] \subseteq staged
             /\ \A e \in Events, d \in staged \ (topic' \cup passed') :
                   e \in batch'[v] /\ d < e => d \in batch'[v]
  <2>1. CASE v = w
    BY <1>5, <1>6, <2>1
  <2>2. CASE v # w
    <3>1. batch'[v] = batch[v]
      BY <2>2, OthersKept
    <3> QED BY <1>2, <1>3, <3>1 DEF OrderInv
  <2> QED BY <2>1, <2>2
<1> QED BY <1>1, <1>2, <1>3, <1>7 DEF OrderInv

\* So does every other step.
LEMMA OrderStep ==
    ASSUME TypeOK, SentInv, OrderInv, [Next]_vars
    PROVE  OrderInv'
<1>1. ASSUME NEW s \in Events, Stage(s) PROVE OrderInv'
  <2>1. /\ s \notin staged /\ staged' = staged \cup {s} /\ UNCHANGED <<topic, batch, passed, old>>
        /\ \A d \in Events : d < s => d \in staged
    BY <1>1 DEF Stage
  <2>2. IsFiniteSet(staged')
    <3>1. IsFiniteSet(staged)
      BY DEF OrderInv
    <3>2. IsFiniteSet(staged \cup {s})
      BY <3>1, FS_AddElement, Zenon
    <3> QED BY <2>1, <3>2
  <2>3. ASSUME NEW w \in Workers, NEW e \in Events, NEW d \in staged' \ (topic' \cup passed'),
               e \in batch'[w], d < e
        PROVE  d \in batch'[w]
    <3>1. e \in staged /\ d \in Events
      BY <2>1, <2>3 DEF OrderInv, TypeOK
    <3>2. d \in staged
      BY <2>3, <3>1 DEF OrderInv
    <3> QED BY <2>1, <2>3, <3>2 DEF OrderInv
  <2>4. ASSUME NEW e \in staged', NEW d \in Events, d < e PROVE d \in staged'
    BY <2>1, <2>4 DEF OrderInv
  <2> QED BY <2>1, <2>2, <2>3, <2>4 DEF OrderInv
<1>2. ASSUME NEW a \in Events, Age(a) PROVE OrderInv'
  <2>1. /\ a \in staged /\ old' = old \cup {a} /\ UNCHANGED <<staged, topic, batch, passed>>
        /\ \A d \in staged : d < a => d \in old
    BY <1>2 DEF Age
  <2>2. ASSUME NEW e \in old', NEW d \in Events, d < e PROVE d \in old'
    <3>1. CASE e = a
      BY <2>1, <2>2, <3>1 DEF OrderInv
    <3>2. CASE e \in old
      BY <2>1, <2>2, <3>2 DEF OrderInv
    <3> QED BY <2>1, <2>2, <3>1, <3>2
  <2> QED BY <2>1, <2>2 DEF OrderInv
<1>3. CASE UNCHANGED <<staged, topic, batch, passed, old>>
  BY <1>3 DEF OrderInv
<1> QED BY <1>1, <1>2, <1>3, OrderWorker DEF Next, LeaseExpires, vars

\* A step of the outbox is a step of Relay, or changes nothing it sees.
LEMMA StepImplementsRelay ==
    ASSUME TypeOK, OrderInv, [Next]_vars
    PROVE  [R!Next]_relayed
<1>1. CASE UNCHANGED <<staged, topic, passed>>
  BY <1>1 DEF relayed
<1>2. ASSUME NEW s \in Events, Stage(s) PROVE R!Next
  <2>1. /\ s \notin staged /\ s \notin topic /\ s \notin passed
        /\ staged' = staged \cup {s} /\ topic' = topic /\ passed' = passed
    BY <1>2 DEF Stage, OrderInv
  <2>2. relayed[s] = "none"
    BY <2>1 DEF relayed
  <2>3. relayed' = [relayed EXCEPT ![s] = "staged"]
    BY <2>1 DEF relayed
  <2>4. R!Stage(s)
    BY <2>2, <2>3 DEF R!Stage
  <2> QED BY <2>4 DEF R!Next
<1>3. ASSUME NEW w \in Workers, NEW e \in batch[w], IsNext(w, e), e \notin topic,
             topic' = topic \cup {e}, staged' = staged, passed' \in {passed, passed \cup {e}}
      PROVE  R!Next
  <2>1. e \in staged /\ e \in Events
    BY DEF OrderInv, TypeOK
  <2>2. relayed[e] \in {"staged", "passed"}
    BY <1>3, <2>1 DEF relayed
  <2>3. relayed' = [relayed EXCEPT ![e] = "published"]
    BY <1>3, <2>1 DEF relayed
  <2>4. ASSUME NEW d \in Events, d < e PROVE relayed[d] # "staged"
    <3>1. d \in staged /\ ~(e <= d)
      BY <2>1, <2>4, EventsAreOrdered DEF OrderInv
    <3>2. d \in topic \cup passed
      BY <1>3, <2>1, <2>4, <3>1 DEF OrderInv, IsNext
    <3> QED BY <3>2 DEF relayed
  <2>5. R!Publish(e)
    BY <2>2, <2>3, <2>4 DEF R!Publish
  <2> QED BY <2>1, <2>5 DEF R!Next
<1>4. ASSUME NEW w \in Workers, WorkerStep(w), topic' # topic PROVE R!Next
  <2>1. PICK e \in batch[w] : /\ IsNext(w, e) /\ topic' = topic \cup {e} /\ staged' = staged
                              /\ passed' \in {passed, passed \cup {e}}
    BY <1>4, SentAndPassed
  <2> QED BY <1>3, <1>4, <2>1
<1>5. ASSUME NEW w \in Workers, WorkerStep(w), topic' = topic, passed' # passed
      PROVE  [R!Next]_relayed
  <2>1. PICK e \in batch[w] : passed' = passed \cup {e} /\ staged' = staged
    BY <1>5, PassedStep
  <2>2. e \in staged /\ e \in Events /\ e \notin passed
    BY <1>5, <2>1 DEF OrderInv, TypeOK
  <2>3. CASE e \in topic
    BY <1>5, <2>1, <2>3 DEF relayed
  <2>4. CASE e \notin topic
    <3>1. relayed[e] = "staged"
      BY <2>2, <2>4 DEF relayed
    <3>2. relayed' = [relayed EXCEPT ![e] = "passed"]
      BY <1>5, <2>1, <2>2, <2>4 DEF relayed
    <3>3. R!Pass(e)
      BY <3>1, <3>2 DEF R!Pass
    <3> QED BY <2>2, <3>3 DEF R!Next
  <2> QED BY <2>3, <2>4
<1>6. ASSUME NEW w \in Workers, WorkerStep(w) PROVE staged' = staged
  BY <1>6 DEF WorkerStep, Acquire, Enter, Fetch, Send, Mark, Renew, Stop, ReleaseGet, ReleaseDelete, Crash
<1> QED BY <1>1, <1>2, <1>4, <1>5, <1>6 DEF Next, Age, LeaseExpires, vars

\* The outbox implements Relay, with any number of workers of both classes:
\* whatever leases lapse, calls fail and workers crash or overlap, the first
\* copy of an event precedes that of a smaller event only when the send of
\* the smaller one raised in a retry worker (process_bucket of the outbox
\* worker breaks off at a failure, that of the retry worker goes on).
THEOREM OutboxImplementsRelay == Spec => InOrder
<1>1. Init => SentInv /\ OrderInv
  <2>1. IsFiniteSet({})
    BY FS_EmptySet, Zenon
  <2> QED BY <2>1 DEF Init, SentInv, FlaggedIsSent, MarkedIsSent, OrderInv
<1>2. TypeOK /\ SentInv /\ OrderInv /\ [Next]_vars => SentInv' /\ OrderInv'
  <2>1. TypeOK /\ SentInv /\ UNCHANGED vars => SentInv'
    BY DEF vars, SentInv, FlaggedIsSent, MarkedIsSent, IsNext
  <2> QED BY <2>1, SentStep, OrderStep
<1>3. Init => R!Init
  BY DEF Init, R!Init, relayed
<1>4. TypeOK /\ OrderInv /\ [Next]_vars => [R!Next]_relayed
  BY StepImplementsRelay
<1> QED BY <1>1, <1>2, <1>3, <1>4, OutboxTypeCorrect, PTL DEF Spec, InOrder, R!Spec

-----------------------------------------------------------------------------
(***************************************************************************)
(* One key, one message, for any number of attempts under the key.         *)
(***************************************************************************)

\* Type correctness: the key's value is nothing, the reservation or the
\* response of an attempt, and every answer names an attempt (claim_key,
\* save_response, remove_lock write nothing else).
THEOREM IdempotencyTypeCorrect == KeySpec => []KeyTypeOK
<1>1. KeyInit => KeyTypeOK
  BY DEF KeyInit, KeyTypeOK, AttemptSteps
<1> USE FaultsAssumption DEF Smoothly, Mishap
<1>2. KeyTypeOK /\ [KeyNext]_keyVars => KeyTypeOK'
  <2> SUFFICES ASSUME KeyTypeOK, [KeyNext]_keyVars PROVE KeyTypeOK'
    OBVIOUS
  <2>1. ASSUME NEW a \in Attempts, Claim(a) \/ Get(a) PROVE KeyTypeOK'
    <3>1. CASE Claim(a)
      BY <3>1 DEF Claim, Step, KeyTypeOK, AttemptSteps
    <3>2. CASE Get(a)
      BY <3>2 DEF Get, Step, KeyTypeOK, AttemptSteps
    <3> QED BY <2>1, <3>1, <3>2
  <2>2. ASSUME NEW a \in Attempts, SendOnce(a) PROVE KeyTypeOK'
    BY <2>2 DEF SendOnce, Step, KeyTypeOK, AttemptSteps
  <2>3. ASSUME NEW a \in Attempts, Save(a) PROVE KeyTypeOK'
    BY <2>3 DEF Save, Step, KeyTypeOK, AttemptSteps
  <2>4. ASSUME NEW a \in Attempts, Evict(a) \/ Die(a) PROVE KeyTypeOK'
    BY <2>4 DEF Evict, Die, Step, KeyTypeOK, AttemptSteps
  <2>5. CASE Expire \/ UNCHANGED keyVars
    BY <2>5 DEF Expire, keyVars, KeyTypeOK
  <2> QED BY <2>1, <2>2, <2>3, <2>4, <2>5 DEF KeyNext
<1> QED BY <1>1, <1>2, PTL DEF KeySpec

-----------------------------------------------------------------------------
\* What is cached, or about to be, is a stored message.
StoredInv ==
    /\ entry \in Attempts => entry \in messages
    /\ \A a \in Attempts : apc[a] = "save" => a \in messages
    /\ AnswersAreStored

\* Every step of an attempt keeps cached and answered messages stored.
LEMMA StoredStep ==
    ASSUME KeyTypeOK, StoredInv, KeyNext
    PROVE  StoredInv'
<1> USE EntryValues DEF StoredInv, AnswersAreStored, KeyTypeOK, Step
<1>1. ASSUME NEW a \in Attempts, Claim(a) PROVE StoredInv'
  BY <1>1 DEF Claim
<1>2. ASSUME NEW a \in Attempts, Get(a) PROVE StoredInv'
  BY <1>2 DEF Get
<1>3. ASSUME NEW a \in Attempts, SendOnce(a) PROVE StoredInv'
  BY <1>3 DEF SendOnce
<1>4. ASSUME NEW a \in Attempts, Save(a) PROVE StoredInv'
  BY <1>4 DEF Save
<1>5. ASSUME NEW a \in Attempts, Evict(a) \/ Die(a) PROVE StoredInv'
  BY <1>5 DEF Evict, Die
<1>6. CASE Expire
  BY <1>6 DEF Expire
<1> QED BY <1>1, <1>2, <1>3, <1>4, <1>5, <1>6 DEF KeyNext

\* Whatever fails, a 202 names a stored message: save_response only runs
\* after send() returned, and a replay only reads what it saved.
THEOREM AnswersStayStored == KeySpec => []AnswersAreStored
<1>1. KeyInit => StoredInv
  BY EntryValues DEF KeyInit, StoredInv, AnswersAreStored
<1>2. KeyTypeOK /\ StoredInv /\ [KeyNext]_keyVars => StoredInv'
  <2>1. StoredInv /\ UNCHANGED keyVars => StoredInv'
    BY DEF keyVars, StoredInv, AnswersAreStored
  <2> QED BY <2>1, StoredStep
<1>3. StoredInv => AnswersAreStored
  BY DEF StoredInv
<1> QED BY <1>1, <1>2, <1>3, IdempotencyTypeCorrect, PTL DEF KeySpec

-----------------------------------------------------------------------------
\* Until something but a pod fails, the key is claimed once and kept.
Active(a) == a \in messages \/ apc[a] \in {"send", "save"}
ClaimInv ==
    /\ \A a, b \in Attempts : Active(a) /\ Active(b) => a = b
    /\ entry = "none" => \A a \in Attempts : ~Active(a) /\ apc[a] # "get"
    /\ \A a \in Attempts : apc[a] # "evict"

\* A mishap is remembered.
LEMMA MishapsKept ==
    ASSUME KeyNext
    PROVE  mishaps \subseteq mishaps'
BY DEF KeyNext, Claim, Get, SendOnce, Save, Evict, Die, Expire, Smoothly, Mishap

\* Only the attempt that won the SET NX gets to send().
LEMMA ClaimStep ==
    ASSUME mishaps' = {}, KeyTypeOK, ClaimInv, KeyNext
    PROVE  ClaimInv'
<1>0. ASSUME NEW x, Mishap(x) PROVE FALSE
  BY <1>0 DEF Mishap
<1> USE <1>0, EntryValues DEF ClaimInv, Active, KeyTypeOK, Step
<1>1. ASSUME NEW a \in Attempts, Claim(a) PROVE ClaimInv'
  BY <1>1 DEF Claim
<1>2. ASSUME NEW a \in Attempts, Get(a) PROVE ClaimInv'
  BY <1>2 DEF Get
<1>3. ASSUME NEW a \in Attempts, SendOnce(a) PROVE ClaimInv'
  BY <1>3 DEF SendOnce
<1>4. ASSUME NEW a \in Attempts, Save(a) PROVE ClaimInv'
  BY <1>4 DEF Save
<1>5. ASSUME NEW a \in Attempts, Die(a) PROVE ClaimInv'
  BY <1>5 DEF Die
<1> QED BY <1>1, <1>2, <1>3, <1>4, <1>5 DEF KeyNext, Evict, Expire

\* Until a send raises, Redis fails or the key expires, any number of
\* concurrent and repeated requests under a key create one message, wherever
\* pods die (claim_key, save_response).
THEOREM OneMessagePerKey == KeySpec => []AtMostOneMessage
<1> DEFINE Inv == mishaps = {} => ClaimInv
<1>1. KeyInit => Inv
  BY DEF KeyInit, ClaimInv, Active
<1>2. KeyTypeOK /\ Inv /\ [KeyNext]_keyVars => Inv'
  <2>1. ClaimInv /\ UNCHANGED keyVars => ClaimInv'
    BY DEF keyVars, ClaimInv, Active
  <2>2. UNCHANGED keyVars => mishaps' = mishaps
    BY DEF keyVars
  <2> QED BY <2>1, <2>2, ClaimStep, MishapsKept
<1>3. KeyTypeOK /\ Inv => AtMostOneMessage
  BY DEF KeyTypeOK, ClaimInv, Active, AtMostOneMessage
<1> QED BY <1>1, <1>2, <1>3, IdempotencyTypeCorrect, PTL DEF KeySpec

\* Under the same conditions all accepted requests get the same message.
THEOREM OneAnswerPerKey == KeySpec => []AnswersAgree
<1>1. AtMostOneMessage /\ AnswersAreStored => AnswersAgree
  BY DEF AtMostOneMessage, AnswersAreStored, AnswersAgree
<1> QED BY <1>1, OneMessagePerKey, AnswersStayStored, PTL
=============================================================================
