---------------------------- MODULE ExportProofs ----------------------------
(***************************************************************************)
(* Theorems about Export, for any number of jobs, clients, workers,        *)
(* messages, attempts and faults: a file never goes past the snapshot its  *)
(* job was made for, and a job that offers a download has its object.      *)
(***************************************************************************)
EXTENDS Export, FiniteSetTheorems, WellFoundedInduction, TLAPS

-----------------------------------------------------------------------------
(* The inductive invariant. *)

Busy(w) == wpc[w] # "idle"

Typed ==
    /\ TypeOK
    /\ \A w \in Workers : IF Busy(w) THEN wjob[w] \in Jobs ELSE wfile[w] = {}
    /\ spc # "idle" => sjob \in Jobs

\* Nobody works on a job that has no row.  Until a lease of a job lapses, one
\* call at a time works on it, the row is its own, and what it is about to
\* publish is stored.
Owned ==
    /\ \A j \in Jobs, w \in Workers : job[j].status = "absent" /\ Busy(w) => wjob[w] # j
    /\ \A j \in Jobs \ lapsed, v, w \in Workers :
         Busy(v) /\ Busy(w) /\ wjob[v] = j /\ wjob[w] = j => v = w
    /\ \A j \in Jobs \ lapsed, w \in Workers :
         Busy(w) /\ wjob[w] = j => /\ job[j].status = "processing" /\ job[j].lease
                                   /\ wpc[w] = "publish" => object[j] # NoFile

\* An object grows old only under a settled job; what the sweeper has chosen
\* stays due until it is done.
Swept ==
    /\ \A j \in stale : object[j] # NoFile /\ job[j].status \notin {"pending", "processing"}
    /\ spc \in {"erase", "expire"} =>
         job[sjob].expired /\ job[sjob].status \in {"ready", "expired"}
    /\ spc = "remove" => \/ job[sjob].status \in {"failed", "expired"}
                         \/ job[sjob].status = "absent" /\ object[sjob] # NoFile

\* A snapshot names a message that was there; as long as it was not deleted,
\* no file made for it goes further.
Marked(mark) == mark.msg # 0 => source[mark.msg] # "absent"
Covers(mark, file) ==
    mark.msg # 0 /\ source[mark.msg] # "deleted" => \A m \in file : m <= mark.msg

Within ==
    /\ \A c \in Clients : Marked(cmark[c])
    /\ \A j \in Jobs : Marked(job[j].snapshot) /\ Covers(job[j].snapshot, object[j])
    /\ \A w \in Workers : Busy(w) => Covers(job[wjob[w]].snapshot, wfile[w])

Inv == Typed /\ Owned /\ Swept /\ Within /\ ReadyHasObject

-----------------------------------------------------------------------------
(* Lemmas about the operators. *)

\* The limits are numbers.
LEMMA Limits ==
    /\ MaxMessages \in Nat /\ MaxAttempts \in Nat /\ MaxAttempts > 0
    /\ MaxLive \in Nat /\ MaxFaults \in Nat
BY BoundsAssumption

\* A nonempty set of messages has a newest one.
LEMMA NewestExists ==
    ASSUME NEW S \in SUBSET Messages, S # {}
    PROVE  Max(S) \in S
<1> DEFINE R == {ss \in Nat \X Nat : ss[1] < ss[2]}
           T == {MaxMessages - m : m \in S}
<1>1. T \subseteq Nat /\ T # {}
  <2>1. \A m \in S : MaxMessages - m \in Nat
    BY Limits DEF Messages
  <2>2. QED  BY <2>1
<1>2. \A x, y \in Nat : y < x => <<y, x>> \in R
  OBVIOUS
<1>3. IsWellFoundedOn(R, Nat)
  BY NatLessThanWellFounded DEF OpToRel
<1> HIDE DEF R, T
<1>4. PICK x \in T : \A y \in T : ~(<<y, x>> \in R)
  BY <1>1, <1>3, WFMin
<1>5. ASSUME NEW y \in T PROVE y >= x
  <2>1. x \in Nat /\ y \in Nat /\ ~(<<y, x>> \in R)
    BY <1>1, <1>4
  <2>2. ~(y < x)
    BY <1>2, <2>1
  <2>3. QED  BY <2>1, <2>2
<1>6. PICK m \in S : x = MaxMessages - m
  BY DEF T
<1>7. \A n \in S : m >= n
  BY <1>5, <1>6, Limits DEF T, Messages
<1>8. QED  BY <1>6, <1>7 DEF Max

\* The snapshot a client takes.
LEMMA MarkerType ==
    ASSUME TypeOK
    PROVE  Marker \in Markers /\ Marked(Marker)
<1>1. Visible \in SUBSET Messages /\ \A m \in Visible : source[m] \in {"pending", "sent"}
  BY DEF Visible
<1>2. CASE Visible = {}
  <2>1. Marker = [msg |-> 0, status |-> "none"]
    BY <1>2 DEF Marker
  <2>2. QED  BY <2>1, Limits DEF Markers, Marked
<1>3. CASE Visible # {}
  <2>1. Max(Visible) \in Visible
    BY <1>1, <1>3, NewestExists
  <2>2. Marker = [msg |-> Max(Visible), status |-> source[Max(Visible)]]
    BY <1>3 DEF Marker
  <2> DEFINE n == Max(Visible)
  <2> HIDE DEF n
  <2>3. n \in Messages /\ source[n] \in {"pending", "sent"}
    BY <1>1, <2>1 DEF n
  <2>4. Marker = [msg |-> n, status |-> source[n]]
    BY <2>2 DEF n
  <2>5. QED  BY <2>3, <2>4, Limits DEF Markers, Marked, Messages
<1>4. QED  BY <1>2, <1>3

\* The row of no job, and no object.
LEMMA Nothing ==
    /\ NoRow \in Row /\ NoRow.status = "absent" /\ NoRow.snapshot.msg = 0
    /\ NoRow.snapshot \in Markers
    /\ NoFile \notin SUBSET Messages
<1>1. NoRow.snapshot \in Markers /\ NoRow.snapshot.msg = 0
  BY Limits DEF NoRow, Markers
<1>2. NoRow \in Row /\ NoRow.status = "absent"
  BY <1>1, Limits DEF NoRow, Row
<1>3. NoFile \notin SUBSET Messages
  BY Limits DEF NoFile, Messages
<1>4. QED  BY <1>1, <1>2, <1>3

\* A row with another status, lease or expiry is a row of the same snapshot.
LEMMA Rows ==
    ASSUME NEW r \in Row, NEW b \in BOOLEAN,
           NEW s \in {"absent", "pending", "processing", "ready", "failed", "expired"}
    PROVE  /\ [r EXCEPT !.status = s] \in Row /\ [r EXCEPT !.status = s].status = s
           /\ [r EXCEPT !.status = s].snapshot = r.snapshot
           /\ [r EXCEPT !.status = s].lease = r.lease
           /\ [r EXCEPT !.status = s].expired = r.expired
           /\ [r EXCEPT !.lease = b] \in Row /\ [r EXCEPT !.lease = b].status = r.status
           /\ [r EXCEPT !.lease = b].snapshot = r.snapshot
           /\ [r EXCEPT !.lease = b].expired = r.expired
           /\ [r EXCEPT !.expired = b] \in Row /\ [r EXCEPT !.expired = b].status = r.status
           /\ [r EXCEPT !.expired = b].snapshot = r.snapshot
           /\ [r EXCEPT !.expired = b].lease = r.lease
           /\ [r EXCEPT !.expired = b].expired = b
           /\ [r EXCEPT !.status = s, !.lease = b] \in Row
           /\ [r EXCEPT !.status = s, !.lease = b].status = s
           /\ [r EXCEPT !.status = s, !.lease = b].lease = b
           /\ [r EXCEPT !.status = s, !.lease = b].snapshot = r.snapshot
BY DEF Row

\* A counted fault stays within its bound.
LEMMA FaultTyped ==
    ASSUME TypeOK, Fault \/ faults' = faults
    PROVE  faults' \in 0..MaxFaults
BY Limits DEF TypeOK, Fault

-----------------------------------------------------------------------------
\* The initial state.
LEMMA InitInv == Init => Inv
<1> SUFFICES ASSUME Init PROVE Inv
  OBVIOUS
<1>1. /\ job \in [Jobs -> Row] /\ \A j \in Jobs : job[j] = NoRow
      /\ object \in [Jobs -> (SUBSET Messages) \cup {NoFile}] /\ \A j \in Jobs : object[j] = NoFile
      /\ cmark \in [Clients -> Markers] /\ \A c \in Clients : cmark[c] = NoRow.snapshot
  BY Nothing DEF Init
<1>2. /\ wpc = [w \in Workers |-> "idle"] /\ \A w \in Workers : ~Busy(w)
      /\ wfile = [w \in Workers |-> {}]
      /\ spc = "idle" /\ stale = {}
  BY DEF Init, Busy
<1>3. TypeOK
  BY <1>1, <1>2, Limits DEF Init, TypeOK
<1>4. Typed
  BY <1>2, <1>3 DEF Typed
<1>5. Owned /\ Swept
  BY <1>2 DEF Owned, Swept
<1>6. Within
  BY <1>1, <1>2, Nothing DEF Within, Marked, Covers
<1>7. ReadyHasObject
  BY <1>1, Nothing DEF ReadyHasObject
<1>8. QED  BY <1>4, <1>5, <1>6, <1>7 DEF Inv
-----------------------------------------------------------------------------
(* The kinds of steps. *)

\* The conversation goes on: no message disappears but by deletion, and a
\* deleted one does not come back.
LEMMA SourceInv ==
    ASSUME Inv,
           source' \in [Messages -> {"absent", "pending", "sent", "deleted"}],
           exists' \in BOOLEAN,
           \A m \in Messages : source[m] # "absent" => source'[m] # "absent",
           \A m \in Messages : source[m] = "deleted" => source'[m] = "deleted",
           UNCHANGED <<job, object, stale, workerVars, clientVars, sweeperVars, faults, lapsed>>
    PROVE  Inv'
<1>1. /\ UNCHANGED <<job, object, stale, wpc, wjob, wlast, wfile, cpc, cmark, spc, sjob>>
      /\ UNCHANGED <<faults, lapsed>>
  BY DEF workerVars, clientVars, sweeperVars
<1>2. TypeOK /\ Typed /\ Owned /\ Swept /\ Within /\ ReadyHasObject
  BY DEF Inv, Typed
<1>3. Typed' /\ Owned' /\ Swept' /\ ReadyHasObject'
  BY <1>1, <1>2 DEF Typed, TypeOK, Owned, Swept, ReadyHasObject, Busy
<1>4. ASSUME NEW mark \in Markers PROVE mark.msg # 0 => mark.msg \in Messages
  BY Limits DEF Markers, Messages
<1>5. ASSUME NEW mark \in Markers PROVE Marked(mark) => Marked(mark)'
  BY <1>4 DEF Marked
<1>6. ASSUME NEW mark \in Markers, NEW file PROVE Covers(mark, file) => Covers(mark, file)'
  BY <1>4 DEF Covers
<1>7. \A j \in Jobs : job[j].snapshot \in Markers
  BY <1>2 DEF TypeOK, Row
<1>8. \A c \in Clients : cmark[c] \in Markers
  BY <1>2 DEF TypeOK
<1>9. \A w \in Workers : Busy(w) => wjob[w] \in Jobs
  BY <1>2 DEF Typed
<1>10. Within'
  <2>1. \A c \in Clients : Marked(cmark[c])'
    BY <1>1, <1>2, <1>5, <1>8 DEF Within, Marked
  <2>2. \A j \in Jobs : Marked(job[j].snapshot)' /\ Covers(job[j].snapshot, object[j])'
    BY <1>1, <1>2, <1>5, <1>6, <1>7 DEF Within, Marked, Covers
  <2>3. \A w \in Workers : Busy(w)' => Covers(job[wjob[w]].snapshot, wfile[w])'
    BY <1>1, <1>2, <1>6, <1>7, <1>9 DEF Within, Covers, Busy
  <2>4. QED  BY <2>1, <2>2, <2>3 DEF Within
<1>11. QED  BY <1>3, <1>10 DEF Inv

\* A row is changed by nobody who works on it: a live one may end, a ready one
\* may expire.
LEMMA RowInv ==
    ASSUME Inv, job' \in [Jobs -> Row],
           \A j \in Jobs :
              /\ job'[j].snapshot = job[j].snapshot
              /\ job'[j].status = "absent" <=> job[j].status = "absent"
              /\ job'[j].status \in {"pending", "processing"} => job'[j].status = job[j].status
              /\ job'[j].status = "ready" => job[j].status = "ready"
              /\ job[j].status \in {"failed", "expired"} => job'[j].status = job[j].status
              /\ job[j].status = "ready" => job'[j].status \in {"ready", "expired"}
              /\ job[j].expired => job'[j].expired,
           \A j \in Jobs \ lapsed', w \in Workers :
              Busy(w) /\ wjob[w] = j => job'[j].status = job[j].status /\ job'[j].lease,
           UNCHANGED <<sourceVars, object, stale, workerVars, clientVars>>,
           UNCHANGED <<spc, sjob>> \/ (spc' = "idle" /\ sjob' = NoJob),
           faults' \in 0..MaxFaults,
           lapsed \subseteq lapsed', lapsed' \subseteq Jobs
    PROVE  Inv'
<1>1. UNCHANGED <<source, exists, object, stale, wpc, wjob, wlast, wfile, cpc, cmark>>
  BY DEF workerVars, clientVars, sourceVars
<1>2. TypeOK /\ Typed /\ Owned /\ Swept /\ Within /\ ReadyHasObject
  BY DEF Inv, Typed
<1>3. TypeOK'
  BY <1>1, <1>2 DEF TypeOK
<1>4. Typed'
  BY <1>1, <1>2, <1>3 DEF Typed, Busy
<1>5. Owned'
  BY <1>1, <1>2 DEF Owned, Busy
<1>6. Swept'
  <2>1. stale \subseteq Jobs
    BY <1>2 DEF TypeOK
  <2>2. \A j \in stale : job'[j].status \notin {"pending", "processing"}
    BY <1>2, <2>1 DEF Swept
  <2>3. CASE spc' = "idle"
    BY <1>1, <1>2, <2>2, <2>3 DEF Swept
  <2>4. CASE UNCHANGED <<spc, sjob>> /\ spc # "idle"
    <3>1. sjob \in Jobs
      BY <1>2, <2>4 DEF Typed
    <3>2. QED  BY <1>1, <1>2, <2>2, <2>4, <3>1 DEF Swept
  <2>5. QED  BY <2>3, <2>4
<1>7. Within'
  <2>1. \A w \in Workers : Busy(w) => job'[wjob[w]].snapshot = job[wjob[w]].snapshot
    BY <1>2 DEF Typed
  <2>2. QED  BY <1>1, <1>2, <2>1 DEF Within, Marked, Covers, Busy
<1>8. ReadyHasObject'
  BY <1>1, <1>2 DEF ReadyHasObject
<1>9. QED  BY <1>4, <1>5, <1>6, <1>7, <1>8 DEF Inv

\* A call goes on: it may have collected its file, or stored it.
LEMMA MoveInv ==
    ASSUME Inv, NEW w \in Workers, Busy(w),
           NEW s \in {"collect", "put", "confirm", "publish", "discard", "fail", "retry"},
           wpc' = [wpc EXCEPT ![w] = s],
           NEW file \in SUBSET Messages,
           Covers(job[wjob[w]].snapshot, file),
           wfile' = [wfile EXCEPT ![w] = file],
           \/ UNCHANGED <<object, stale>>
           \/ object' = [object EXCEPT ![wjob[w]] = wfile[w]] /\ stale' \subseteq stale,
           s = "publish" => object[wjob[w]] # NoFile,
           UNCHANGED <<sourceVars, job, wjob, wlast, clientVars, sweeperVars, lapsed>>,
           faults' \in 0..MaxFaults
    PROVE  Inv'
<1>1. UNCHANGED <<source, exists, job, wjob, wlast, cpc, cmark, spc, sjob, lapsed>>
  BY DEF clientVars, sourceVars, sweeperVars
<1>2. TypeOK /\ Typed /\ Owned /\ Swept /\ Within /\ ReadyHasObject
  BY DEF Inv, Typed
<1>3. /\ wpc' \in [Workers -> {"idle", "collect", "put", "confirm", "publish", "discard",
                            "fail", "retry"}]
      /\ wfile' \in [Workers -> SUBSET Messages]
      /\ wpc'[w] = s /\ wfile'[w] = file
      /\ \A v \in Workers : v # w => wpc'[v] = wpc[v] /\ wfile'[v] = wfile[v]
      /\ \A v \in Workers : Busy(v)' <=> Busy(v)
  BY <1>2 DEF TypeOK, Busy
<1>4. wjob[w] \in Jobs /\ wfile[w] \in SUBSET Messages
  BY <1>2 DEF TypeOK, Typed
<1>5. /\ object' \in [Jobs -> (SUBSET Messages) \cup {NoFile}]
      /\ stale' \subseteq stale
      /\ \A j \in Jobs : object[j] # NoFile => object'[j] # NoFile
      /\ \A j \in Jobs : object'[j] = object[j] \/ (j = wjob[w] /\ object'[j] = wfile[w])
  BY <1>2, <1>4, Nothing DEF TypeOK
<1>6. TypeOK'
  BY <1>1, <1>2, <1>3, <1>5 DEF TypeOK
<1>7. Typed'
  BY <1>1, <1>2, <1>3, <1>4, <1>6 DEF Typed, Busy
<1>8. Owned'
  BY <1>1, <1>2, <1>3, <1>4, <1>5 DEF Owned
<1>9. Swept'
  BY <1>1, <1>2, <1>5 DEF Swept, Typed, TypeOK
<1>10. Within'
  <2>1. ASSUME NEW j \in Jobs PROVE Covers(job[j].snapshot, object'[j])
    BY <1>2, <1>5 DEF Within
  <2>2. ASSUME NEW v \in Workers, Busy(v)' PROVE Covers(job[wjob[v]].snapshot, wfile'[v])
    BY <1>2, <1>3, <2>2 DEF Within
  <2>3. QED  BY <1>1, <1>2, <2>1, <2>2 DEF Within, Marked, Covers
<1>11. ReadyHasObject'
  BY <1>1, <1>2, <1>5 DEF ReadyHasObject
<1>12. QED  BY <1>7, <1>8, <1>9, <1>10, <1>11 DEF Inv

\* A call ends: it leaves the row alone, ends the attempt in it, or removes the
\* object of a row that is not its own any more.
LEMMA ReturnInv ==
    ASSUME Inv, NEW w \in Workers, Busy(w), Return(w),
           NEW r \in Row,
           \/ job' = job
           \/ /\ job' = [job EXCEPT ![wjob[w]] = r]
              /\ job[wjob[w]].status \in {"pending", "processing"}
              /\ r.snapshot = job[wjob[w]].snapshot
              /\ r.status \in {"pending", "ready", "failed"}
              /\ r.status = "ready" => wpc[w] = "publish",
           \/ UNCHANGED <<object, stale>>
           \/ /\ object' = [object EXCEPT ![wjob[w]] = NoFile]
              /\ stale' = stale \ {wjob[w]}
              /\ job' = job,
           UNCHANGED <<sourceVars, clientVars, sweeperVars, lapsed>>,
           faults' \in 0..MaxFaults
    PROVE  Inv'
<1> DEFINE j == wjob[w]
<1>1. UNCHANGED <<source, exists, cpc, cmark, spc, sjob, lapsed>>
  BY DEF clientVars, sourceVars, sweeperVars
<1>2. TypeOK /\ Typed /\ Owned /\ Swept /\ Within /\ ReadyHasObject
  BY DEF Inv, Typed
<1>3. /\ wpc' \in [Workers -> {"idle", "collect", "put", "confirm", "publish", "discard",
                            "fail", "retry"}]
      /\ wjob' \in [Workers -> Jobs \cup {NoJob}]
      /\ wlast' \in [Workers -> BOOLEAN]
      /\ wfile' \in [Workers -> SUBSET Messages]
      /\ ~Busy(w)' /\ wfile'[w] = {}
      /\ \A v \in Workers : v # w => wpc'[v] = wpc[v] /\ wjob'[v] = wjob[v] /\ wfile'[v] = wfile[v]
      /\ \A v \in Workers : Busy(v)' => v # w /\ Busy(v)
  BY <1>2 DEF TypeOK, Busy, Return, Goto
<1>4. j \in Jobs
  BY <1>2 DEF Typed
<1>5. /\ job' \in [Jobs -> Row]
      /\ \A k \in Jobs : k # j => job'[k] = job[k]
      /\ job'[j] = job[j] \/ /\ job[j].status \in {"pending", "processing"}
                             /\ job'[j].snapshot = job[j].snapshot
                             /\ job'[j].status \in {"pending", "ready", "failed"}
                             /\ job'[j].status = "ready" => wpc[w] = "publish"
  BY <1>2, <1>4 DEF TypeOK
<1>o. /\ object' \in [Jobs -> (SUBSET Messages) \cup {NoFile}]
      /\ stale' \subseteq stale
      /\ \A k \in Jobs : k # j => object'[k] = object[k]
      /\ object'[j] = object[j] \/ (object'[j] = NoFile /\ j \notin stale' /\ job' = job)
  BY <1>2, <1>4 DEF TypeOK
<1> HIDE DEF j
<1>6. TypeOK'
  BY <1>1, <1>2, <1>3, <1>5, <1>o DEF TypeOK
<1>7. Typed'
  BY <1>1, <1>2, <1>3, <1>6 DEF Typed, Busy
<1>8. Owned'
  <2>1. \A k \in Jobs, v \in Workers : job'[k].status = "absent" /\ Busy(v)' => wjob'[v] # k
    BY <1>2, <1>3, <1>5 DEF Owned
  <2>2. \A k \in Jobs \ lapsed, u, v \in Workers :
           Busy(u)' /\ Busy(v)' /\ wjob'[u] = k /\ wjob'[v] = k => u = v
    BY <1>2, <1>3 DEF Owned
  <2>3. ASSUME NEW k \in Jobs \ lapsed, NEW v \in Workers, Busy(v)', wjob'[v] = k
        PROVE  /\ job'[k].status = "processing" /\ job'[k].lease
               /\ wpc'[v] = "publish" => object'[k] # NoFile
    <3>1. k # j
      BY <1>2, <1>3, <2>3 DEF Owned, j
    <3>2. QED  BY <1>2, <1>3, <1>5, <1>o, <2>3, <3>1 DEF Owned
  <2>4. QED  BY <1>1, <2>1, <2>2, <2>3 DEF Owned
<1>9. Swept'
  <2>1. \A k \in stale' : object'[k] # NoFile /\ job'[k].status \notin {"pending", "processing"}
    BY <1>2, <1>4, <1>5, <1>o DEF Swept, TypeOK
  <2>2. spc # "idle" => sjob # j \/ job'[j] = job[j]
    BY <1>2, <1>4, <1>5 DEF Swept, TypeOK
  <2>3. spc # "idle" => job'[sjob] = job[sjob]
    BY <1>2, <1>5, <2>2 DEF Typed
  <2>4. spc \in {"idle", "erase", "expire", "remove"}
    BY <1>2 DEF TypeOK
  <2>5. spc = "remove" /\ job[sjob].status = "absent" => object'[sjob] = object[sjob]
    BY <1>2, <1>4, <1>o DEF Owned, Typed, j
  <2>6. QED  BY <1>1, <1>2, <2>1, <2>3, <2>4, <2>5 DEF Swept
<1>10. Within'
  <2>1. \A k \in Jobs : job'[k].snapshot = job[k].snapshot
    BY <1>5
  <2>2. \A v \in Workers : Busy(v) => wjob[v] \in Jobs
    BY <1>2 DEF Typed
  <2>3. ASSUME NEW v \in Workers, Busy(v)' PROVE Covers(job'[wjob'[v]].snapshot, wfile'[v])
    BY <1>2, <1>3, <2>1, <2>2, <2>3 DEF Within
  <2>4. job[j].snapshot \in Markers
    BY <1>2, <1>4 DEF TypeOK, Row
  <2>5. Covers(job[j].snapshot, NoFile)
    BY <2>4, Limits DEF Covers, NoFile, Markers
  <2>6. \A k \in Jobs : Covers(job[k].snapshot, object'[k])
    BY <1>2, <1>o, <2>5 DEF Within
  <2>7. QED  BY <1>1, <1>2, <2>1, <2>3, <2>6 DEF Within, Marked, Covers
<1>11. ReadyHasObject'
  <2>1. j \notin lapsed /\ wpc[w] = "publish" => object[j] # NoFile
    BY <1>2, <1>4 DEF Owned, Busy, j
  <2>2. j \notin lapsed => job[j].status = "processing"
    BY <1>2, <1>4 DEF Owned, j
  <2>3. QED  BY <1>1, <1>2, <1>5, <1>o, <2>1, <2>2 DEF ReadyHasObject
<1>12. QED  BY <1>7, <1>8, <1>9, <1>10, <1>11 DEF Inv
\* An object is removed that no row offers and no call is about to publish.
LEMMA RemoveInv ==
    ASSUME Inv, NEW j \in Jobs,
           object' = [object EXCEPT ![j] = NoFile], stale' = stale \ {j},
           j \in lapsed \/ /\ ~(job[j].status = "ready" /\ ~job[j].expired)
                           /\ \A w \in Workers : ~(Busy(w) /\ wjob[w] = j /\ wpc[w] = "publish"),
           UNCHANGED <<sourceVars, job, workerVars, clientVars, faults, lapsed>>,
           \/ /\ UNCHANGED <<spc, sjob>>
              /\ spc = "remove" /\ sjob = j => job[j].status # "absent"
           \/ spc' = "expire" /\ spc = "erase" /\ sjob' = sjob
           \/ spc' = "idle" /\ sjob' = NoJob
    PROVE  Inv'
<1>1. UNCHANGED <<source, exists, job, wpc, wjob, wlast, wfile, cpc, cmark, faults, lapsed>>
  BY DEF workerVars, clientVars, sourceVars
<1>2. TypeOK /\ Typed /\ Owned /\ Swept /\ Within /\ ReadyHasObject
  BY DEF Inv, Typed
<1>3. /\ object' \in [Jobs -> (SUBSET Messages) \cup {NoFile}]
      /\ object'[j] = NoFile
      /\ \A k \in Jobs : k # j => object'[k] = object[k]
  BY <1>2 DEF TypeOK
<1>4. TypeOK'
  BY <1>1, <1>2, <1>3 DEF TypeOK
<1>5. Typed'
  BY <1>1, <1>2, <1>4 DEF Typed, Busy
<1>6. Owned'
  BY <1>1, <1>2, <1>3 DEF Owned, Busy
<1>7. Swept'
  <2>1. \A k \in stale' : object'[k] # NoFile /\ job[k].status \notin {"pending", "processing"}
    BY <1>2, <1>3 DEF Swept, TypeOK
  <2>2. spc # "idle" => sjob \in Jobs
    BY <1>2 DEF Typed
  <2>3. QED  BY <1>1, <1>2, <1>3, <2>1, <2>2 DEF Swept
<1>8. Within'
  <2>1. ASSUME NEW mark \in Markers PROVE Covers(mark, NoFile)
    BY Limits DEF Covers, NoFile, Markers
  <2>2. job[j].snapshot \in Markers
    BY <1>2 DEF TypeOK, Row
  <2>3. \A k \in Jobs : Covers(job[k].snapshot, object'[k])
    BY <1>2, <1>3, <2>1, <2>2 DEF Within
  <2>4. QED  BY <1>1, <1>2, <2>3 DEF Within, Marked, Covers, Busy
<1>9. ReadyHasObject'
  BY <1>1, <1>2, <1>3 DEF ReadyHasObject
<1>10. QED  BY <1>5, <1>6, <1>7, <1>8, <1>9 DEF Inv

\* A call takes a row: one that nobody has taken, until a lease lapses.
LEMMA ClaimInv ==
    ASSUME Inv, NEW w \in Workers, NEW j \in Jobs, Claim(w, j)
    PROVE  Inv'
<1> DEFINE r == [job[j] EXCEPT !.status = "processing", !.attempts = @ + 1, !.lease = TRUE]
<1>1. UNCHANGED <<source, exists, object, stale, wfile, cpc, cmark, spc, sjob, faults, lapsed>>
  BY DEF Claim, clientVars, sourceVars, sweeperVars
<1>2. TypeOK /\ Typed /\ Owned /\ Swept /\ Within /\ ReadyHasObject
  BY DEF Inv, Typed
<1>3. /\ ~Busy(w) /\ job[j].status \in {"pending", "processing"} /\ ~job[j].lease
      /\ job[j].attempts + 1 \in 0..MaxAttempts
  BY <1>2, Limits DEF Claim, Busy, Unfinished, TypeOK, Row
<1>4. /\ r \in Row /\ r.status = "processing" /\ r.lease /\ r.snapshot = job[j].snapshot
  BY <1>2, <1>3 DEF TypeOK, Row
<1>5. /\ wpc' \in [Workers -> {"idle", "collect", "put", "confirm", "publish", "discard",
                            "fail", "retry"}]
      /\ wjob' \in [Workers -> Jobs \cup {NoJob}]
      /\ wlast' \in [Workers -> BOOLEAN]
      /\ wpc'[w] = "collect" /\ wjob'[w] = j
      /\ \A v \in Workers : v # w => wpc'[v] = wpc[v] /\ wjob'[v] = wjob[v]
      /\ \A v \in Workers : Busy(v)' <=> v = w \/ Busy(v)
  <2>1. (job[j].attempts + 1 >= MaxAttempts) \in BOOLEAN
    OBVIOUS
  <2>2. QED  BY <1>2, <2>1 DEF TypeOK, Busy, Claim, Goto
<1>6. /\ job' \in [Jobs -> Row] /\ job'[j] = r
      /\ \A k \in Jobs : k # j => job'[k] = job[k]
  <2>1. job' = [job EXCEPT ![j] = r]
    BY <1>2 DEF Claim, TypeOK
  <2>2. QED  BY <1>2, <1>4, <2>1 DEF TypeOK
<1> HIDE DEF r
<1>7. TypeOK'
  BY <1>1, <1>2, <1>5, <1>6 DEF TypeOK
<1>8. Typed'
  BY <1>1, <1>2, <1>5, <1>7 DEF Typed, Busy
<1>9. j \notin lapsed => \A v \in Workers : Busy(v) => wjob[v] # j
  BY <1>2, <1>3 DEF Owned
<1>10. Owned'
  BY <1>1, <1>2, <1>3, <1>4, <1>5, <1>6, <1>9 DEF Owned
<1>11. Swept'
  <2>1. j \notin stale /\ (spc # "idle" => sjob # j)
    BY <1>2, <1>3 DEF Swept, TypeOK
  <2>2. spc # "idle" => job'[sjob] = job[sjob]
    BY <1>2, <1>6, <2>1 DEF Typed
  <2>3. \A k \in stale : job'[k] = job[k]
    BY <1>2, <1>6, <2>1 DEF TypeOK
  <2>4. spc \in {"idle", "erase", "expire", "remove"}
    BY <1>2 DEF TypeOK
  <2>5. QED  BY <1>1, <1>2, <2>2, <2>3, <2>4 DEF Swept
<1>12. Within'
  <2>1. \A k \in Jobs : job'[k].snapshot = job[k].snapshot
    BY <1>4, <1>6
  <2>2. \A v \in Workers : Busy(v)' => wjob'[v] \in Jobs
    BY <1>8 DEF Typed
  <2>3. wfile[w] = {}
    BY <1>2, <1>3 DEF Typed
  <2>4. Covers(job[j].snapshot, wfile[w])
    BY <2>3 DEF Covers
  <2>5. ASSUME NEW v \in Workers, Busy(v)' PROVE Covers(job'[wjob'[v]].snapshot, wfile[v])
    BY <1>2, <1>5, <2>1, <2>2, <2>4, <2>5 DEF Within
  <2>6. QED  BY <1>1, <1>2, <2>1, <2>5 DEF Within, Marked, Covers
<1>13. ReadyHasObject'
  BY <1>1, <1>2, <1>4, <1>6 DEF ReadyHasObject
<1>14. QED  BY <1>8, <1>10, <1>11, <1>12, <1>13 DEF Inv

\* A new job takes an id that has neither a row nor an object.
LEMMA InsertInv ==
    ASSUME Inv, NEW c \in Clients, Insert(c)
    PROVE  Inv'
<1>1. TypeOK /\ Typed /\ Owned /\ Swept /\ Within /\ ReadyHasObject
  BY DEF Inv, Typed
<1>2. UNCHANGED <<source, exists, object, stale, wpc, wjob, wlast, wfile, spc, sjob, faults>>
  BY DEF Insert, sourceVars, workerVars, sweeperVars
<1>3. /\ cpc' \in [Clients -> {"idle", "check", "insert"}] /\ cmark' \in [Clients -> Markers]
      /\ \A d \in Clients : Marked(cmark'[d])
  <2>1. cpc' = [cpc EXCEPT ![c] = "idle"] /\ cmark' = [cmark EXCEPT ![c] = NoRow.snapshot]
    BY DEF Insert, Respond
  <2>2. Marked(NoRow.snapshot)
    BY Nothing DEF Marked
  <2>3. QED  BY <1>1, <2>1, <2>2, Nothing DEF TypeOK, Within
<1>4. CASE UNCHANGED <<job, lapsed>>
  <2>1. TypeOK'
    BY <1>1, <1>2, <1>3, <1>4 DEF TypeOK
  <2>2. Typed' /\ Owned' /\ Swept' /\ ReadyHasObject'
    BY <1>1, <1>2, <1>4, <2>1 DEF Typed, Owned, Swept, ReadyHasObject, Busy
  <2>3. Within'
    BY <1>1, <1>2, <1>3, <1>4 DEF Within, Marked, Covers, Busy
  <2>4. QED  BY <2>2, <2>3 DEF Inv
<1>5. CASE ~UNCHANGED <<job, lapsed>>
  <2> DEFINE r == [NoRow EXCEPT !.status = "pending", !.snapshot = cmark[c]]
  <2>1. PICK new \in Jobs :
           /\ job[new].status = "absent" /\ object[new] = NoFile
           /\ job' = [j \in Jobs |->
                  IF j = new THEN r
                  ELSE IF j \in Over(cmark[c]) THEN [job[j] EXCEPT !.status = "expired"]
                  ELSE job[j]]
           /\ lapsed' = lapsed \ {new}
    BY <1>5 DEF Insert
  <2>2. cmark[c] \in Markers /\ Marked(cmark[c])
    BY <1>1 DEF TypeOK, Within
  <2>3. r \in Row /\ r.status = "pending" /\ r.snapshot = cmark[c]
    BY <2>2, Nothing DEF Row
  <2>4. ASSUME NEW j \in Jobs, j # new
        PROVE  /\ job'[j] \in Row /\ job'[j].snapshot = job[j].snapshot
               /\ job'[j].lease = job[j].lease /\ job'[j].expired = job[j].expired
               /\ job'[j].status = job[j].status
                  \/ (job[j].status = "ready" /\ job'[j].status = "expired")
    <3>1. job[j] \in Row
      BY <1>1 DEF TypeOK
    <3>2. CASE j \in Over(cmark[c])
      <4>1. job'[j] = [job[j] EXCEPT !.status = "expired"]
        BY <2>1, <2>4, <3>2
      <4>2. job[j].status = "ready"
        BY <3>2 DEF Over
      <4>3. QED  BY <3>1, <4>1, <4>2 DEF Row
    <3>3. CASE j \notin Over(cmark[c])
      BY <2>1, <2>4, <3>1, <3>3
    <3>4. QED  BY <3>2, <3>3
  <2>5. job'[new] = r
    BY <2>1
  <2>6. job' \in [Jobs -> Row]
    <3> DEFINE Job(j) == IF j = new THEN r
                         ELSE IF j \in Over(cmark[c]) THEN [job[j] EXCEPT !.status = "expired"]
                         ELSE job[j]
    <3>1. job' = [j \in Jobs |-> Job(j)]
      BY <2>1
    <3>2. \A j \in Jobs : Job(j) = job'[j]
      BY <3>1
    <3>3. \A j \in Jobs : job'[j] \in Row
      BY <2>3, <2>4, <2>5
    <3> HIDE DEF Job
    <3>4. QED  BY <3>1, <3>2, <3>3
  <2> HIDE DEF r
  <2>7. /\ new \notin stale /\ (spc # "idle" => sjob # new)
        /\ \A w \in Workers : Busy(w) => wjob[w] # new
    BY <1>1, <2>1 DEF Swept, Owned, TypeOK
  <2>8. TypeOK'
    BY <1>1, <1>2, <1>3, <2>1, <2>6 DEF TypeOK
  <2>9. Typed'
    BY <1>1, <1>2, <2>8 DEF Typed, Busy
  <2>10. Owned'
    <3>1. \A j \in Jobs, w \in Workers : job'[j].status = "absent" /\ Busy(w) => wjob[w] # j
      BY <1>1, <2>3, <2>4, <2>5 DEF Owned
    <3>2. ASSUME NEW j \in Jobs \ lapsed', NEW w \in Workers, Busy(w), wjob[w] = j
          PROVE  j \notin lapsed /\ j # new
      BY <2>1, <2>7, <3>2
    <3>3. ASSUME NEW j \in Jobs \ lapsed', NEW w \in Workers, Busy(w), wjob[w] = j
          PROVE  /\ job'[j].status = "processing" /\ job'[j].lease
                 /\ wpc[w] = "publish" => object[j] # NoFile
      BY <1>1, <2>4, <3>2, <3>3 DEF Owned
    <3>4. \A j \in Jobs \ lapsed', v, w \in Workers :
             Busy(v) /\ Busy(w) /\ wjob[v] = j /\ wjob[w] = j => v = w
      BY <1>1, <3>2 DEF Owned
    <3>5. QED  BY <1>2, <3>1, <3>3, <3>4 DEF Owned, Busy
  <2>11. Swept'
    <3>1. \A j \in stale : job'[j].status \notin {"pending", "processing"}
      BY <1>1, <2>4, <2>7 DEF Swept, TypeOK
    <3>2. spc # "idle" => sjob \in Jobs /\ sjob # new
      BY <1>1, <2>7 DEF Typed
    <3>3. QED  BY <1>1, <1>2, <2>4, <3>1, <3>2 DEF Swept
  <2>12. Within'
    <3>1. Covers(cmark[c], object[new])
      BY <2>1, <2>2, Limits DEF Covers, NoFile, Markers
    <3>2. \A j \in Jobs : Marked(job'[j].snapshot) /\ Covers(job'[j].snapshot, object[j])
      BY <1>1, <2>2, <2>3, <2>4, <2>5, <3>1 DEF Within
    <3>3. \A w \in Workers : Busy(w) => wjob[w] \in Jobs
      BY <1>1 DEF Typed
    <3>4. \A w \in Workers : Busy(w) => Covers(job'[wjob[w]].snapshot, wfile[w])
      BY <1>1, <2>4, <2>7, <3>3 DEF Within
    <3>5. QED  BY <1>2, <1>3, <3>2, <3>4 DEF Within, Marked, Covers, Busy
  <2>13. ReadyHasObject'
    BY <1>1, <1>2, <2>1, <2>3, <2>4, <2>5 DEF ReadyHasObject
  <2>14. QED  BY <2>9, <2>10, <2>11, <2>12, <2>13 DEF Inv
<1>6. QED  BY <1>4, <1>5

\* The row of an ended job is pruned when nobody works on it.
LEMMA PruneInv ==
    ASSUME Inv, NEW j \in Jobs, Prune(j)
    PROVE  Inv'
<1>1. TypeOK /\ Typed /\ Owned /\ Swept /\ Within /\ ReadyHasObject
  BY DEF Inv, Typed
<1>2. /\ UNCHANGED <<source, exists, object, stale, wpc, wjob, wlast, wfile, cpc, cmark>>
      /\ UNCHANGED <<spc, sjob, faults, lapsed>> /\ spc = "idle"
  BY DEF Prune, sourceVars, workerVars, clientVars, sweeperVars
<1>3. \A w \in Workers : wjob[w] # j
  BY DEF Prune, Working
<1>4. /\ job' \in [Jobs -> Row] /\ job'[j] = NoRow
      /\ \A k \in Jobs : k # j => job'[k] = job[k]
  BY <1>1, Nothing DEF Prune, TypeOK
<1>5. TypeOK'
  BY <1>1, <1>2, <1>4 DEF TypeOK
<1>6. Typed'
  BY <1>1, <1>2, <1>5 DEF Typed, Busy
<1>7. Owned'
  BY <1>1, <1>2, <1>3, <1>4 DEF Owned, Busy
<1>8. Swept'
  BY <1>1, <1>2, <1>4, Nothing DEF Swept, TypeOK
<1>9. Within'
  <2>1. \A k \in Jobs : Marked(job'[k].snapshot) /\ Covers(job'[k].snapshot, object[k])
    BY <1>1, <1>4, Nothing DEF Within, Marked, Covers
  <2>2. \A w \in Workers : Busy(w) => wjob[w] \in Jobs
    BY <1>1 DEF Typed
  <2>3. \A w \in Workers : Busy(w) => Covers(job'[wjob[w]].snapshot, wfile[w])
    BY <1>1, <1>3, <1>4, <2>2 DEF Within
  <2>4. QED  BY <1>1, <1>2, <2>1, <2>3 DEF Within, Marked, Covers, Busy
<1>10. ReadyHasObject'
  BY <1>1, <1>2, <1>4, Nothing DEF ReadyHasObject
<1>11. QED  BY <1>6, <1>7, <1>8, <1>9, <1>10 DEF Inv
-----------------------------------------------------------------------------
(* The actions. *)

\* Messages that come, are answered or are deleted keep the invariant.
LEMMA ConversationInv ==
    ASSUME Inv, Post \/ Answer \/ DeleteMessage \/ DeleteConversation
    PROVE  Inv'
<1>1. TypeOK
  BY DEF Inv, Typed
<1>2. source \in [Messages -> {"absent", "pending", "sent", "deleted"}] /\ exists \in BOOLEAN
  BY <1>1 DEF TypeOK
<1>3. UNCHANGED <<job, object, stale, workerVars, clientVars, sweeperVars, faults, lapsed>>
  BY DEF Post, Answer, DeleteMessage, DeleteConversation
<1>4. /\ source' \in [Messages -> {"absent", "pending", "sent", "deleted"}]
      /\ exists' \in BOOLEAN
      /\ \A m \in Messages : source[m] # "absent" => source'[m] # "absent"
      /\ \A m \in Messages : source[m] = "deleted" => source'[m] = "deleted"
  <2>1. CASE Post
    <3>1. PICK m \in Messages : /\ source[m] = "absent" /\ exists' = exists
                                /\ source' = [source EXCEPT ![m] = IF m % 2 = 1 THEN "sent"
                                                                   ELSE "pending"]
      BY <2>1 DEF Post
    <3>2. PICK s \in {"sent", "pending"} : source' = [source EXCEPT ![m] = s]
      BY <3>1
    <3>3. QED  BY <1>2, <3>1, <3>2
  <2>2. CASE Answer
    BY <1>2, <2>2 DEF Answer
  <2>3. CASE DeleteMessage
    BY <1>2, <2>3 DEF DeleteMessage, Visible
  <2>4. CASE DeleteConversation
    BY <1>2, <2>4 DEF DeleteConversation
  <2>5. QED  BY <2>1, <2>2, <2>3, <2>4
<1>5. QED  BY <1>3, <1>4, SourceInv

\* The reads of a client.
LEMMA ClientInv ==
    ASSUME Inv, NEW c \in Clients, Snapshot(c) \/ Check(c)
    PROVE  Inv'
<1>1. TypeOK /\ Typed /\ Owned /\ Swept /\ Within /\ ReadyHasObject
  BY DEF Inv, Typed
<1>2. UNCHANGED <<source, exists, job, object, stale, wpc, wjob, wlast, wfile, spc, sjob, faults, lapsed>>
  BY DEF Snapshot, Check, sourceVars, workerVars, sweeperVars
<1>3. PICK s \in {"idle", "check", "insert"}, mark \in Markers :
         /\ cpc' = [cpc EXCEPT ![c] = s]
         /\ cmark' = [cmark EXCEPT ![c] = mark]
         /\ Marked(mark)
  <2>1. CASE Snapshot(c)
    BY <1>1, <2>1, MarkerType DEF Snapshot
  <2>2. CASE Check(c)
    <3>1. CASE Respond(c)
      <4>1. Marked(NoRow.snapshot)
        BY Nothing DEF Marked
      <4>2. QED  BY <3>1, <4>1, Nothing DEF Respond
    <3>2. CASE cpc' = [cpc EXCEPT ![c] = "insert"] /\ cmark' = cmark
      <4>1. cmark' = [cmark EXCEPT ![c] = cmark[c]] /\ cmark[c] \in Markers /\ Marked(cmark[c])
        BY <1>1, <3>2 DEF TypeOK, Within
      <4>2. QED  BY <3>2, <4>1
    <3>3. QED  BY <2>2, <3>1, <3>2 DEF Check
  <2>3. QED  BY <2>1, <2>2
<1>4. /\ cpc' \in [Clients -> {"idle", "check", "insert"}] /\ cmark' \in [Clients -> Markers]
      /\ \A d \in Clients : Marked(cmark'[d])
  BY <1>1, <1>3 DEF TypeOK, Within
<1>5. TypeOK'
  BY <1>1, <1>2, <1>4 DEF TypeOK
<1>6. Typed' /\ Owned' /\ Swept' /\ ReadyHasObject'
  BY <1>1, <1>2, <1>5 DEF Typed, Owned, Swept, ReadyHasObject, Busy
<1>7. Within'
  BY <1>1, <1>2, <1>4 DEF Within, Marked, Covers, Busy
<1>8. QED  BY <1>6, <1>7 DEF Inv

\* What the collector reads is within the snapshot, or its message is deleted.
LEMMA CollectedWithin ==
    ASSUME TypeOK, NEW mark \in Markers, Marked(mark)
    PROVE  Collected(mark) \in SUBSET Messages /\ Covers(mark, Collected(mark))
<1>1. Collected(mark) \in SUBSET Messages
  BY DEF Collected, Cut, Visible
<1>2. ASSUME mark.msg # 0, source[mark.msg] # "deleted"
      PROVE  \A m \in Collected(mark) : m <= mark.msg
  <2>1. mark.msg \in Messages
    BY <1>2, Limits DEF Markers, Messages
  <2>2. mark.msg \in Visible
    BY <1>2, <2>1 DEF Marked, Visible, TypeOK
  <2>3. QED  BY <2>2 DEF Collected, Cut
<1>3. QED  BY <1>1, <1>2 DEF Covers

\* So does every step of process().
LEMMA ProcessInv ==
    ASSUME Inv, NEW w \in Workers, Process(w) \/ Crash(w)
    PROVE  Inv'
<1> DEFINE j == wjob[w]
<1>1. TypeOK /\ Typed /\ Owned /\ Swept /\ Within
  BY DEF Inv, Typed
<1>2. Busy(w)
  BY DEF Busy, Process, Collect, Put, Confirm, Publish, Discard, Fail, GiveBack, Crash
<1>3. /\ j \in Jobs /\ job[j] \in Row /\ wfile[w] \in SUBSET Messages
      /\ wfile = [wfile EXCEPT ![w] = wfile[w]]
  BY <1>1, <1>2 DEF Typed, TypeOK
<1>4. Covers(job[j].snapshot, wfile[w])
  BY <1>1, <1>2 DEF Within
<1>5. AfterError(w) \in {"fail", "retry"}
  BY DEF AfterError
<1>6. ASSUME Raise(w), UNCHANGED wfile,
             \/ UNCHANGED <<object, stale>>
             \/ object' = [object EXCEPT ![j] = wfile[w]] /\ stale' \subseteq stale,
             UNCHANGED <<sourceVars, job, wjob, wlast, clientVars, sweeperVars, lapsed>>
      PROVE  Inv'
  <2>1. wpc' = [wpc EXCEPT ![w] = AfterError(w)] /\ faults' \in 0..MaxFaults
    BY <1>1, <1>6, FaultTyped DEF Raise, Goto
  <2>2. QED  BY <1>2, <1>3, <1>4, <1>5, <1>6, <2>1, MoveInv
<1>7. ASSUME NEW s \in {"put", "confirm", "publish", "discard", "fail", "retry"}, Goto(w, s),
             UNCHANGED <<wfile, object, stale>>,
             s = "publish" => object[j] # NoFile,
             Fault \/ faults' = faults,
             UNCHANGED <<sourceVars, job, wjob, wlast, clientVars, sweeperVars, lapsed>>
      PROVE  Inv'
  <2>1. wpc' = [wpc EXCEPT ![w] = s] /\ faults' \in 0..MaxFaults
    BY <1>1, <1>7, FaultTyped DEF Goto
  <2>2. QED  BY <1>2, <1>3, <1>4, <1>7, <2>1, MoveInv
<1>8. CASE Collect(w)
  <2>1. UNCHANGED <<sourceVars, job, object, stale, wjob, wlast, clientVars, sweeperVars, lapsed>>
    BY <1>8 DEF Collect
  <2>2. CASE wfile' = [wfile EXCEPT ![w] = Collected(job[j].snapshot)] /\ Goto(w, "put")
             /\ faults' = faults
    <3>1. job[j].snapshot \in Markers /\ Marked(job[j].snapshot)
      BY <1>1, <1>3 DEF Within, Row
    <3>2. /\ Collected(job[j].snapshot) \in SUBSET Messages
          /\ Covers(job[j].snapshot, Collected(job[j].snapshot))
      BY <1>1, <3>1, CollectedWithin
    <3>3. wpc' = [wpc EXCEPT ![w] = "put"] /\ faults' \in 0..MaxFaults
      BY <1>1, <2>2, FaultTyped DEF Goto
    <3>4. QED  BY <1>2, <2>1, <2>2, <3>2, <3>3, MoveInv
  <2>3. CASE Goto(w, "fail") /\ UNCHANGED wfile /\ (Fault \/ faults' = faults)
    BY <1>7, <2>1, <2>3
  <2>4. CASE Raise(w) /\ UNCHANGED wfile
    BY <1>6, <2>1, <2>4
  <2>5. QED  BY <1>8, <2>2, <2>3, <2>4 DEF Collect
<1>9. CASE Put(w)
  <2> DEFINE stored == [object EXCEPT ![j] = wfile[w]]
  <2>1. /\ UNCHANGED <<sourceVars, job, wjob, wlast, wfile, clientVars, sweeperVars, lapsed>>
        /\ object' \in {object, stored}
        /\ stale' = IF object' = object THEN stale ELSE stale \ {j}
    BY <1>9 DEF Put
  <2>2. \/ UNCHANGED <<object, stale>>
        \/ object' = [object EXCEPT ![j] = wfile[w]] /\ stale' \subseteq stale
    BY <2>1
  <2>3. CASE Raise(w)
    BY <1>6, <2>1, <2>2, <2>3
  <2>4. CASE object' = stored /\ Goto(w, "confirm") /\ faults' = faults
    <3>1. wpc' = [wpc EXCEPT ![w] = "confirm"] /\ faults' \in 0..MaxFaults
      BY <1>1, <2>4, FaultTyped DEF Goto
    <3>2. QED  BY <1>2, <1>3, <1>4, <2>1, <2>2, <3>1, MoveInv
  <2>5. QED  BY <1>9, <2>3, <2>4 DEF Put
<1>10. CASE Confirm(w)
  <2>1. UNCHANGED <<sourceVars, job, object, stale, wjob, wlast, wfile, clientVars, sweeperVars, lapsed>>
    BY <1>10 DEF Confirm
  <2>2. CASE object[j] # NoFile /\ Goto(w, "publish") /\ UNCHANGED faults
    BY <1>7, <2>1, <2>2
  <2>3. CASE Goto(w, AfterError(w)) /\ UNCHANGED faults
    BY <1>5, <1>7, <2>1, <2>3
  <2>4. CASE Raise(w)
    BY <1>6, <2>1, <2>4
  <2>5. QED  BY <1>10, <2>2, <2>3, <2>4 DEF Confirm
<1>11. CASE Publish(w)
  <2>1. /\ wpc[w] = "publish" /\ faults' = faults
        /\ UNCHANGED <<sourceVars, object, stale, clientVars, sweeperVars, lapsed>>
    BY <1>11 DEF Publish
  <2>2. CASE job[j].status = "processing"
    <3> DEFINE r == [job[j] EXCEPT !.status = "ready", !.lease = FALSE]
    <3>1. job' = [job EXCEPT ![j] = r] /\ Return(w)
      BY <1>1, <1>11, <2>2 DEF Publish, TypeOK
    <3>2. r \in Row /\ r.status = "ready" /\ r.snapshot = job[j].snapshot
      BY <1>3 DEF Row
    <3>3. faults' \in 0..MaxFaults
      BY <1>1, <2>1, FaultTyped
    <3> HIDE DEF r
    <3>4. QED  BY <1>2, <2>1, <2>2, <3>1, <3>2, <3>3, ReturnInv
  <2>3. CASE job[j].status # "processing"
    <3>1. Goto(w, "discard") /\ UNCHANGED <<job, wjob, wlast, wfile>>
      BY <1>11, <2>3 DEF Publish
    <3>2. QED  BY <1>7, <2>1, <3>1
  <2>4. QED  BY <2>2, <2>3
<1>12. CASE Fail(w)
  <2> DEFINE r == [job[j] EXCEPT !.status = "failed", !.lease = FALSE]
  <2>1. /\ Return(w) /\ faults' = faults
        /\ UNCHANGED <<sourceVars, object, stale, clientVars, sweeperVars, lapsed>>
    BY <1>12 DEF Fail
  <2>2. \/ job' = job
        \/ job' = [job EXCEPT ![j] = r] /\ job[j].status \in {"pending", "processing"}
    BY <1>1, <1>12 DEF Fail, Unfinished, TypeOK
  <2>3. r \in Row /\ r.status = "failed" /\ r.snapshot = job[j].snapshot
    BY <1>3 DEF Row
  <2>4. faults' \in 0..MaxFaults
    BY <1>1, <2>1, FaultTyped
  <2> HIDE DEF r
  <2>5. QED  BY <1>2, <2>1, <2>2, <2>3, <2>4, ReturnInv
<1>13. CASE GiveBack(w)
  <2> DEFINE r == [job[j] EXCEPT !.status = "pending", !.lease = TRUE]
  <2>1. /\ Return(w) /\ faults' = faults
        /\ UNCHANGED <<sourceVars, object, stale, clientVars, sweeperVars, lapsed>>
    BY <1>13 DEF GiveBack
  <2>2. \/ job' = job
        \/ job' = [job EXCEPT ![j] = r] /\ job[j].status = "processing"
    BY <1>1, <1>13 DEF GiveBack, TypeOK
  <2>3. r \in Row /\ r.status = "pending" /\ r.snapshot = job[j].snapshot
    BY <1>3 DEF Row
  <2>4. faults' \in 0..MaxFaults
    BY <1>1, <2>1, FaultTyped
  <2> HIDE DEF r
  <2>5. QED  BY <1>2, <2>1, <2>2, <2>3, <2>4, ReturnInv
<1>14. CASE Crash(w)
  <2>1. /\ Return(w) /\ Fault /\ job' = job
        /\ UNCHANGED <<sourceVars, object, stale, clientVars, sweeperVars, lapsed>>
    BY <1>14 DEF Crash
  <2>2. faults' \in 0..MaxFaults
    BY <1>1, <2>1, FaultTyped
  <2>3. QED  BY <1>2, <1>3, <2>1, <2>2, ReturnInv
<1>15. CASE Discard(w)
  <2>1. /\ Return(w) /\ faults' = faults /\ job' = job
        /\ object' = [object EXCEPT ![j] = NoFile] /\ stale' = stale \ {j}
        /\ UNCHANGED <<sourceVars, clientVars, sweeperVars, lapsed>>
    BY <1>15 DEF Discard
  <2>2. faults' \in 0..MaxFaults
    BY <1>1, <2>1, FaultTyped
  <2>3. QED  BY <1>2, <1>3, <2>1, <2>2, ReturnInv
<1>16. QED
  BY <1>8, <1>9, <1>10, <1>11, <1>12, <1>13, <1>14, <1>15 DEF Process
\* Time and the loops that look at all rows.
LEMMA TimeInv ==
    ASSUME Inv, NEW j \in Jobs, LeaseExpires(j) \/ LeaseLapses(j) \/ Expire(j)
    PROVE  Inv'
<1>1. TypeOK /\ Owned
  BY DEF Inv, Typed
<1>2. job[j] \in Row /\ lapsed \subseteq Jobs
  BY <1>1 DEF TypeOK
<1>3. CASE LeaseExpires(j) \/ LeaseLapses(j)
  <2> DEFINE r == [job[j] EXCEPT !.lease = FALSE]
  <2>1. /\ r \in Row /\ r.status = job[j].status /\ r.snapshot = job[j].snapshot
        /\ r.expired = job[j].expired
    BY <1>2 DEF Row
  <2>2. job' = [job EXCEPT ![j] = r]
    BY <1>1, <1>3 DEF LeaseExpires, LeaseLapses, TypeOK
  <2>3. UNCHANGED <<sourceVars, object, stale, workerVars, clientVars, spc, sjob>>
    BY <1>3 DEF LeaseExpires, LeaseLapses, sweeperVars
  <2>4. /\ lapsed \subseteq lapsed' /\ lapsed' \subseteq Jobs
        /\ j \notin lapsed' => \A w \in Workers : wjob[w] # j
        /\ Fault \/ faults' = faults
    BY <1>2, <1>3 DEF LeaseExpires, LeaseLapses, Working
  <2>5. faults' \in 0..MaxFaults
    BY <1>1, <2>4, FaultTyped
  <2> HIDE DEF r
  <2>6. /\ job' \in [Jobs -> Row] /\ job'[j] = r
        /\ \A k \in Jobs : k # j => job'[k] = job[k]
    BY <1>1, <2>1, <2>2 DEF TypeOK
  <2>7. \A k \in Jobs \ lapsed', w \in Workers :
           Busy(w) /\ wjob[w] = k => job'[k].status = job[k].status /\ job'[k].lease
    BY <1>1, <2>4, <2>6 DEF Owned
  <2>8. \A k \in Jobs : /\ job'[k].snapshot = job[k].snapshot /\ job'[k].status = job[k].status
                        /\ job'[k].expired = job[k].expired
    BY <2>1, <2>6
  <2>9. QED  BY <2>3, <2>4, <2>5, <2>6, <2>7, <2>8, RowInv
<1>4. CASE Expire(j)
  <2> DEFINE r == [job[j] EXCEPT !.expired = TRUE]
  <2>1. /\ r \in Row /\ r.status = job[j].status /\ r.snapshot = job[j].snapshot
        /\ r.expired /\ r.lease = job[j].lease
    BY <1>2 DEF Row
  <2>2. job' = [job EXCEPT ![j] = r]
    BY <1>1, <1>4 DEF Expire, TypeOK
  <2>3. /\ UNCHANGED <<sourceVars, object, stale, workerVars, clientVars, spc, sjob, lapsed>>
        /\ faults' = faults
    BY <1>4 DEF Expire, sweeperVars
  <2>4. faults' \in 0..MaxFaults
    BY <1>1, <2>3, FaultTyped
  <2> HIDE DEF r
  <2>5. /\ job' \in [Jobs -> Row] /\ job'[j] = r
        /\ \A k \in Jobs : k # j => job'[k] = job[k]
    BY <1>1, <2>1, <2>2 DEF TypeOK
  <2>6. \A k \in Jobs \ lapsed', w \in Workers :
           Busy(w) /\ wjob[w] = k => job'[k].status = job[k].status /\ job'[k].lease
    BY <1>1, <2>1, <2>3, <2>5 DEF Owned
  <2>7. \A k \in Jobs : /\ job'[k].snapshot = job[k].snapshot /\ job'[k].status = job[k].status
                        /\ job[k].expired => job'[k].expired
    BY <2>1, <2>5
  <2>8. QED  BY <1>2, <2>3, <2>4, <2>5, <2>6, <2>7, RowInv
<1>5. QED  BY <1>3, <1>4

\* And the sweep of exhausted jobs.
LEMMA FailExhaustedInv ==
    ASSUME Inv, FailExhausted
    PROVE  Inv'
<1> DEFINE over == {j \in Unfinished : job[j].attempts >= MaxAttempts /\ ~job[j].lease}
           New(j) == IF j \in over THEN [job[j] EXCEPT !.status = "failed"] ELSE job[j]
<1>1. TypeOK /\ Owned
  BY DEF Inv, Typed
<1>2. job' = [j \in Jobs |-> New(j)]
  BY DEF FailExhausted
<1>3. \A j \in over : job[j].status \in {"pending", "processing"} /\ ~job[j].lease
  BY DEF Unfinished
<1>4. ASSUME NEW j \in Jobs
      PROVE  /\ New(j) \in Row /\ New(j).snapshot = job[j].snapshot
             /\ New(j).expired = job[j].expired /\ New(j).lease = job[j].lease
             /\ New(j) = job[j] \/ /\ job[j].status \in {"pending", "processing"}
                                   /\ New(j).status = "failed" /\ ~job[j].lease
  <2>1. job[j] \in Row
    BY <1>1 DEF TypeOK
  <2>2. CASE j \in over
    BY <1>3, <2>1, <2>2 DEF Row
  <2>3. CASE j \notin over
    BY <2>1, <2>3
  <2>4. QED  BY <2>2, <2>3
<1> HIDE DEF New
<1>5. job' \in [Jobs -> Row] /\ \A j \in Jobs : job'[j] = New(j)
  BY <1>2, <1>4
<1>6. /\ UNCHANGED <<sourceVars, object, stale, workerVars, clientVars, spc, sjob, lapsed>>
      /\ faults' = faults
  BY DEF FailExhausted, sweeperVars
<1>7. faults' \in 0..MaxFaults /\ lapsed \subseteq Jobs
  BY <1>1, <1>6, FaultTyped DEF TypeOK
<1>8. \A k \in Jobs \ lapsed', w \in Workers :
         Busy(w) /\ wjob[w] = k => job'[k].status = job[k].status /\ job'[k].lease
  BY <1>1, <1>4, <1>5, <1>6 DEF Owned
<1>9. \A j \in Jobs :
              /\ job'[j].snapshot = job[j].snapshot
              /\ job'[j].status = "absent" <=> job[j].status = "absent"
              /\ job'[j].status \in {"pending", "processing"} => job'[j].status = job[j].status
              /\ job'[j].status = "ready" => job[j].status = "ready"
              /\ job[j].status \in {"failed", "expired"} => job'[j].status = job[j].status
              /\ job[j].status = "ready" => job'[j].status \in {"ready", "expired"}
              /\ job[j].expired => job'[j].expired
  BY <1>4, <1>5
<1>10. QED  BY <1>5, <1>6, <1>7, <1>8, <1>9, RowInv

\* cleanup(): what the sweeper chooses, erases and marks.
LEMMA CleanupInv ==
    ASSUME Inv, NEW j \in Jobs, GrowStale(j) \/ SweepDue(j) \/ SweepOrphan(j)
    PROVE  Inv'
<1>1. TypeOK /\ Typed /\ Owned /\ Swept /\ Within /\ ReadyHasObject
  BY DEF Inv, Typed
<1>2. /\ UNCHANGED <<source, exists, job, object, wpc, wjob, wlast, wfile, cpc, cmark>>
      /\ UNCHANGED <<faults, lapsed>>
  BY DEF GrowStale, SweepDue, SweepOrphan, sourceVars, workerVars, clientVars
<1>3. Within' /\ Owned' /\ ReadyHasObject'
  BY <1>1, <1>2 DEF Within, Owned, ReadyHasObject, Marked, Covers, Busy
<1>4. CASE GrowStale(j)
  <2>1. /\ UNCHANGED <<spc, sjob>> /\ stale' = stale \cup {j} /\ object[j] # NoFile
        /\ job[j].status \notin {"pending", "processing"}
    BY <1>4 DEF GrowStale, sweeperVars, Unfinished
  <2>2. TypeOK'
    BY <1>1, <1>2, <2>1 DEF TypeOK
  <2>3. Typed' /\ Swept'
    BY <1>1, <1>2, <2>1, <2>2 DEF Typed, Swept, Busy
  <2>4. QED  BY <1>3, <2>3 DEF Inv
<1>5. CASE SweepDue(j) \/ SweepOrphan(j)
  <2>1. /\ UNCHANGED stale /\ sjob' = j
        /\ \/ spc' = "erase" /\ job[j].expired /\ job[j].status = "ready"
           \/ spc' = "remove" /\ j \in stale /\ job[j].status \notin {"ready", "processing"}
    BY <1>5 DEF SweepDue, SweepOrphan
  <2>2. TypeOK'
    BY <1>1, <1>2, <2>1 DEF TypeOK
  <2>3. Typed'
    BY <1>1, <1>2, <2>1, <2>2 DEF Typed, Busy
  <2>4. job[j].status \in {"absent", "pending", "processing", "ready", "failed", "expired"}
    BY <1>1 DEF TypeOK, Row
  <2>5. Swept'
    BY <1>1, <1>2, <2>1, <2>4 DEF Swept
  <2>6. QED  BY <1>3, <2>3, <2>5 DEF Inv
<1>6. QED  BY <1>4, <1>5

\* And the cleanup with its orphan scan.
LEMMA CleanupStepInv ==
    ASSUME Inv, CleanupStep
    PROVE  Inv'
<1>1. TypeOK /\ Typed /\ Owned /\ Swept
  BY DEF Inv, Typed
<1>2. spc # "idle" /\ sjob \in Jobs /\ job[sjob] \in Row
  BY <1>1 DEF CleanupStep, EraseDue, MarkExpired, RemoveOrphan, Typed, TypeOK
<1>3. CASE EraseDue
  <2>1. /\ object' = [object EXCEPT ![sjob] = NoFile] /\ stale' = stale \ {sjob}
        /\ spc = "erase" /\ spc' = "expire" /\ sjob' = sjob
        /\ UNCHANGED <<sourceVars, job, workerVars, clientVars, faults, lapsed>>
    BY <1>3 DEF EraseDue
  <2>2. job[sjob].expired /\ job[sjob].status \in {"ready", "expired"}
    BY <1>1, <2>1 DEF Swept
  <2>3. sjob \notin lapsed => \A w \in Workers : ~(Busy(w) /\ wjob[w] = sjob /\ wpc[w] = "publish")
    BY <1>1, <1>2, <2>2 DEF Owned
  <2>4. QED  BY <1>2, <2>1, <2>2, <2>3, RemoveInv
<1>4. CASE RemoveOrphan
  <2>1. /\ object' = [object EXCEPT ![sjob] = NoFile] /\ stale' = stale \ {sjob}
        /\ spc = "remove" /\ spc' = "idle" /\ sjob' = NoJob
        /\ UNCHANGED <<sourceVars, job, workerVars, clientVars, faults, lapsed>>
    BY <1>4 DEF RemoveOrphan
  <2>2. job[sjob].status \in {"failed", "expired", "absent"}
    BY <1>1, <2>1 DEF Swept
  <2>3. sjob \notin lapsed => \A w \in Workers : ~(Busy(w) /\ wjob[w] = sjob /\ wpc[w] = "publish")
    BY <1>1, <1>2, <2>2 DEF Owned
  <2>4. QED  BY <1>2, <2>1, <2>2, <2>3, RemoveInv
<1>5. CASE MarkExpired
  <2> DEFINE r == [job[sjob] EXCEPT !.status = "expired"]
  <2>1. /\ spc = "expire" /\ spc' = "idle" /\ sjob' = NoJob /\ faults' = faults
        /\ UNCHANGED <<sourceVars, object, stale, workerVars, clientVars, lapsed>>
        /\ job' = job \/ (job[sjob].status = "ready" /\ job' = [job EXCEPT ![sjob] = r])
    BY <1>1, <1>5 DEF MarkExpired, TypeOK
  <2>2. /\ r \in Row /\ r.status = "expired" /\ r.snapshot = job[sjob].snapshot
        /\ r.expired = job[sjob].expired
    BY <1>2 DEF Row
  <2> HIDE DEF r
  <2>3. /\ job' \in [Jobs -> Row]
        /\ \A k \in Jobs : job'[k] = job[k] \/ (k = sjob /\ job[k].status = "ready" /\ job'[k] = r)
    BY <1>1, <1>2, <2>1, <2>2 DEF TypeOK
  <2>4. \A k \in Jobs \ lapsed', w \in Workers :
           Busy(w) /\ wjob[w] = k => job'[k].status = job[k].status /\ job'[k].lease
    BY <1>1, <2>1, <2>3 DEF Owned
  <2>5. \A k \in Jobs :
              /\ job'[k].snapshot = job[k].snapshot
              /\ job'[k].status = "absent" <=> job[k].status = "absent"
              /\ job'[k].status \in {"pending", "processing"} => job'[k].status = job[k].status
              /\ job'[k].status = "ready" => job[k].status = "ready"
              /\ job[k].status \in {"failed", "expired"} => job'[k].status = job[k].status
              /\ job[k].status = "ready" => job'[k].status \in {"ready", "expired"}
              /\ job[k].expired => job'[k].expired
    BY <2>2, <2>3
  <2>6. faults' \in 0..MaxFaults /\ lapsed \subseteq Jobs
    BY <1>1, <2>1, FaultTyped DEF TypeOK
  <2>7. QED  BY <2>1, <2>3, <2>4, <2>5, <2>6, RowInv
<1>6. QED  BY <1>3, <1>4, <1>5 DEF CleanupStep

-----------------------------------------------------------------------------
(* Together. *)

\* Every step keeps the invariant.
LEMMA NextInv == Inv /\ [Next]_vars => Inv'
<1> SUFFICES ASSUME Inv, [Next]_vars PROVE Inv'
  OBVIOUS
<1>1. CASE UNCHANGED vars
  <2>1. /\ UNCHANGED <<source, exists, job, object, stale, wpc, wjob, wlast, wfile, cpc, cmark>>
        /\ UNCHANGED <<spc, sjob, faults, lapsed>>
    BY <1>1 DEF vars, sourceVars, workerVars, clientVars, sweeperVars
  <2>2. Typed' /\ Swept'
    BY <2>1 DEF Inv, Typed, TypeOK, Swept, Busy
  <2>3. Owned' /\ Within' /\ ReadyHasObject'
    BY <2>1 DEF Inv, Owned, Within, ReadyHasObject, Marked, Covers, Busy
  <2>4. QED  BY <2>2, <2>3 DEF Inv
<1>2. ASSUME NEW c \in Clients, Snapshot(c) \/ Check(c) \/ Insert(c) PROVE Inv'
  BY <1>2, ClientInv, InsertInv
<1>3. ASSUME NEW w \in Workers, Process(w) \/ Crash(w) \/ \E j \in Jobs : Claim(w, j) PROVE Inv'
  BY <1>3, ProcessInv, ClaimInv
<1>4. ASSUME NEW j \in Jobs, \/ LeaseExpires(j) \/ LeaseLapses(j) \/ Expire(j)
                             \/ GrowStale(j) \/ Cleanup(j)
      PROVE  Inv'
  BY <1>4, TimeInv, CleanupInv, PruneInv DEF Cleanup
<1>5. QED
  BY <1>1, <1>2, <1>3, <1>4, ConversationInv, FailExhaustedInv, CleanupStepInv DEF Next

\* The invariant holds in every reachable state.
LEMMA InvHolds == Spec => []Inv
BY InitInv, NextInv, PTL DEF Spec

\* Jobs, objects, workers, clients and the sweeper keep their types.
THEOREM ExportTypes == Spec => []TypeOK
<1>1. Inv => TypeOK
  BY DEF Inv, Typed
<1>2. QED  BY <1>1, InvHolds, PTL

\* "The processor never reads past" the snapshot (ExportCollector._messages):
\* whatever is posted, answered or deleted while the job waits or runs, and
\* however often it is retried.
THEOREM NothingAfterSnapshot == Spec => []FileWithinSnapshot
<1>1. Inv => FileWithinSnapshot
  BY DEF Inv, Within, Covers, FileWithinSnapshot
<1>2. QED  BY <1>1, InvHolds, PTL

\* A job that offers a download has its object (ExportService.process, _fail
\* and cleanup), with any number of pods, retries and crashes, as long as no
\* call outlives its lease.
THEOREM DownloadExists == Spec => []ReadyHasObject
<1>1. Inv => ReadyHasObject
  BY DEF Inv
<1>2. QED  BY <1>1, InvHolds, PTL
=============================================================================
