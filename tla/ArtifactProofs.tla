--------------------------- MODULE ArtifactProofs ---------------------------
(***************************************************************************)
(* Proofs about Artifact, for every number of workers, clients, attempts,  *)
(* retries, faults and damages.  The inductive invariant has three parts:  *)
(* Sane (types, and the counters a later step will increment), Intact      *)
(* (what holds while the store keeps what it was given) and Exclusive      *)
(* (what holds until a lease lapses or the row is reopened).               *)
(***************************************************************************)
EXTENDS Artifact, FiniteSetTheorems, TLAPS

\* A worker about to submit has an attempt left, a client about to restart
\* the row has a retry left.
Sane ==
    /\ TypeOK
    /\ \A w \in Workers : wpc[w] \in {"submit", "enqueue"} => copy[w].attempts < MaxAutoAttempts
    /\ \A c \in Clients : cpc[c] = "retry" => read[c] < MaxManualRetries

\* While the store loses nothing: there is no object to delete, the workers
\* that are about to write ready have a valid object, and so have a ready row
\* and the requests that saw one.
Intact ==
    damage = 0 =>
        /\ object # "invalid"
        /\ \A w \in Workers : wpc[w] # "delete"
        /\ \A w \in Workers : wpc[w] \in {"adopt", "confirm", "publish"} => object = "valid"
        /\ row.status = "ready" => object = "valid" /\ row.key
        /\ \A c \in Clients : cpc[c] = "stat" => object = "valid"
        /\ \A c \in Clients : cpc[c] # "missing"

\* The row of a working call is leased or settled, so no one can claim it.
Exclusive ==
    ~lapsed /\ ~reopened =>
        /\ \A v, w \in Workers : wpc[v] # "idle" /\ wpc[w] # "idle" => v = w
        /\ \A w \in Workers : wpc[w] # "idle" => lease \/ row.status \in TERMINAL

Inv == Sane /\ Intact /\ Exclusive

-----------------------------------------------------------------------------
\* The limits are numbers.
LEMMA Limits ==
    /\ MaxAutoAttempts \in Nat
    /\ MaxManualRetries \in Nat
    /\ MaxFaults \in Nat
    /\ MaxDamage \in Nat
BY LimitsAssumption

\* What a compare-and-set leaves: the row as it was, or the new one written
\* over an expected status, and only the worker's own program counter and
\* copy moved.
LEMMA CasEffect ==
    ASSUME TypeOK, NEW w \in Workers, NEW from, NEW new \in Row, Cas(w, from, new)
    PROVE  /\ row' \in Row
           /\ copy' \in [Workers -> Row]
           /\ wpc' \in [Workers -> WorkerSteps]
           /\ wpc'[w] \in {"release", "stat", "poll"}
           /\ \A v \in Workers : v # w => wpc'[v] = wpc[v] /\ copy'[v] = copy[v]
           /\ \/ row' = row
              \/ row.status \in from /\ row'.status = new.status /\ row'.key = new.key
<1>1. CASE row.status \in from
  <2>1. row' = [new EXCEPT !.old = FALSE] /\ copy' = [copy EXCEPT ![w] = row']
    BY <1>1 DEF Cas
  <2>2. row' \in Row /\ row'.status = new.status /\ row'.key = new.key
    BY <2>1 DEF Row
  <2>3. PICK s \in {"release", "stat", "poll"} : wpc' = [wpc EXCEPT ![w] = s]
    BY <1>1 DEF Cas, Goto, EntryStep
  <2>4. s \in WorkerSteps
    BY DEF WorkerSteps
  <2>5. QED  BY <1>1, <2>1, <2>2, <2>3, <2>4 DEF TypeOK
<1>2. CASE row.status \notin from
  <2>1. row' = row /\ copy' = copy /\ wpc' = [wpc EXCEPT ![w] = "release"]
    BY <1>2 DEF Cas, Goto
  <2>2. "release" \in WorkerSteps
    BY DEF WorkerSteps
  <2>3. QED  BY <2>1, <2>2 DEF TypeOK
<1>3. QED  BY <1>1, <1>2

\* The rows the compare-and-sets write are rows.
LEMMA RowTypes ==
    ASSUME TypeOK
    PROVE  /\ NewRow \in Row
           /\ ReadyRow \in Row /\ ReadyRow.status = "ready" /\ ReadyRow.key = TRUE
           /\ \A s \in Status : /\ [row EXCEPT !.status = s] \in Row
                                /\ [row EXCEPT !.status = s].status = s
                                /\ [row EXCEPT !.status = s].key = row.key
           /\ \A s \in Status, n \in 0..MaxAutoAttempts :
                 /\ [row EXCEPT !.status = s, !.attempts = n] \in Row
                 /\ [row EXCEPT !.status = s, !.attempts = n].status = s
<1>1. NewRow \in Row
  BY Limits DEF NewRow, Row, Status
<1>2. ReadyRow \in Row /\ ReadyRow.status = "ready" /\ ReadyRow.key = TRUE
  BY DEF TypeOK, ReadyRow, Row, Status, TERMINAL
<1>3. ASSUME NEW s \in Status
      PROVE  /\ [row EXCEPT !.status = s] \in Row
             /\ [row EXCEPT !.status = s].status = s
             /\ [row EXCEPT !.status = s].key = row.key
  BY DEF TypeOK, Row
<1>4. ASSUME NEW s \in Status, NEW n \in 0..MaxAutoAttempts
      PROVE  /\ [row EXCEPT !.status = s, !.attempts = n] \in Row
             /\ [row EXCEPT !.status = s, !.attempts = n].status = s
  BY DEF TypeOK, Row
<1>5. QED  BY <1>1, <1>2, <1>3, <1>4

-----------------------------------------------------------------------------
\* The initial state.
LEMMA InitInv == Init => Inv
<1> SUFFICES ASSUME Init PROVE Inv
  OBVIOUS
<1>1. NewRow \in Row /\ NewRow.status = "absent"
  BY Limits DEF NewRow, Row, Status
<1>2. "idle" \in WorkerSteps
  BY DEF WorkerSteps
<1>3. /\ wpc \in [Workers -> WorkerSteps] /\ \A w \in Workers : wpc[w] = "idle"
      /\ copy \in [Workers -> Row]
  BY <1>1, <1>2 DEF Init
<1>a. /\ cpc \in [Clients -> {"idle", "retry", "stat", "missing"}]
      /\ \A c \in Clients : cpc[c] = "idle"
      /\ read \in [Clients -> 0..MaxManualRetries]
  BY Limits DEF Init
<1>d. row \in Row /\ lease \in BOOLEAN /\ object \in {"none", "valid", "invalid"}
  BY <1>1 DEF Init
<1>e. faults = 0 /\ damage = 0 /\ lapsed \in BOOLEAN /\ reopened \in BOOLEAN
  BY DEF Init
<1>f. faults \in 0..MaxFaults /\ damage \in 0..MaxDamage
  BY <1>e, Limits
<1>b. TypeOK
  BY <1>3, <1>a, <1>d, <1>e, <1>f DEF TypeOK
<1>c. Sane
  BY <1>b, <1>3, <1>a DEF Sane
<1>4. Intact
  BY <1>1 DEF Init, Intact
<1>5. Exclusive
  BY DEF Init, Exclusive
<1>6. QED  BY <1>c, <1>4, <1>5 DEF Inv

-----------------------------------------------------------------------------
\* A step of a working call that leaves the row and the lease alone.
LEMMA MoveInv ==
    ASSUME Inv, NEW w \in Workers, NEW s \in WorkerSteps,
           wpc[w] # "idle",
           wpc' = [wpc EXCEPT ![w] = s],
           s \in {"submit", "enqueue"} => copy[w].attempts < MaxAutoAttempts,
           object' \in {"none", "valid", "invalid"},
           damage = 0 => /\ s # "delete"
                         /\ s \in {"adopt", "confirm", "publish"} => object' = "valid"
                         /\ object' = object \/ object' = "valid",
           faults' \in 0..MaxFaults,
           UNCHANGED <<row, lease, copy, clientVars, damage, lapsed, reopened>>
    PROVE  Inv'
<1>1. TypeOK
  BY DEF Inv, Sane
<1>2. /\ wpc' \in [Workers -> WorkerSteps]
      /\ wpc'[w] = s
      /\ \A v \in Workers : v # w => wpc'[v] = wpc[v]
  BY <1>1 DEF TypeOK
<1>3. TypeOK'
  BY <1>1, <1>2 DEF TypeOK, clientVars
<1>4. Sane'
  BY <1>2, <1>3 DEF Inv, Sane, clientVars
<1>5. Intact'
  BY <1>2 DEF Inv, Intact, clientVars
<1>6. Exclusive'
  BY <1>2 DEF Inv, Exclusive
<1>7. QED  BY <1>4, <1>5, <1>6 DEF Inv

\* A step of a working call that ends in a compare-and-set: it leaves the
\* lease alone unless it settles the row, and writes ready for a valid object.
LEMMA CasInv ==
    ASSUME Inv, NEW w \in Workers, NEW from, NEW new \in Row,
           wpc[w] # "idle",
           Cas(w, from, new),
           from \subseteq ACTIVE,
           damage = 0 /\ new.status = "ready" => object = "valid" /\ new.key,
           lease' \in BOOLEAN,
           (lease' = lease) \/ (row.status \in from /\ new.status \in TERMINAL),
           UNCHANGED <<object, clientVars, history>>
    PROVE  Inv'
<1>1. TypeOK
  BY DEF Inv, Sane
<1>2. /\ row' \in Row
      /\ copy' \in [Workers -> Row]
      /\ wpc' \in [Workers -> WorkerSteps]
      /\ wpc'[w] \in {"release", "stat", "poll"}
      /\ \A v \in Workers : v # w => wpc'[v] = wpc[v] /\ copy'[v] = copy[v]
      /\ \/ row' = row
         \/ row.status \in from /\ row'.status = new.status /\ row'.key = new.key
  BY <1>1, CasEffect
<1>3. TypeOK'
  BY <1>1, <1>2 DEF TypeOK, clientVars, history
<1>4. Sane'
  BY <1>2, <1>3 DEF Inv, Sane, clientVars
<1>5. Intact'
  BY <1>2 DEF Inv, Intact, clientVars, history
<1>6. Exclusive'
  <2> SUFFICES ASSUME ~lapsed, ~reopened
               PROVE  /\ \A u, v \in Workers : wpc'[u] # "idle" /\ wpc'[v] # "idle" => u = v
                      /\ \A v \in Workers : wpc'[v] # "idle" => lease' \/ row'.status \in TERMINAL
    BY DEF Exclusive, history
  <2>1. \A u, v \in Workers : wpc'[u] # "idle" /\ wpc'[v] # "idle" => u = v
    BY <1>2 DEF Inv, Exclusive
  <2>2. lease \/ row.status \in TERMINAL
    BY DEF Inv, Exclusive
  <2>3. row.status \in from => lease
    BY <2>2 DEF ACTIVE, TERMINAL
  <2>4. row.status \in from => row'.status = new.status
    BY <1>1 DEF Cas, TypeOK, Row
  <2>5. lease' \/ row'.status \in TERMINAL
    BY <1>2, <2>2, <2>3, <2>4
  <2>6. QED  BY <2>1, <2>5
<1>7. QED  BY <1>4, <1>5, <1>6 DEF Inv

\* The end of a call, whatever becomes of the lease.
LEMMA ReturnInv ==
    ASSUME Inv, NEW w \in Workers, wpc[w] # "idle", Return(w),
           lease' \in BOOLEAN,
           faults' \in 0..MaxFaults,
           UNCHANGED <<row, object, clientVars, damage, lapsed, reopened>>
    PROVE  Inv'
<1>1. TypeOK
  BY DEF Inv, Sane
<1>2. wpc' = [wpc EXCEPT ![w] = "idle"] /\ copy' = [copy EXCEPT ![w] = NewRow]
  BY DEF Return, Goto
<1>3. "idle" \in WorkerSteps /\ NewRow \in Row
  BY <1>1, RowTypes DEF WorkerSteps
<1>4. /\ wpc' \in [Workers -> WorkerSteps]
      /\ copy' \in [Workers -> Row]
      /\ wpc'[w] = "idle"
      /\ \A v \in Workers : v # w => wpc'[v] = wpc[v] /\ copy'[v] = copy[v]
  BY <1>1, <1>2, <1>3 DEF TypeOK
<1>5. TypeOK'
  BY <1>1, <1>4 DEF TypeOK, clientVars
<1>6. Sane'
  BY <1>4, <1>5 DEF Inv, Sane, clientVars
<1>7. Intact'
  BY <1>4 DEF Inv, Intact, clientVars
<1>8. Exclusive'
  BY <1>4 DEF Inv, Exclusive
<1>9. QED  BY <1>6, <1>7, <1>8 DEF Inv

-----------------------------------------------------------------------------
\* A step of advance() after the claim.
LEMMA WorkerInv ==
    ASSUME Inv, NEW w \in Workers, WorkerStep(w)
    PROVE  Inv'
<1>1. TypeOK /\ Sane /\ Intact /\ Exclusive
  BY DEF Inv, Sane
<1>2. /\ faults \in 0..MaxFaults
      /\ faults' = faults \/ Fault => faults' \in 0..MaxFaults
  BY <1>1, Limits DEF TypeOK, Fault
<1>3. /\ NotAdopted(w) \in {"download", "fail", "submit"}
      /\ NotAdopted(w) = "submit" => copy[w].attempts < MaxAutoAttempts
  BY <1>1, Limits DEF NotAdopted, TypeOK, Row
<1>4. {"idle", "stat", "fetch", "delete", "adopt", "publish", "submit", "enqueue", "poll",
       "follow", "accept", "resubmit", "download", "put", "confirm", "fail",
       "release", "backoff"} = WorkerSteps
  BY DEF WorkerSteps
<1>5. object \in {"none", "valid", "invalid"}
  BY <1>1 DEF TypeOK
<1>6. {"pending", "queued", "rendering", "uploading", "ready", "failed"} \subseteq Status
  BY DEF Status, ACTIVE, TERMINAL
<1>7. ASSUME NEW s \in WorkerSteps, wpc[w] # "idle", Goto(w, s), 
             UNCHANGED <<row, lease, object, copy, clientVars, damage, lapsed, reopened>>,
             faults' \in 0..MaxFaults,
             s = "submit" => copy[w].attempts < MaxAutoAttempts,
             s = "enqueue" => copy[w].attempts < MaxAutoAttempts,
             damage = 0 => /\ s # "delete"
                           /\ s \in {"adopt", "confirm", "publish"} => object = "valid"
      PROVE  Inv'
  <2>1. wpc' = [wpc EXCEPT ![w] = s]
    BY <1>7 DEF Goto
  <2>2. QED  BY <1>5, <1>7, <2>1, MoveInv
<1>8. ASSUME wpc[w] # "idle", Raise(w), damage = 0 => object' = object \/ object' = "valid",
             object' \in {"none", "valid", "invalid"},
             UNCHANGED <<row, lease, copy, clientVars, damage, lapsed, reopened>>
      PROVE  Inv'
  <2>1. wpc' = [wpc EXCEPT ![w] = "backoff"] /\ faults' \in 0..MaxFaults
    BY <1>2, <1>8 DEF Raise, Goto
  <2>2. "backoff" \in WorkerSteps
    BY <1>4
  <2>3. QED  BY <1>8, <2>1, <2>2, MoveInv
<1>10. CASE StatObject(w)
  <2>1. CASE Raise(w)
    BY <1>5, <1>8, <1>10, <2>1 DEF StatObject
  <2>2. CASE Goto(w, IF object = "none" THEN NotAdopted(w) ELSE "fetch") /\ faults' = faults
    BY <1>2, <1>3, <1>4, <1>7, <1>10, <2>2 DEF StatObject
  <2>3. QED  BY <1>10, <2>1, <2>2 DEF StatObject
<1>11. CASE FetchObject(w)
  <2>1. CASE Raise(w)
    BY <1>5, <1>8, <1>11, <2>1 DEF FetchObject
  <2>2. CASE ~Raise(w)
    <3> DEFINE s == CASE object = "valid" -> "adopt"
                      [] object = "invalid" -> "delete"
                      [] OTHER -> "backoff"
    <3>1. s \in {"adopt", "delete", "backoff"} /\ (s = "adopt" => object = "valid")
      BY <1>5
    <3>2. damage = 0 => s # "delete"
      BY <1>1, <1>5 DEF Intact
    <3>3. Goto(w, s) /\ faults' = faults
      BY <1>11, <2>2 DEF FetchObject
    <3> HIDE DEF s
    <3>4. QED  BY <1>2, <1>4, <1>7, <1>11, <3>1, <3>2, <3>3 DEF FetchObject
  <2>3. QED  BY <2>1, <2>2
<1>12. CASE DeleteInvalid(w)
  <2>1. damage # 0
    BY <1>1, <1>12 DEF Intact, DeleteInvalid
  <2>2. CASE Raise(w)
    BY <1>5, <1>8, <1>12, <2>1, <2>2 DEF DeleteInvalid
  <2>3. CASE object' = "none" /\ Goto(w, NotAdopted(w)) /\ faults' = faults
    <3>1. wpc' = [wpc EXCEPT ![w] = NotAdopted(w)] /\ NotAdopted(w) \in WorkerSteps
      BY <1>3, <1>4, <2>3 DEF Goto
    <3>2. QED  BY <1>2, <1>3, <1>12, <2>1, <2>3, <3>1, MoveInv DEF DeleteInvalid
  <2>4. QED  BY <1>12, <2>2, <2>3 DEF DeleteInvalid
<1>13. CASE Submit(w)
  <2>1. CASE Raise(w)
    BY <1>5, <1>8, <1>13, <2>1 DEF Submit
  <2>2. CASE ~Raise(w)
    <3>1. PICK s \in {"enqueue", "fail"} : Goto(w, s) /\ faults' = faults
      BY <1>13, <2>2 DEF Submit, Goto
    <3>2. copy[w].attempts < MaxAutoAttempts
      BY <1>1, <1>13 DEF Submit, Sane
    <3>3. QED  BY <1>2, <1>4, <1>7, <1>13, <3>1, <3>2 DEF Submit
  <2>3. QED  BY <2>1, <2>2
<1>14. CASE Poll(w)
  <2>1. CASE Raise(w)
    BY <1>5, <1>8, <1>14, <2>1 DEF Poll
  <2>2. CASE ~Raise(w)
    <3>1. PICK answer \in {"lost", "ready", "failed", "pending", "running"} :
             Goto(w, AfterPoll(w, answer)) /\ faults' = faults
      BY <1>14, <2>2 DEF Poll
    <3>2. AfterPoll(w, answer) \in {"fail", "resubmit", "accept", "follow", "release"}
      BY DEF AfterPoll
    <3>3. QED  BY <1>2, <1>4, <1>7, <1>14, <3>1, <3>2 DEF Poll
  <2>3. QED  BY <2>1, <2>2
<1>15. CASE Download(w)
  <2>1. CASE Raise(w)
    BY <1>5, <1>8, <1>15, <2>1 DEF Download
  <2>2. CASE ~Raise(w)
    <3>1. PICK file \in {"gone", "good", "bad", "rejected"} :
             Goto(w, AfterDownload(w, file)) /\ faults' = faults
      BY <1>15, <2>2 DEF Download
    <3>2. AfterDownload(w, file) \in {"fail", "resubmit", "put"}
      BY DEF AfterDownload
    <3>3. QED  BY <1>2, <1>4, <1>7, <1>15, <3>1, <3>2 DEF Download
  <2>3. QED  BY <2>1, <2>2
<1>16. CASE PutFile(w)
  <2>1. CASE Raise(w)
    BY <1>5, <1>8, <1>16, <2>1 DEF PutFile
  <2>2. CASE object' = "valid" /\ Goto(w, "confirm") /\ faults' = faults
    <3>1. wpc' = [wpc EXCEPT ![w] = "confirm"] /\ "confirm" \in WorkerSteps
      BY <1>4, <2>2 DEF Goto
    <3>2. QED  BY <1>2, <1>16, <2>2, <3>1, MoveInv DEF PutFile
  <2>3. QED  BY <1>16, <2>1, <2>2 DEF PutFile
<1>17. CASE Confirm(w)
  <2>1. CASE Raise(w)
    BY <1>5, <1>8, <1>17, <2>1 DEF Confirm
  <2>2. CASE ~Raise(w)
    <3>1. PICK s \in {"publish", "backoff"} : Goto(w, s) /\ faults' = faults
      BY <1>17, <2>2 DEF Confirm
    <3>2. damage = 0 => object = "valid"
      BY <1>1, <1>17 DEF Confirm, Intact
    <3>3. QED  BY <1>2, <1>4, <1>7, <1>17, <3>1, <3>2 DEF Confirm
  <2>3. QED  BY <2>1, <2>2
<1>20. CASE Enqueue(w)
  <2> DEFINE new == [row EXCEPT !.status = "queued", !.attempts = copy[w].attempts + 1]
  <2>1. copy[w].attempts + 1 \in 0..MaxAutoAttempts
    BY <1>1, <1>20, Limits DEF Enqueue, Sane, TypeOK, Row
  <2>2. new \in Row /\ new.status = "queued"
    BY <1>1, <1>6, <2>1, RowTypes
  <2>3. Cas(w, {"pending"}, new) /\ wpc[w] # "idle"
        /\ UNCHANGED <<lease, object, clientVars, history>>
    BY <1>20 DEF Enqueue
  <2> HIDE DEF new
  <2>4. QED  BY <1>1, <2>2, <2>3, CasInv DEF ACTIVE, TypeOK
<1>21. CASE Follow(w)
  <2> DEFINE wanted == IF copy[w].status = "queued" THEN "rendering" ELSE "queued"
             new == [row EXCEPT !.status = wanted]
  <2>1. wanted \in {"rendering", "queued"}
    OBVIOUS
  <2>2. Cas(w, {"queued", "rendering"}, new) /\ wpc[w] # "idle"
        /\ UNCHANGED <<lease, object, clientVars, history>>
    BY <1>21 DEF Follow
  <2>3. new \in Row /\ new.status = wanted
    BY <1>1, <1>6, <2>1, RowTypes
  <2> HIDE DEF new, wanted
  <2>4. QED  BY <1>1, <2>1, <2>2, <2>3, CasInv DEF ACTIVE, TypeOK
<1>22. CASE Accept(w)
  <2> DEFINE new == [row EXCEPT !.status = "uploading"]
  <2>1. Cas(w, {"queued", "rendering"}, new) /\ wpc[w] # "idle"
        /\ UNCHANGED <<lease, object, clientVars, history>>
    BY <1>22 DEF Accept
  <2>2. new \in Row /\ new.status = "uploading"
    BY <1>1, <1>6, RowTypes
  <2> HIDE DEF new
  <2>3. QED  BY <1>1, <2>1, <2>2, CasInv DEF ACTIVE, TypeOK
<1>23. CASE Resubmit(w)
  <2> DEFINE new == [row EXCEPT !.status = "pending"]
             from == IF copy[w].status = "uploading" THEN {"uploading"}
                     ELSE {"queued", "rendering"}
  <2>1. Cas(w, from, new) /\ wpc[w] # "idle" /\ UNCHANGED <<lease, object, clientVars, history>>
    BY <1>23 DEF Resubmit
  <2>2. new \in Row /\ new.status = "pending"
    BY <1>1, <1>6, RowTypes
  <2>3. from \subseteq ACTIVE
    BY DEF ACTIVE
  <2> HIDE DEF new, from
  <2>4. QED  BY <1>1, <2>1, <2>2, <2>3, CasInv DEF TypeOK
<1>24. CASE Publish(w)
  <2>1. ReadyRow \in Row /\ ReadyRow.status = "ready" /\ ReadyRow.key
    BY <1>1, RowTypes
  <2>2. /\ Cas(w, ACTIVE, ReadyRow) /\ wpc[w] = "publish"
        /\ UNCHANGED <<object, clientVars, history>>
    BY <1>24 DEF Publish
  <2>3. lease' \in BOOLEAN /\ (lease' = lease \/ row.status \in ACTIVE)
    BY <1>1, <1>24 DEF Publish, TypeOK
  <2>4. damage = 0 => object = "valid"
    BY <1>1, <2>2 DEF Intact
  <2>5. QED  BY <2>1, <2>2, <2>3, <2>4, CasInv DEF TERMINAL
<1>25. CASE Adopt(w)
  <2>1. ReadyRow \in Row /\ ReadyRow.status = "ready" /\ ReadyRow.key
    BY <1>1, RowTypes
  <2>2. damage = 0 => object = "valid"
    BY <1>1, <1>25 DEF Intact, Adopt
  <2>3. CASE row.status \in ACTIVE
    <3>1. /\ Cas(w, ACTIVE, ReadyRow) /\ wpc[w] = "adopt" /\ lease' = FALSE
          /\ UNCHANGED <<object, clientVars, history>>
      BY <1>25, <2>3 DEF Adopt
    <3>2. QED  BY <2>1, <2>2, <2>3, <3>1, CasInv DEF TERMINAL
  <2>4. CASE row.status \notin ACTIVE
    <3>1. /\ Goto(w, NotAdopted(w)) /\ wpc[w] = "adopt" /\ faults' = faults
          /\ UNCHANGED <<row, lease, object, copy, clientVars, damage, lapsed, reopened>>
      BY <1>25, <2>4 DEF Adopt, history
    <3>2. QED  BY <1>2, <1>3, <1>4, <1>7, <3>1
  <2>5. QED  BY <2>3, <2>4
<1>26. CASE Fail(w)
  <2> DEFINE new == [row EXCEPT !.status = "failed"]
  <2>1. new \in Row /\ new.status = "failed"
    BY <1>1, <1>6, RowTypes
  <2>2. /\ Cas(w, ACTIVE, new) /\ wpc[w] = "fail"
        /\ UNCHANGED <<object, clientVars, history>>
    BY <1>26 DEF Fail
  <2>3. lease' \in BOOLEAN /\ (lease' = lease \/ row.status \in ACTIVE)
    BY <1>1, <1>26 DEF Fail, TypeOK
  <2> HIDE DEF new
  <2>4. QED  BY <2>1, <2>2, <2>3, CasInv DEF TERMINAL
<1>27. CASE Release(w) \/ Backoff(w)
  <2>1. /\ Return(w) /\ wpc[w] # "idle" /\ lease' \in BOOLEAN
        /\ UNCHANGED <<row, object, clientVars, history>>
    BY <1>27 DEF Release, Backoff
  <2>2. faults' \in 0..MaxFaults /\ UNCHANGED <<damage, lapsed, reopened>>
    BY <1>1, <2>1 DEF TypeOK, history
  <2>3. QED  BY <2>1, <2>2, ReturnInv
<1>30. QED
  BY <1>10, <1>11, <1>12, <1>13, <1>14, <1>15, <1>16, <1>17, <1>20, <1>21, <1>22,
     <1>23, <1>24, <1>25, <1>26, <1>27 DEF WorkerStep
\* The claim: a free active row has no working call.
LEMMA ClaimInv ==
    ASSUME Inv, NEW w \in Workers, Claim(w)
    PROVE  Inv'
<1>1. TypeOK
  BY DEF Inv, Sane
<1>2. EntryStep(row.status) \in {"poll", "stat"}
  BY DEF EntryStep
<1>3. EntryStep(row.status) \in WorkerSteps
  BY <1>2 DEF WorkerSteps
<1>4. wpc' = [wpc EXCEPT ![w] = EntryStep(row.status)] /\ copy' = [copy EXCEPT ![w] = row]
  BY DEF Claim, Goto
<1>5. /\ wpc' \in [Workers -> WorkerSteps]
      /\ copy' \in [Workers -> Row]
      /\ wpc'[w] \in {"poll", "stat"}
      /\ \A v \in Workers : v # w => wpc'[v] = wpc[v] /\ copy'[v] = copy[v]
  BY <1>1, <1>2, <1>3, <1>4 DEF TypeOK
<1>6. lease' = TRUE /\ ~lease /\ row.status \in ACTIVE
  BY DEF Claim
<1>7. UNCHANGED <<row, object, clientVars, history>>
  BY DEF Claim
<1>8. TypeOK'
  BY <1>1, <1>5, <1>6, <1>7 DEF TypeOK, clientVars, history
<1>9. Sane'
  BY <1>5, <1>7, <1>8 DEF Inv, Sane, clientVars
<1>10. Intact'
  BY <1>5, <1>7 DEF Inv, Intact, clientVars, history
<1>11. Exclusive'
  <2>1. row.status \notin TERMINAL
    BY <1>6 DEF ACTIVE, TERMINAL
  <2>2. ~lapsed /\ ~reopened => \A v \in Workers : wpc[v] = "idle"
    BY <1>6, <2>1 DEF Inv, Exclusive
  <2>3. QED  BY <1>5, <1>6, <1>7, <2>2 DEF Exclusive, history
<1>12. QED  BY <1>9, <1>10, <1>11 DEF Inv

\* The death of a process.
LEMMA CrashInv ==
    ASSUME Inv, NEW w \in Workers, Crash(w)
    PROVE  Inv'
<1>1. TypeOK
  BY DEF Inv, Sane
<1>2. faults' \in 0..MaxFaults
  BY <1>1, Limits DEF TypeOK, Crash, Fault
<1>3. lease' \in BOOLEAN /\ wpc[w] # "idle" /\ Return(w)
  BY <1>1 DEF TypeOK, Crash
<1>4. QED  BY <1>2, <1>3, ReturnInv DEF Crash

-----------------------------------------------------------------------------
\* The environment: registration, time and the object store.
LEMMA EnvironmentInv ==
    ASSUME Inv, Register \/ LeaseExpires \/ LeaseLapses \/ GrowOld \/ Damage
    PROVE  Inv'
<1>1. TypeOK /\ Sane /\ Intact /\ Exclusive
  BY DEF Inv, Sane
<1>2. CASE Register
  <2>1. row' = [NewRow EXCEPT !.status = "pending"] /\ row.status = "absent"
    BY <1>2 DEF Register
  <2>2. row' \in Row /\ row'.status = "pending"
    BY <1>1, <2>1, RowTypes DEF Row, Status, ACTIVE
  <2>3. UNCHANGED <<lease, object, wpc, copy, cpc, read, faults, damage, lapsed, reopened>>
    BY <1>2 DEF Register, workerVars, clientVars, history
  <2>4. Sane'
    BY <1>1, <2>2, <2>3 DEF Sane, TypeOK
  <2>5. Intact'
    BY <1>1, <2>2, <2>3 DEF Intact
  <2>6. Exclusive'
    BY <1>1, <2>1, <2>3 DEF Exclusive, TERMINAL
  <2>7. QED  BY <2>4, <2>5, <2>6 DEF Inv
<1>3. CASE LeaseExpires \/ LeaseLapses
  <2>1. lease' = FALSE /\ UNCHANGED <<row, object, wpc, copy, cpc, read, damage, reopened>>
    BY <1>3 DEF LeaseExpires, LeaseLapses, workerVars, clientVars, history
  <2>2. faults' \in 0..MaxFaults
    BY <1>1, <1>3, Limits DEF TypeOK, LeaseExpires, LeaseLapses, Fault, history
  <2>3. lapsed' \in BOOLEAN
    BY <1>1, <1>3 DEF TypeOK, LeaseExpires, LeaseLapses, history
  <2>4. lapsed' \/ (lapsed' = lapsed /\ \A w \in Workers : wpc[w] = "idle")
    BY <1>3 DEF LeaseExpires, LeaseLapses, Busy, history
  <2>5. Sane'
    BY <1>1, <2>1, <2>2, <2>3 DEF Sane, TypeOK
  <2>6. Intact'
    BY <1>1, <2>1 DEF Intact
  <2>7. Exclusive'
    BY <1>1, <2>1, <2>4 DEF Exclusive
  <2>8. QED  BY <2>5, <2>6, <2>7 DEF Inv
<1>4. CASE GrowOld
  <2>1. row' = [row EXCEPT !.old = TRUE]
    BY <1>4 DEF GrowOld
  <2>2. row' \in Row /\ row'.status = row.status /\ row'.key = row.key
    BY <1>1, <2>1 DEF TypeOK, Row
  <2>3. UNCHANGED <<lease, object, wpc, copy, cpc, read, faults, damage, lapsed, reopened>>
    BY <1>4 DEF GrowOld, workerVars, clientVars, history
  <2>4. Sane'
    BY <1>1, <2>2, <2>3 DEF Sane, TypeOK
  <2>5. Intact'
    BY <1>1, <2>2, <2>3 DEF Intact
  <2>6. Exclusive'
    BY <1>1, <2>2, <2>3 DEF Exclusive
  <2>7. QED  BY <2>4, <2>5, <2>6 DEF Inv
<1>5. CASE Damage
  <2>1. /\ object' \in {"none", "invalid"}
        /\ UNCHANGED <<row, lease, wpc, copy, cpc, read, faults, lapsed, reopened>>
    BY <1>5 DEF Damage, workerVars, clientVars
  <2>2. damage' \in 0..MaxDamage /\ damage' # 0
    BY <1>1, <1>5, Limits DEF TypeOK, Damage
  <2>3. Sane'
    BY <1>1, <2>1, <2>2 DEF Sane, TypeOK
  <2>4. Intact'
    BY <2>2 DEF Intact
  <2>5. Exclusive'
    BY <1>1, <2>1 DEF Exclusive
  <2>6. QED  BY <2>3, <2>4, <2>5 DEF Inv
<1>6. QED  BY <1>2, <1>3, <1>4, <1>5

-----------------------------------------------------------------------------
\* A client that makes the row pending again: a call that still works is told
\* apart by reopened, and the row was not a ready one of an intact store.
LEMMA ReopenInv ==
    ASSUME Inv, NEW c \in Clients,
           cpc' = [cpc EXCEPT ![c] = "idle"],
           read' \in [Clients -> 0..MaxManualRetries],
           \A d \in Clients : d # c => read'[d] = read[d],
           row' \in Row,
           row'.status = "pending",
           lease' = FALSE,
           reopened' = (reopened \/ Busy # {}),
           UNCHANGED <<object, workerVars, faults, damage, lapsed>>
    PROVE  Inv'
<1>1. TypeOK
  BY DEF Inv, Sane
<1>2. /\ cpc' \in [Clients -> {"idle", "retry", "stat", "missing"}]
      /\ cpc'[c] = "idle"
      /\ \A d \in Clients : d # c => cpc'[d] = cpc[d]
  BY <1>1 DEF TypeOK
<1>3. reopened' \in BOOLEAN
  BY <1>1 DEF TypeOK
<1>4. TypeOK'
  BY <1>1, <1>2, <1>3 DEF TypeOK, workerVars
<1>5. Sane'
  BY <1>2, <1>4 DEF Inv, Sane, workerVars
<1>6. Intact'
  BY <1>2 DEF Inv, Intact, workerVars
<1>7. ~reopened' => \A w \in Workers : wpc'[w] = "idle"
  BY DEF Busy, workerVars
<1>8. Exclusive'
  BY <1>7 DEF Exclusive
<1>9. QED  BY <1>5, <1>6, <1>8 DEF Inv

\* A step of a client that leaves the row alone.
LEMMA LookInv ==
    ASSUME Inv, NEW c \in Clients, NEW s \in {"idle", "retry", "stat", "missing"},
           cpc' = [cpc EXCEPT ![c] = s],
           read' \in [Clients -> 0..MaxManualRetries],
           s = "retry" => read'[c] < MaxManualRetries,
           \A d \in Clients : d # c => read'[d] = read[d],
           damage = 0 => s # "missing" /\ (s = "stat" => object = "valid"),
           UNCHANGED <<row, lease, object, workerVars, history>>
    PROVE  Inv'
<1>1. TypeOK
  BY DEF Inv, Sane
<1>2. /\ cpc' \in [Clients -> {"idle", "retry", "stat", "missing"}]
      /\ cpc'[c] = s
      /\ \A d \in Clients : d # c => cpc'[d] = cpc[d]
  BY <1>1 DEF TypeOK
<1>3. TypeOK'
  BY <1>1, <1>2 DEF TypeOK, workerVars, history
<1>4. Sane'
  BY <1>2, <1>3 DEF Inv, Sane, workerVars
<1>5. Intact'
  BY <1>2 DEF Inv, Intact, workerVars, history
<1>6. Exclusive'
  BY DEF Inv, Exclusive, workerVars, history
<1>7. QED  BY <1>4, <1>5, <1>6 DEF Inv

\* The requests for the media and the retries.
LEMMA ClientInv ==
    ASSUME Inv, NEW c \in Clients, ClientStep(c)
    PROVE  Inv'
<1>1. TypeOK /\ Sane /\ Intact
  BY DEF Inv, Sane
<1>2. CASE StartRetry(c)
  <2>1. cpc' = [cpc EXCEPT ![c] = "retry"] /\ read' = [read EXCEPT ![c] = row.retries]
    BY <1>2 DEF StartRetry
  <2>2. row.retries \in 0..MaxManualRetries /\ row.retries < MaxManualRetries
    BY <1>1, <1>2 DEF StartRetry, TypeOK, Row
  <2>3. /\ read' \in [Clients -> 0..MaxManualRetries] /\ read'[c] < MaxManualRetries
        /\ \A d \in Clients : d # c => read'[d] = read[d]
    BY <1>1, <2>1, <2>2 DEF TypeOK
  <2>4. UNCHANGED <<row, lease, object, workerVars, history>>
    BY <1>2 DEF StartRetry
  <2>5. QED  BY <2>1, <2>3, <2>4, LookInv
<1>3. CASE Retry(c)
  <2>1. cpc' = [cpc EXCEPT ![c] = "idle"] /\ read' = [read EXCEPT ![c] = 0]
    BY <1>3 DEF Retry
  <2>2. /\ read' \in [Clients -> 0..MaxManualRetries]
        /\ \A d \in Clients : d # c => read'[d] = read[d]
    BY <1>1, <2>1, Limits DEF TypeOK
  <2>3. CASE row.status = "failed"
    <3>1. /\ row' = [row EXCEPT !.status = "pending", !.attempts = 0,
                                !.retries = read[c] + 1, !.old = FALSE]
          /\ lease' = FALSE
          /\ reopened' = (reopened \/ Busy # {})
          /\ UNCHANGED <<object, workerVars, faults, damage, lapsed>>
      BY <1>3, <2>3 DEF Retry
    <3>2. read[c] + 1 \in 0..MaxManualRetries /\ 0 \in 0..MaxAutoAttempts
      BY <1>1, <1>3, Limits DEF Retry, Sane, TypeOK
    <3>3. row' \in Row /\ row'.status = "pending"
      BY <1>1, <3>1, <3>2 DEF TypeOK, Row, Status, ACTIVE
    <3>4. QED  BY <2>1, <2>2, <3>1, <3>3, ReopenInv
  <2>4. CASE row.status # "failed"
    <3>1. UNCHANGED <<row, lease, object, workerVars, history>>
      BY <1>3, <2>4 DEF Retry, history
    <3>2. QED  BY <2>1, <2>2, <3>1, LookInv
  <2>5. QED  BY <2>3, <2>4
<1>4. CASE GetMedia(c)
  <2>1. /\ cpc' = [cpc EXCEPT ![c] = "stat"] /\ read' = read
        /\ row.status = "ready"
        /\ UNCHANGED <<row, lease, object, workerVars, history>>
    BY <1>4 DEF GetMedia
  <2>2. read' \in [Clients -> 0..MaxManualRetries]
    BY <1>1, <2>1 DEF TypeOK
  <2>3. damage = 0 => object = "valid"
    BY <1>1, <2>1 DEF Intact
  <2>4. QED  BY <2>1, <2>2, <2>3, LookInv
<1>5. CASE StatMedia(c)
  <2> DEFINE s == IF object = "none" THEN "missing" ELSE "idle"
  <2>1. /\ cpc' = [cpc EXCEPT ![c] = s] /\ read' = read /\ cpc[c] = "stat"
        /\ UNCHANGED <<row, lease, object, workerVars, history>>
    BY <1>5 DEF StatMedia
  <2>2. read' \in [Clients -> 0..MaxManualRetries]
    BY <1>1, <2>1 DEF TypeOK
  <2>3. s \in {"idle", "missing"} /\ (damage = 0 => s # "missing")
    BY <1>1, <2>1 DEF Intact
  <2> HIDE DEF s
  <2>4. QED  BY <2>1, <2>2, <2>3, LookInv
<1>6. CASE MarkMissing(c)
  <2>1. cpc' = [cpc EXCEPT ![c] = "idle"] /\ read' = read
    BY <1>6 DEF MarkMissing
  <2>2. read' \in [Clients -> 0..MaxManualRetries]
    BY <1>1, <2>1 DEF TypeOK
  <2>3. CASE row.status = "ready"
    <3>1. /\ row' = [row EXCEPT !.status = "pending", !.attempts = 0,
                                !.key = FALSE, !.old = FALSE]
          /\ lease' = FALSE
          /\ reopened' = (reopened \/ Busy # {})
          /\ UNCHANGED <<object, workerVars, faults, damage, lapsed>>
      BY <1>6, <2>3 DEF MarkMissing
    <3>a. 0 \in 0..MaxAutoAttempts /\ "pending" \in Status
      BY Limits DEF Status, ACTIVE
    <3>2. row' \in Row /\ row'.status = "pending"
      BY <1>1, <3>1, <3>a DEF TypeOK, Row
    <3>3. QED  BY <2>1, <2>2, <3>1, <3>2, ReopenInv
  <2>4. CASE row.status # "ready"
    <3>1. UNCHANGED <<row, lease, object, workerVars, history>>
      BY <1>6, <2>4 DEF MarkMissing, history
    <3>2. QED  BY <2>1, <2>2, <3>1, LookInv
  <2>5. QED  BY <2>3, <2>4
<1>7. QED  BY <1>2, <1>3, <1>4, <1>5, <1>6 DEF ClientStep

-----------------------------------------------------------------------------
\* The invariant is inductive.
LEMMA NextInv == Inv /\ [Next]_vars => Inv'
<1> SUFFICES ASSUME Inv, [Next]_vars PROVE Inv'
  OBVIOUS
<1>1. ASSUME NEW c \in Clients, ClientStep(c) PROVE Inv'
  BY <1>1, ClientInv
<1>2. ASSUME NEW w \in Workers, Claim(w) \/ WorkerStep(w) \/ Crash(w) PROVE Inv'
  BY <1>2, ClaimInv, WorkerInv, CrashInv
<1>3. CASE UNCHANGED vars
  <2>1. UNCHANGED <<row, lease, object, wpc, copy, cpc, read, faults, damage, lapsed, reopened>>
    BY <1>3 DEF vars, workerVars, clientVars, history
  <2>2. Sane'
    BY <2>1 DEF Inv, Sane, TypeOK
  <2>3. Intact' /\ Exclusive'
    BY <2>1 DEF Inv, Intact, Exclusive
  <2>4. QED  BY <2>2, <2>3 DEF Inv
<1>4. QED  BY <1>1, <1>2, <1>3, EnvironmentInv DEF Next, Requests

\* The inductive invariant holds in every reachable state.
LEMMA InvHolds == Spec => []Inv
BY InitInv, NextInv, PTL DEF Spec

\* Type correctness: in particular the attempts and the manual retries of the
\* row never pass ARTIFACT_MAX_AUTO_ATTEMPTS and ARTIFACT_MAX_MANUAL_RETRIES,
\* although both are written from a copy read in an earlier transaction.
THEOREM TypeCorrect == Spec => []TypeOK
<1>1. Inv => TypeOK
  BY DEF Inv, Sane
<1>2. QED  BY <1>1, InvHolds, PTL

\* ArtifactService publishes a row only for a stored, valid object: as long as
\* the store keeps what it was given, a ready row has one.
THEOREM ReadyIsStored == Spec => []ReadyHasObject
<1>1. Inv => ReadyHasObject
  BY DEF Inv, Intact, ReadyHasObject
<1>2. QED  BY <1>1, InvHolds, PTL

\* The lease of _claim lets one call of advance() work at a time, until it
\* lapses or the row is reopened under the call.
THEOREM LeaseExcludes == Spec => []OneAdvancer
<1>1. ASSUME Inv PROVE OneAdvancer
  <2> SUFFICES ASSUME ~lapsed, ~reopened PROVE Cardinality(Busy) <= 1
    BY DEF OneAdvancer
  <2>1. \A v, w \in Busy : v = w
    BY <1>1 DEF Inv, Exclusive, Busy
  <2>2. CASE Busy = {}
    BY <2>2, FS_EmptySet
  <2>3. CASE Busy # {}
    <3>1. PICK w : w \in Busy
      BY <2>3
    <3>2. Busy = {w}
      BY <2>1, <3>1
    <3>3. Cardinality({w}) = 1
      BY FS_Singleton
    <3>4. QED  BY <3>2, <3>3
  <2>4. QED  BY <2>2, <2>3
<1>2. QED  BY <1>1, InvHolds, PTL

-----------------------------------------------------------------------------
\* No compare-and-set of a worker has ready among the statuses it expects.
LEMMA WorkersKeepReady ==
    ASSUME TypeOK, NEW w \in Workers, WorkerStep(w), row.status = "ready"
    PROVE  row'.status = "ready"
<1>1. ASSUME NEW from, NEW new, Cas(w, from, new), "ready" \notin from PROVE row' = row
  BY <1>1 DEF Cas
<1>2. "ready" \notin ACTIVE
  BY DEF ACTIVE
<1>3. CASE Enqueue(w) \/ Follow(w) \/ Accept(w) \/ Resubmit(w)
  <2>1. \E from \in {{"pending"}, {"uploading"}, {"queued", "rendering"}} :
           \E new : Cas(w, from, new)
    BY <1>3 DEF Enqueue, Follow, Accept, Resubmit
  <2>2. QED  BY <1>1, <2>1
<1>4. CASE Publish(w) \/ Fail(w)
  BY <1>1, <1>2, <1>4 DEF Publish, Fail
<1>5. CASE Adopt(w)
  BY <1>2, <1>5 DEF Adopt
<1>6. QED
  BY <1>3, <1>4, <1>5 DEF WorkerStep, StatObject, FetchObject, DeleteInvalid, Submit, Poll,
     Download, PutFile, Confirm, Release, Backoff

\* A ready row stays ready, in every interleaving, while the store loses
\* nothing: the compare-and-sets of the workers and the retry do not expect
\* ready, and mark_object_missing runs only for an object that is gone.
THEOREM ReadyIsFinal == Spec => ReadyStands
<1>1. ASSUME Inv, [Next]_vars
      PROVE  [row.status = "ready" /\ damage = 0 => row'.status = "ready"]_vars
  <2> SUFFICES ASSUME Next, row.status = "ready", damage = 0 PROVE row'.status = "ready"
    BY <1>1
  <2>1. TypeOK /\ Intact
    BY <1>1 DEF Inv, Sane
  <2>2. ASSUME NEW c \in Clients, ClientStep(c) PROVE row'.status = "ready"
    <3>1. cpc[c] # "missing"
      BY <2>1 DEF Intact
    <3>2. QED  BY <2>2, <3>1 DEF ClientStep, StartRetry, Retry, GetMedia, StatMedia, MarkMissing
  <2>3. ASSUME NEW w \in Workers, Claim(w) \/ Crash(w) PROVE row'.status = "ready"
    BY <2>3 DEF Claim, Crash
  <2>4. CASE Register \/ LeaseExpires \/ LeaseLapses \/ GrowOld \/ Damage
    BY <2>4 DEF Register, LeaseExpires, LeaseLapses, GrowOld, Damage, ACTIVE
  <2>5. QED  BY <2>1, <2>2, <2>3, <2>4, WorkersKeepReady DEF Next, Requests
<1>2. QED  BY <1>1, InvHolds, PTL DEF Spec, ReadyStands
=============================================================================
