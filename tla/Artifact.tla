------------------------------ MODULE Artifact ------------------------------
(***************************************************************************)
(* One row of the artifact registry and the object stored for it:          *)
(* ArtifactService with the endpoints of api/v1/artifacts.py.  A worker is *)
(* one call of advance(), from the background loop of a pod or from a      *)
(* request's wake-up; a client is one request for the media or a retry.    *)
(* A step is one transaction, one object-store call or one call of         *)
(* llm-service with the code up to the next one.                           *)
(***************************************************************************)
EXTENDS Naturals, FiniteSets

CONSTANTS
    Workers,            \* concurrent advance() calls
    Clients,            \* concurrent requests
    MaxAutoAttempts,    \* ARTIFACT_MAX_AUTO_ATTEMPTS
    MaxManualRetries,   \* ARTIFACT_MAX_MANUAL_RETRIES
    MaxFaults,          \* bound: failing calls, crashes and lapsing leases
    MaxDamage           \* bound: objects the store loses or spoils

ASSUME LimitsAssumption ==
    {MaxAutoAttempts, MaxManualRetries, MaxFaults, MaxDamage} \subseteq Nat

VARIABLES
    row,        \* status, counters and whether object_key is set
    lease,      \* lease_until lies in the future
    object,     \* what the store has under video_object_key
    wpc,        \* per worker: the next step
    copy,       \* per worker: the row as it last read it
    cpc,        \* per client: the next step
    read,       \* per client: the retry_count it read
    faults,     \* failing calls, crashes and lapses so far
    damage,     \* history: times the store lost or spoiled the object
    lapsed,     \* history: a lease ran out under a working advance()
    reopened    \* history: the row became pending again under an advance()

workerVars == <<wpc, copy>>
clientVars == <<cpc, read>>
history == <<faults, damage, lapsed, reopened>>
vars == <<row, lease, object, workerVars, clientVars, history>>

ACTIVE == {"pending", "queued", "rendering", "uploading"}
TERMINAL == {"ready", "failed"}
Status == ACTIVE \cup TERMINAL \cup {"absent"}

WorkerSteps ==
    {"idle", "stat", "fetch", "delete", "adopt", "publish", "submit", "enqueue", "poll",
     "follow", "accept", "resubmit", "download", "put", "confirm", "fail",
     "release", "backoff"}

Row == [status : Status, attempts : 0..MaxAutoAttempts, retries : 0..MaxManualRetries,
        old : BOOLEAN, key : BOOLEAN]

TypeOK ==
    /\ row \in Row
    /\ lease \in BOOLEAN
    /\ object \in {"none", "valid", "invalid"}
    /\ wpc \in [Workers -> WorkerSteps]
    /\ copy \in [Workers -> Row]
    /\ cpc \in [Clients -> {"idle", "retry", "stat", "missing"}]
    /\ read \in [Clients -> 0..MaxManualRetries]
    /\ faults \in 0..MaxFaults
    /\ damage \in 0..MaxDamage
    /\ lapsed \in BOOLEAN
    /\ reopened \in BOOLEAN

NewRow == [status |-> "absent", attempts |-> 0, retries |-> 0, old |-> FALSE, key |-> FALSE]

Init ==
    /\ row = NewRow
    /\ lease = FALSE
    /\ object = "none"
    /\ wpc = [w \in Workers |-> "idle"]
    /\ copy = [w \in Workers |-> NewRow]
    /\ cpc = [c \in Clients |-> "idle"]
    /\ read = [c \in Clients |-> 0]
    /\ faults = 0
    /\ damage = 0
    /\ lapsed = FALSE
    /\ reopened = FALSE

Goto(w, step) == wpc' = [wpc EXCEPT ![w] = step]
Fault == faults < MaxFaults /\ faults' = faults + 1
Return(w) == Goto(w, "idle") /\ copy' = [copy EXCEPT ![w] = NewRow]
Busy == {w \in Workers : wpc[w] # "idle"}

-----------------------------------------------------------------------------
\* register(): the UNIQUE constraint makes a second registration a no-op.  A
\* diagram is ready at once and has no lifecycle; this is an animation.
Register ==
    /\ row.status = "absent"
    /\ row' = [NewRow EXCEPT !.status = "pending"]
    /\ UNCHANGED <<lease, object, workerVars, clientVars, history>>

\* _claim() for an id that active_ids() or a request's _wake() named, and the
\* first dispatch of _step().
EntryStep(status) == IF status \in {"queued", "rendering"} THEN "poll" ELSE "stat"

\* Mutant: the claim does not look at the lease.
ClaimAnyway(w) ==
    /\ wpc[w] = "idle"
    /\ row.status \in ACTIVE
    /\ lease' = TRUE
    /\ copy' = [copy EXCEPT ![w] = row]
    /\ Goto(w, EntryStep(row.status))
    /\ UNCHANGED <<row, object, clientVars, history>>

Claim(w) ==
    /\ wpc[w] = "idle"
    /\ row.status \in ACTIVE
    /\ ~lease
    /\ lease' = TRUE
    /\ copy' = [copy EXCEPT ![w] = row]
    /\ Goto(w, EntryStep(row.status))
    /\ UNCHANGED <<row, object, clientVars, history>>

-----------------------------------------------------------------------------
\* _cas(): the update happens if the status is an expected one.  advance()
\* takes the next step with the row it returns, and leaves its loop when the
\* row is terminal or unchanged, the race is lost, or five steps are done
\* (here a choice).
\* Mutant: the status is not compared.
CasAnyway(w, from, new) ==
    /\ row' = [new EXCEPT !.old = FALSE]
    /\ copy' = [copy EXCEPT ![w] = row']
    /\ Goto(w, "release")

Cas(w, from, new) ==
    IF row.status \in from
    THEN /\ row' = [new EXCEPT !.old = FALSE]
         /\ copy' = [copy EXCEPT ![w] = row']
         /\ \/ Goto(w, "release")
            \/ new.status \in ACTIVE /\ Goto(w, EntryStep(new.status))
    ELSE UNCHANGED <<row, copy>> /\ Goto(w, "release")

\* An exception of a call: advance() keeps the row and pauses.
Raise(w) == Fault /\ Goto(w, "backoff")

\* What _dispatch and _upload do when there is no object to adopt.
NotAdopted(w) ==
    IF copy[w].status = "uploading" THEN "download"
    ELSE IF copy[w].attempts >= MaxAutoAttempts THEN "fail" ELSE "submit"

\* _adopt_existing_object: stat, then fetch and validate.
StatObject(w) ==
    /\ wpc[w] = "stat"
    /\ \/ Goto(w, IF object = "none" THEN NotAdopted(w) ELSE "fetch") /\ UNCHANGED faults
       \/ Raise(w)
    /\ UNCHANGED <<row, lease, object, copy, clientVars, damage, lapsed, reopened>>

FetchObject(w) ==
    /\ wpc[w] = "fetch"
    /\ \/ /\ Goto(w, CASE object = "valid" -> "adopt"
                       [] object = "invalid" -> "delete"
                       [] OTHER -> "backoff")
          /\ UNCHANGED faults
       \/ Raise(w)
    /\ UNCHANGED <<row, lease, object, copy, clientVars, damage, lapsed, reopened>>

DeleteInvalid(w) ==
    /\ wpc[w] = "delete"
    /\ \/ object' = "none" /\ Goto(w, NotAdopted(w)) /\ UNCHANGED faults
       \/ object' \in {object, "none"} /\ Raise(w)
    /\ UNCHANGED <<row, lease, copy, clientVars, damage, lapsed, reopened>>

-----------------------------------------------------------------------------
\* _dispatch: submit the render, then record the job.
Submit(w) ==
    /\ wpc[w] = "submit"
    /\ \/ wpc' \in {[wpc EXCEPT ![w] = s] : s \in {"enqueue", "fail"}} /\ UNCHANGED faults
       \/ Raise(w)
    /\ UNCHANGED <<row, lease, object, copy, clientVars, damage, lapsed, reopened>>

Enqueue(w) ==
    /\ wpc[w] = "enqueue"
    /\ Cas(w, {"pending"},
           [row EXCEPT !.status = "queued", !.attempts = copy[w].attempts + 1])
    /\ UNCHANGED <<lease, object, clientVars, history>>

\* _poll: llm-service may know nothing of the job, or report any state of it;
\* a job that has started is not reported as waiting again.
Wanted(answer) == IF answer = "pending" THEN "queued" ELSE "rendering"

\* Mutant: a render that never ends is never given up.
PollForEver(w, answer) ==
    CASE answer = "lost" -> IF copy[w].attempts >= MaxAutoAttempts THEN "fail" ELSE "resubmit"
      [] answer = "ready" -> "accept"
      [] answer = "failed" -> "fail"
      [] OTHER -> IF copy[w].status # Wanted(answer) THEN "follow" ELSE "release"

AfterPoll(w, answer) ==
    CASE answer = "lost" -> IF copy[w].attempts >= MaxAutoAttempts THEN "fail" ELSE "resubmit"
      [] answer = "ready" -> "accept"
      [] answer = "failed" \/ copy[w].old -> "fail"
      [] OTHER -> IF copy[w].status # Wanted(answer) THEN "follow" ELSE "release"

Poll(w) ==
    /\ wpc[w] = "poll"
    /\ \/ /\ \E answer \in {"lost", "ready", "failed", "pending", "running"} :
               /\ answer = "pending" => copy[w].status = "queued"
               /\ Goto(w, AfterPoll(w, answer))
          /\ UNCHANGED faults
       \/ Raise(w)
    /\ UNCHANGED <<row, lease, object, copy, clientVars, damage, lapsed, reopened>>

Follow(w) ==
    /\ wpc[w] = "follow"
    /\ LET wanted == IF copy[w].status = "queued" THEN "rendering" ELSE "queued"
       IN  Cas(w, {"queued", "rendering"}, [row EXCEPT !.status = wanted])
    /\ UNCHANGED <<lease, object, clientVars, history>>

Accept(w) ==
    /\ wpc[w] = "accept"
    /\ Cas(w, {"queued", "rendering"}, [row EXCEPT !.status = "uploading"])
    /\ UNCHANGED <<lease, object, clientVars, history>>

\* The job or its file is gone: render again, from _poll or from _upload.
Resubmit(w) ==
    /\ wpc[w] = "resubmit"
    /\ Cas(w, IF copy[w].status = "uploading" THEN {"uploading"} ELSE {"queued", "rendering"},
           [row EXCEPT !.status = "pending"])
    /\ UNCHANGED <<lease, object, clientVars, history>>

-----------------------------------------------------------------------------
\* _upload: fetch the file, validate it, store it, confirm it, publish it.
AfterDownload(w, file) ==
    CASE file = "gone" -> IF copy[w].attempts >= MaxAutoAttempts THEN "fail" ELSE "resubmit"
      [] file = "good" -> "put"
      [] OTHER -> "fail"

Download(w) ==
    /\ wpc[w] = "download"
    /\ \/ /\ \E file \in {"gone", "good", "bad", "rejected"} : Goto(w, AfterDownload(w, file))
          /\ UNCHANGED faults
       \/ Raise(w)
    /\ UNCHANGED <<row, lease, object, copy, clientVars, damage, lapsed, reopened>>

\* Mutant: the row is published without waiting for the object.
PutLater(w) ==
    /\ wpc[w] = "put"
    /\ Goto(w, "publish")
    /\ UNCHANGED <<row, object, lease, copy, clientVars, history>>

PutFile(w) ==
    /\ wpc[w] = "put"
    /\ \/ object' = "valid" /\ Goto(w, "confirm") /\ UNCHANGED faults
       \/ object' \in {object, "valid"} /\ Raise(w)
    /\ UNCHANGED <<row, lease, copy, clientVars, damage, lapsed, reopened>>

\* stat() and the comparison of sizes; the thumbnail that follows is best
\* effort and has no part in the lifecycle.
Confirm(w) ==
    /\ wpc[w] = "confirm"
    /\ \/ object # "none" /\ Goto(w, "publish") /\ UNCHANGED faults
       \/ object # "valid" /\ Goto(w, "backoff") /\ UNCHANGED faults
       \/ Raise(w)
    /\ UNCHANGED <<row, lease, object, copy, clientVars, damage, lapsed, reopened>>

\* The last update of _upload.
ReadyRow == [row EXCEPT !.status = "ready", !.key = TRUE]

Publish(w) ==
    /\ wpc[w] = "publish"
    /\ Cas(w, ACTIVE, ReadyRow)
    /\ lease' = (lease /\ row.status \notin ACTIVE)
    /\ UNCHANGED <<object, clientVars, history>>

\* The last update of _adopt_existing_object.  When it finds the row settled
\* it returns None, which its callers take for "nothing to adopt".
Adopt(w) ==
    /\ wpc[w] = "adopt"
    /\ IF row.status \in ACTIVE
       THEN Cas(w, ACTIVE, ReadyRow) /\ lease' = FALSE
       ELSE Goto(w, NotAdopted(w)) /\ UNCHANGED <<row, lease, copy>>
    /\ UNCHANGED <<object, clientVars, history>>

\* _fail
Fail(w) ==
    /\ wpc[w] = "fail"
    /\ Cas(w, ACTIVE, [row EXCEPT !.status = "failed"])
    /\ lease' = (lease /\ row.status \notin ACTIVE)
    /\ UNCHANGED <<object, clientVars, history>>

-----------------------------------------------------------------------------
\* How advance() ends: _release or _backoff, whoever holds the lease by now.
Release(w) ==
    /\ wpc[w] = "release"
    /\ lease' = FALSE
    /\ Return(w)
    /\ UNCHANGED <<row, object, clientVars, history>>

Backoff(w) ==
    /\ wpc[w] = "backoff"
    /\ lease' = TRUE
    /\ Return(w)
    /\ UNCHANGED <<row, object, clientVars, history>>

\* The process dies, or the database call of a step or of its release fails.
Crash(w) ==
    /\ wpc[w] # "idle"
    /\ Fault
    /\ Return(w)
    /\ UNCHANGED <<row, lease, object, clientVars, damage, lapsed, reopened>>

LeaseExpires ==
    /\ lease
    /\ Busy = {}
    /\ lease' = FALSE
    /\ UNCHANGED <<row, object, workerVars, clientVars, history>>

\* A step takes longer than ARTIFACT_LEASE_SECONDS.
LeaseLapses ==
    /\ lease
    /\ Busy # {}
    /\ Fault
    /\ lease' = FALSE
    /\ lapsed' = TRUE
    /\ UNCHANGED <<row, object, workerVars, clientVars, damage, reopened>>

\* updated_at is ARTIFACT_MAX_ACTIVE_SECONDS ago.
GrowOld ==
    /\ row.status \in ACTIVE
    /\ ~row.old
    /\ row' = [row EXCEPT !.old = TRUE]
    /\ UNCHANGED <<lease, object, workerVars, clientVars, history>>

\* The object store loses or spoils an object (disk, operator, other tools).
Damage ==
    /\ damage < MaxDamage
    /\ object = "valid"
    /\ object' \in {"none", "invalid"}
    /\ damage' = damage + 1
    /\ UNCHANGED <<row, lease, workerVars, clientVars, faults, lapsed, reopened>>

-----------------------------------------------------------------------------
\* POST /artifacts/{id}/retry: the row is read in one transaction and
\* restarted in another.
StartRetry(c) ==
    /\ cpc[c] = "idle"
    /\ row.status = "failed"
    /\ row.retries < MaxManualRetries
    /\ cpc' = [cpc EXCEPT ![c] = "retry"]
    /\ read' = [read EXCEPT ![c] = row.retries]
    /\ UNCHANGED <<row, lease, object, workerVars, history>>

Retry(c) ==
    /\ cpc[c] = "retry"
    /\ cpc' = [cpc EXCEPT ![c] = "idle"]
    /\ read' = [read EXCEPT ![c] = 0]
    /\ IF row.status = "failed"
       THEN /\ row' = [row EXCEPT !.status = "pending", !.attempts = 0,
                                  !.retries = read[c] + 1, !.old = FALSE]
            /\ lease' = FALSE
            /\ reopened' = (reopened \/ Busy # {})
       ELSE UNCHANGED <<row, lease, reopened>>
    /\ UNCHANGED <<object, workerVars, faults, damage, lapsed>>

\* GET /artifacts/{id}/media: a ready row whose object is gone is put back
\* into the lifecycle (mark_object_missing).
GetMedia(c) ==
    /\ cpc[c] = "idle"
    /\ row.status = "ready"
    /\ cpc' = [cpc EXCEPT ![c] = "stat"]
    /\ UNCHANGED <<row, lease, object, workerVars, read, history>>

StatMedia(c) ==
    /\ cpc[c] = "stat"
    /\ cpc' = [cpc EXCEPT ![c] = IF object = "none" THEN "missing" ELSE "idle"]
    /\ UNCHANGED <<row, lease, object, workerVars, read, history>>

MarkMissing(c) ==
    /\ cpc[c] = "missing"
    /\ cpc' = [cpc EXCEPT ![c] = "idle"]
    /\ IF row.status = "ready"
       THEN /\ row' = [row EXCEPT !.status = "pending", !.attempts = 0,
                                  !.key = FALSE, !.old = FALSE]
            /\ lease' = FALSE
            /\ reopened' = (reopened \/ Busy # {})
       ELSE UNCHANGED <<row, lease, reopened>>
    /\ UNCHANGED <<object, workerVars, read, faults, damage, lapsed>>

-----------------------------------------------------------------------------
WorkerStep(w) ==
    \/ StatObject(w) \/ FetchObject(w) \/ DeleteInvalid(w) \/ Adopt(w)
    \/ Submit(w) \/ Enqueue(w)
    \/ Poll(w) \/ Follow(w) \/ Accept(w) \/ Resubmit(w)
    \/ Download(w) \/ PutFile(w) \/ Confirm(w) \/ Publish(w) \/ Fail(w)
    \/ Release(w) \/ Backoff(w)

ClientStep(c) ==
    \/ StartRetry(c) \/ Retry(c)
    \/ GetMedia(c) \/ StatMedia(c) \/ MarkMissing(c)

\* The endpoints: POST /artifacts, and what clients do with the artifact.
Requests == Register \/ \E c \in Clients : ClientStep(c)

Next ==
    \/ Requests
    \/ \E w \in Workers : Claim(w) \/ WorkerStep(w) \/ Crash(w)
    \/ LeaseExpires \/ LeaseLapses \/ GrowOld \/ Damage

Spec == Init /\ [][Next]_vars

\* run_once: the background loop claims what is active and free.
Polling == WF_vars(\E w \in Workers : Claim(w))

\* The loop goes on for ever and a running call goes on; an abandoned lease
\* runs out; time passes.  Clients and renders need not end.
Fairness ==
    /\ \A w \in Workers : WF_vars(WorkerStep(w))
    /\ Polling
    /\ WF_vars(LeaseExpires)
    /\ WF_vars(GrowOld)

FairSpec == Spec /\ Fairness

-----------------------------------------------------------------------------
\* "ready is only written after the MP4 passed structural validation, was
\* stored": while the store keeps what it was given, a ready animation has a
\* valid object, whatever leases lapse, calls fail and processes die, and
\* however many workers advance the row at the same time.
ReadyHasObject ==
    damage = 0 /\ row.status = "ready" => object = "valid" /\ row.key

\* A late worker cannot regress the row: while the store loses nothing, ready
\* is final, for every interleaving of claims, steps, retries and lapses.
ReadyStands ==
    [][row.status = "ready" /\ damage = 0 => row'.status = "ready"]_vars

\* _claim: "exactly one caller advances an artifact at a time", until a lease
\* lapses under a working call, or a retry or a missing object makes the row
\* pending again before the call that finished it has released its lease.
OneAdvancer ==
    ~lapsed /\ ~reopened => Cardinality(Busy) <= 1

\* Every active artifact ends ready or failed: attempts are bounded, a lost
\* job is resubmitted or given up, a stuck one is timed out.
ActiveEnds ==
    row.status \in ACTIVE ~> row.status \in TERMINAL
=============================================================================
