------------------------------- MODULE Export -------------------------------
(***************************************************************************)
(* Export jobs of one conversation: ExportService with the endpoints of    *)
(* api/v1/exports.py and the part of ExportCollector that reads messages.  *)
(* A worker is one call of process(), from the loop of a pod or from a     *)
(* request; a client is one POST /exports; the sweeper is cleanup().  A    *)
(* step is one transaction, one object-store call or one read of the       *)
(* conversation with the code up to the next one.                          *)
(***************************************************************************)
EXTENDS Integers, FiniteSets, FiniteSetsExt

CONSTANTS
    Jobs,           \* ids of jobs; the id of a pruned job stands for a new one
    Clients,
    Workers,
    MaxMessages,    \* bound: messages of the conversation
    MaxAttempts,    \* EXPORT_MAX_ATTEMPTS
    MaxLive,        \* EXPORT_MAX_LIVE_PER_USER
    MaxFaults       \* bound: failing calls, crashes and lapsing leases

ASSUME BoundsAssumption ==
    {MaxMessages, MaxAttempts, MaxLive, MaxFaults} \subseteq Nat /\ MaxAttempts > 0

VARIABLES
    source,     \* per message of the conversation: its status
    exists,     \* the conversation is in the catalogue
    job,        \* the rows of export_jobs
    object,     \* per job: the messages in the object under its key
    stale,      \* jobs whose object is older than an hour
    wpc, wjob, wlast, wfile,    \* per worker: next step, row claimed, whether
                                \* for the last time, file built
    cpc, cmark,         \* per client: next step, snapshot taken
    spc, sjob,          \* the sweeper: next step, job at hand
    faults,
    lapsed      \* history: jobs whose lease ran out under a working process()

sourceVars == <<source, exists>>
workerVars == <<wpc, wjob, wlast, wfile>>
clientVars == <<cpc, cmark>>
sweeperVars == <<spc, sjob>>
vars == <<sourceVars, job, object, stale, workerVars, clientVars, sweeperVars, faults, lapsed>>

Messages == 1..MaxMessages
LIVE == {"pending", "processing", "ready"}
NoFile == {0}       \* no object; a file is a set of messages
NoJob == "nojob"

\* _latest_marker: the newest visible message and its status.
Visible == {m \in Messages : source[m] \in {"pending", "sent"}}
Marker == IF Visible = {} THEN [msg |-> 0, status |-> "none"]
          ELSE [msg |-> Max(Visible), status |-> source[Max(Visible)]]
Markers == [msg : 0..MaxMessages, status : {"none", "pending", "sent"}]

Row == [status : {"absent", "pending", "processing", "ready", "failed", "expired"},
        snapshot : Markers, attempts : 0..MaxAttempts, lease : BOOLEAN, expired : BOOLEAN]

NoRow == [status |-> "absent", snapshot |-> [msg |-> 0, status |-> "none"],
          attempts |-> 0, lease |-> FALSE, expired |-> FALSE]

TypeOK ==
    /\ source \in [Messages -> {"absent", "pending", "sent", "deleted"}]
    /\ exists \in BOOLEAN
    /\ job \in [Jobs -> Row]
    /\ object \in [Jobs -> (SUBSET Messages) \cup {NoFile}]
    /\ stale \subseteq Jobs
    /\ wpc \in [Workers -> {"idle", "collect", "put", "confirm", "publish", "discard",
                            "fail", "retry"}]
    /\ wjob \in [Workers -> Jobs \cup {NoJob}]
    /\ wlast \in [Workers -> BOOLEAN]
    /\ wfile \in [Workers -> SUBSET Messages]
    /\ cpc \in [Clients -> {"idle", "check", "insert"}]
    /\ cmark \in [Clients -> Markers]
    /\ spc \in {"idle", "erase", "expire", "remove"}
    /\ sjob \in Jobs \cup {NoJob}
    /\ faults \in 0..MaxFaults
    /\ lapsed \subseteq Jobs

Init ==
    /\ source = [m \in Messages |-> "absent"]
    /\ exists = TRUE
    /\ job = [j \in Jobs |-> NoRow]
    /\ object = [j \in Jobs |-> NoFile]
    /\ stale = {}
    /\ wpc = [w \in Workers |-> "idle"]
    /\ wjob = [w \in Workers |-> NoJob]
    /\ wlast = [w \in Workers |-> FALSE]
    /\ wfile = [w \in Workers |-> {}]
    /\ cpc = [c \in Clients |-> "idle"]
    /\ cmark = [c \in Clients |-> NoRow.snapshot]
    /\ spc = "idle"
    /\ sjob = NoJob
    /\ faults = 0
    /\ lapsed = {}

Goto(w, step) == wpc' = [wpc EXCEPT ![w] = step]
Fault == faults < MaxFaults /\ faults' = faults + 1
Working(j) == {w \in Workers : wjob[w] = j}
Return(w) ==
    /\ Goto(w, "idle")
    /\ wjob' = [wjob EXCEPT ![w] = NoJob]
    /\ wlast' = [wlast EXCEPT ![w] = FALSE]
    /\ wfile' = [wfile EXCEPT ![w] = {}]

-----------------------------------------------------------------------------
\* The conversation goes on while exports are made (external to this module).
\* Prompts and the placeholders of their responses alternate.  The messages of
\* a deleted conversation are purged, and no export reads them any more.
Post ==
    \E m \in Messages :
        /\ exists
        /\ source[m] = "absent"
        /\ \A n \in 1..(m - 1) : source[n] # "absent"
        /\ source' = [source EXCEPT ![m] = IF m % 2 = 1 THEN "sent" ELSE "pending"]
        /\ UNCHANGED <<exists, job, object, stale, workerVars, clientVars, sweeperVars,
                       faults, lapsed>>

Answer ==
    \E m \in Messages :
        /\ source[m] = "pending"
        /\ source' = [source EXCEPT ![m] = "sent"]
        /\ UNCHANGED <<exists, job, object, stale, workerVars, clientVars,
                       sweeperVars, faults, lapsed>>

DeleteMessage ==
    \E m \in Visible :
        /\ source' = [source EXCEPT ![m] = "deleted"]
        /\ UNCHANGED <<exists, job, object, stale, workerVars, clientVars, sweeperVars,
                       faults, lapsed>>

DeleteConversation ==
    /\ exists
    /\ exists' = FALSE
    /\ source' = [m \in Messages |-> "deleted"]
    /\ UNCHANGED <<job, object, stale, workerVars, clientVars,
                   sweeperVars, faults, lapsed>>

-----------------------------------------------------------------------------
\* create(): the snapshot is taken from Cassandra.
Snapshot(c) ==
    /\ cpc[c] = "idle"
    /\ exists
    /\ cmark' = [cmark EXCEPT ![c] = Marker]
    /\ cpc' = [cpc EXCEPT ![c] = "check"]
    /\ UNCHANGED <<sourceVars, job, object, stale, workerVars, sweeperVars, faults, lapsed>>

Respond(c) ==
    /\ cpc' = [cpc EXCEPT ![c] = "idle"]
    /\ cmark' = [cmark EXCEPT ![c] = NoRow.snapshot]

LiveFor(mark) == {j \in Jobs : job[j].status \in LIVE /\ job[j].snapshot = mark}
Unfinished == {j \in Jobs : job[j].status \in {"pending", "processing"}}

\* An export past its expiry is not reusable.
Over(mark) == {j \in LiveFor(mark) : job[j].status = "ready" /\ job[j].expired}
Reusable(mark) == LiveFor(mark) \ Over(mark)

\* The reads of the transaction: a live export is returned, the user's limit
\* is checked.
Check(c) ==
    /\ cpc[c] = "check"
    /\ IF Reusable(cmark[c]) = {} /\ Cardinality(Unfinished) < MaxLive
       THEN cpc' = [cpc EXCEPT ![c] = "insert"] /\ UNCHANGED cmark
       ELSE Respond(c)
    /\ UNCHANGED <<sourceVars, job, object, stale, workerVars, sweeperVars, faults, lapsed>>

\* INSERT ... ON CONFLICT DO NOTHING under the unique index on live requests;
\* the commit also makes the expiry of the old export visible.
Insert(c) ==
    /\ cpc[c] = "insert"
    /\ Respond(c)
    /\ IF Reusable(cmark[c]) # {}
       THEN UNCHANGED <<job, lapsed>>
       ELSE \E new \in Jobs :
              /\ job[new].status = "absent" /\ object[new] = NoFile
              /\ job' = [j \in Jobs |->
                    IF j = new THEN [NoRow EXCEPT !.status = "pending", !.snapshot = cmark[c]]
                    ELSE IF j \in Over(cmark[c]) THEN [job[j] EXCEPT !.status = "expired"]
                    ELSE job[j]]
              /\ lapsed' = lapsed \ {new}
    /\ UNCHANGED <<sourceVars, object, stale, workerVars, sweeperVars, faults>>

-----------------------------------------------------------------------------
\* _claim()
Claim(w, j) ==
    /\ wpc[w] = "idle"
    /\ j \in Unfinished
    /\ job[j].attempts < MaxAttempts
    /\ ~job[j].lease
    /\ job' = [job EXCEPT ![j].status = "processing", ![j].attempts = @ + 1, ![j].lease = TRUE]
    /\ Goto(w, "collect")
    /\ wjob' = [wjob EXCEPT ![w] = j]
    /\ wlast' = [wlast EXCEPT ![w] = job[j].attempts + 1 >= MaxAttempts]
    /\ UNCHANGED <<sourceVars, object, stale, wfile, clientVars, sweeperVars, faults, lapsed>>

\* Mutant: the processor does not cut the conversation at the snapshot.
Everything(limit) == Visible

\* ExportCollector._messages: everything visible, cut after the message of
\* the snapshot if that is still there, and of it what was sent.
Cut(limit) == IF limit \in Visible THEN {m \in Visible : m <= limit} ELSE Visible
Collected(snapshot) == {m \in Cut(snapshot.msg) : source[m] = "sent"}

\* process() on an exception: the last attempt fails the job, another one
\* gives it back.  The row it compares is the one it claimed.
AfterError(w) == IF wlast[w] THEN "fail" ELSE "retry"
Raise(w) == Fault /\ Goto(w, AfterError(w))

\* _produce: hierarchy, messages and rendering.  A missing source, a file too
\* large or a PDF that cannot be made fail the job.
Collect(w) ==
    /\ wpc[w] = "collect"
    /\ \/ /\ exists
          /\ wfile' = [wfile EXCEPT ![w] = Collected(job[wjob[w]].snapshot)]
          /\ Goto(w, "put")
          /\ UNCHANGED faults
       \/ ~exists /\ Goto(w, "fail") /\ UNCHANGED <<wfile, faults>>
       \/ Fault /\ Goto(w, "fail") /\ UNCHANGED wfile
       \/ Raise(w) /\ UNCHANGED wfile
    /\ UNCHANGED <<sourceVars, job, object, stale, wjob, wlast, clientVars, sweeperVars, lapsed>>

Put(w) ==
    LET j == wjob[w]
        stored == [object EXCEPT ![j] = wfile[w]]
    IN  /\ wpc[w] = "put"
        /\ \/ object' = stored /\ Goto(w, "confirm") /\ UNCHANGED faults
           \/ object' \in {object, stored} /\ Raise(w)
        /\ stale' = IF object' = object THEN stale ELSE stale \ {j}
        /\ UNCHANGED <<sourceVars, job, wjob, wlast, wfile, clientVars, sweeperVars, lapsed>>

\* stat() of the stored object
Confirm(w) ==
    /\ wpc[w] = "confirm"
    /\ \/ object[wjob[w]] # NoFile /\ Goto(w, "publish") /\ UNCHANGED faults
       \/ object[wjob[w]] = NoFile /\ Goto(w, AfterError(w)) /\ UNCHANGED faults
       \/ Raise(w)
    /\ UNCHANGED <<sourceVars, job, object, stale, wjob, wlast, wfile, clientVars, sweeperVars, lapsed>>

\* The row is ready if it is still processing; otherwise the object goes.
Publish(w) ==
    LET j == wjob[w] IN
    /\ wpc[w] = "publish"
    /\ IF job[j].status = "processing"
       THEN job' = [job EXCEPT ![j].status = "ready", ![j].lease = FALSE] /\ Return(w)
       ELSE Goto(w, "discard") /\ UNCHANGED <<job, wjob, wlast, wfile>>
    /\ UNCHANGED <<sourceVars, object, stale, clientVars, sweeperVars, faults, lapsed>>

Discard(w) ==
    /\ wpc[w] = "discard"
    /\ object' = [object EXCEPT ![wjob[w]] = NoFile]
    /\ stale' = stale \ {wjob[w]}
    /\ Return(w)
    /\ UNCHANGED <<sourceVars, job, clientVars, sweeperVars, faults, lapsed>>

\* _fail
Fail(w) ==
    LET j == wjob[w] IN
    /\ wpc[w] = "fail"
    /\ job' = IF j \in Unfinished
              THEN [job EXCEPT ![j].status = "failed", ![j].lease = FALSE] ELSE job
    /\ Return(w)
    /\ UNCHANGED <<sourceVars, object, stale, clientVars, sweeperVars, faults, lapsed>>

\* transient: back to pending, with a short lease as a pause
GiveBack(w) ==
    LET j == wjob[w] IN
    /\ wpc[w] = "retry"
    /\ job' = IF job[j].status = "processing"
              THEN [job EXCEPT ![j].status = "pending", ![j].lease = TRUE] ELSE job
    /\ Return(w)
    /\ UNCHANGED <<sourceVars, object, stale, clientVars, sweeperVars, faults, lapsed>>

\* The process dies, or its database call fails.
Crash(w) ==
    /\ wpc[w] # "idle"
    /\ Fault
    /\ Return(w)
    /\ UNCHANGED <<sourceVars, job, object, stale, clientVars, sweeperVars, lapsed>>

LeaseExpires(j) ==
    /\ job[j].lease
    /\ Working(j) = {}
    /\ job' = [job EXCEPT ![j].lease = FALSE]
    /\ UNCHANGED <<sourceVars, object, stale, workerVars, clientVars, sweeperVars, faults, lapsed>>

\* A call takes longer than EXPORT_LEASE_SECONDS.
LeaseLapses(j) ==
    /\ job[j].lease
    /\ Working(j) # {}
    /\ Fault
    /\ job' = [job EXCEPT ![j].lease = FALSE]
    /\ lapsed' = lapsed \cup {j}
    /\ UNCHANGED <<sourceVars, object, stale, workerVars, clientVars, sweeperVars>>

-----------------------------------------------------------------------------
\* Mutant: a job whose last attempt died is not found.
FailPendingOnly ==
    LET over == {j \in Jobs : job[j].status = "pending" /\ job[j].attempts >= MaxAttempts}
    IN  /\ over # {}
        /\ job' = [j \in Jobs |-> IF j \in over THEN [job[j] EXCEPT !.status = "failed"]
                                  ELSE job[j]]
        /\ UNCHANGED <<sourceVars, object, stale, workerVars, clientVars, sweeperVars,
                       faults, lapsed>>

\* run_once() ends with _fail_exhausted.
FailExhausted ==
    LET over == {j \in Unfinished : job[j].attempts >= MaxAttempts /\ ~job[j].lease}
    IN  /\ over # {}
        /\ job' = [j \in Jobs |-> IF j \in over THEN [job[j] EXCEPT !.status = "failed"]
                                  ELSE job[j]]
        /\ UNCHANGED <<sourceVars, object, stale, workerVars, clientVars, sweeperVars,
                       faults, lapsed>>

\* expires_at passes
Expire(j) ==
    /\ job[j].status = "ready"
    /\ ~job[j].expired
    /\ job' = [job EXCEPT ![j].expired = TRUE]
    /\ UNCHANGED <<sourceVars, object, stale, workerVars, clientVars, sweeperVars, faults, lapsed>>

\* An hour passes for an object.  A job that is not settled is worked on
\* within seconds, and no call of process() lasts an hour.
GrowStale(j) ==
    /\ object[j] # NoFile
    /\ j \notin stale
    /\ j \notin Unfinished
    /\ Working(j) = {}
    /\ stale' = stale \cup {j}
    /\ UNCHANGED <<sourceVars, job, object, workerVars, clientVars, sweeperVars, faults, lapsed>>

\* cleanup(), first part: the object of a due export is deleted, then its row
\* is marked.
SweepDue(j) ==
    /\ spc = "idle"
    /\ job[j].status = "ready" /\ job[j].expired
    /\ spc' = "erase"
    /\ sjob' = j
    /\ UNCHANGED <<sourceVars, job, object, stale, workerVars, clientVars, faults, lapsed>>

EraseDue ==
    /\ spc = "erase"
    /\ object' = [object EXCEPT ![sjob] = NoFile]
    /\ stale' = stale \ {sjob}
    /\ spc' = "expire"
    /\ UNCHANGED <<sourceVars, job, workerVars, clientVars, sjob, faults, lapsed>>

MarkExpired ==
    /\ spc = "expire"
    /\ job' = IF job[sjob].status = "ready" THEN [job EXCEPT ![sjob].status = "expired"] ELSE job
    /\ spc' = "idle"
    /\ sjob' = NoJob
    /\ UNCHANGED <<sourceVars, object, stale, workerVars, clientVars, faults, lapsed>>

\* second part: rows that ended seven retention periods ago are deleted
Prune(j) ==
    /\ spc = "idle"
    /\ job[j].status \in {"failed", "expired"}
    /\ Working(j) = {}
    /\ job' = [job EXCEPT ![j] = NoRow]
    /\ UNCHANGED <<sourceVars, object, stale, workerVars, clientVars, sweeperVars, faults, lapsed>>

\* Mutant: the status of the job is not looked at.
SweepAll(j) ==
    /\ spc = "idle"
    /\ j \in stale
    /\ spc' = "remove"
    /\ sjob' = j
    /\ UNCHANGED <<sourceVars, job, object, stale, workerVars, clientVars, faults, lapsed>>

\* Mutant: objects of jobs without a row are passed over.
SweepKnown(j) ==
    /\ spc = "idle"
    /\ j \in stale
    /\ job[j].status \in {"failed", "expired"}
    /\ spc' = "remove"
    /\ sjob' = j
    /\ UNCHANGED <<sourceVars, job, object, stale, workerVars, clientVars, faults, lapsed>>

\* third part: an object older than an hour whose job is not live
SweepOrphan(j) ==
    /\ spc = "idle"
    /\ j \in stale
    /\ job[j].status \notin {"ready", "processing"}
    /\ spc' = "remove"
    /\ sjob' = j
    /\ UNCHANGED <<sourceVars, job, object, stale, workerVars, clientVars, faults, lapsed>>

RemoveOrphan ==
    /\ spc = "remove"
    /\ object' = [object EXCEPT ![sjob] = NoFile]
    /\ stale' = stale \ {sjob}
    /\ spc' = "idle"
    /\ sjob' = NoJob
    /\ UNCHANGED <<sourceVars, job, workerVars, clientVars, faults, lapsed>>

-----------------------------------------------------------------------------
Process(w) ==
    \/ Collect(w) \/ Put(w) \/ Confirm(w) \/ Publish(w) \/ Discard(w)
    \/ Fail(w) \/ GiveBack(w)

Cleanup(j) == SweepDue(j) \/ Prune(j) \/ SweepOrphan(j)
CleanupStep == EraseDue \/ MarkExpired \/ RemoveOrphan

Next ==
    \/ Post \/ Answer \/ DeleteMessage \/ DeleteConversation
    \/ \E c \in Clients : Snapshot(c) \/ Check(c) \/ Insert(c)
    \/ \E w \in Workers : Process(w) \/ Crash(w) \/ \E j \in Jobs : Claim(w, j)
    \/ \E j \in Jobs :
         \/ LeaseExpires(j) \/ LeaseLapses(j) \/ Expire(j) \/ GrowStale(j) \/ Cleanup(j)
    \/ FailExhausted \/ CleanupStep

Spec == Init /\ [][Next]_vars

\* run_once: the loop of a pod takes what is unfinished and free.
Polling == \A j \in Jobs : WF_vars(\E w \in Workers : Claim(w, j))

\* The loops go on for ever, a running call goes on, an abandoned lease runs
\* out and time passes.  Each call of cleanup() looks at every
\* object, so one that is due again and again is removed.
Fairness ==
    /\ \A w \in Workers : WF_vars(Process(w))
    /\ Polling
    /\ \A j \in Jobs : /\ WF_vars(LeaseExpires(j))
                       /\ WF_vars(GrowStale(j))
                       /\ SF_vars(SweepOrphan(j))
    /\ WF_vars(FailExhausted)
    /\ WF_vars(CleanupStep)

FairSpec == Spec /\ Fairness

-----------------------------------------------------------------------------
\* "The processor never reads past" the snapshot: the file of a job has no
\* message after the newest one when it was requested, as long as there was
\* one and nobody deletes it while the job is worked on.
FileWithinSnapshot ==
    \A j \in Jobs :
        LET limit == job[j].snapshot.msg IN
        /\ job[j].status = "ready" /\ object[j] # NoFile
        /\ limit # 0 /\ source[limit] # "deleted"
        => \A m \in object[j] : m <= limit

\* A job that offers a download has its object, unless a lease of the job has
\* lapsed: a late process() that finds the row published deletes the object
\* under the same key.
ReadyHasObject ==
    \A j \in Jobs \ lapsed :
        job[j].status = "ready" /\ ~job[j].expired => object[j] # NoFile

\* Every job ends: a crash on the last attempt is found by _fail_exhausted.
JobsEnd ==
    \A j \in Jobs : j \in Unfinished ~> j \notin Unfinished

\* Nothing is left behind: the object of a job that has failed, expired or
\* been pruned is removed, also when its process() died after the upload.
LeftoversGo ==
    \A j \in Jobs :
        (object[j] # NoFile /\ job[j].status \notin LIVE)
            ~> (object[j] = NoFile \/ job[j].status \in LIVE)
=============================================================================
