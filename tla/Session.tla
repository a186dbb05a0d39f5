------------------------------- MODULE Session ------------------------------
(***************************************************************************)
(* What the PostgreSQL documents of one user have in common: a table of    *)
(* versioned rows, and browser tabs whose requests run in a request-scoped *)
(* transaction (get_db).  A statement sees what is committed (READ         *)
(* COMMITTED) and waits for the row lock of another request.               *)
(***************************************************************************)
EXTENDS Naturals, FiniteSets

CONSTANTS
    Tabs,
    Blocks,         \* source blocks of an answer that may have an edit
    Modes,          \* mode ids
    Texts, Names, Tones,
    MaxEdits,       \* SOURCE_EDIT_MAX_PER_CONVERSATION
    MaxModes,       \* CUSTOM_MODE_MAX_PER_USER
    MaxAttempts,    \* attempts of an update without a version: 3
    MaxRequests,    \* bound: writing requests and legacy edits
    MaxFaults       \* bound: commits that fail and reads of an undated legacy row

Keys == {"note", "prefs"} \cup Blocks \cup Modes

ASSUME LimitsAssumption == /\ {MaxEdits, MaxModes, MaxAttempts} \subseteq Nat \ {0}
                           /\ {MaxRequests, MaxFaults} \subseteq Nat
ASSUME KeysAssumption == /\ Blocks \cap Modes = {}
                         /\ {"note", "prefs", "none", "auto"} \cap (Blocks \cup Modes) = {}

VARIABLES
    table,      \* committed rows by key; NoRow where there is none
    tx,         \* per tab: the row its open transaction has written
    req,        \* per tab: the request it waits for
    seen,       \* per tab and key: the row it was shown last
    reborn,     \* history: per tab, the keys deleted since they were shown
    legacy,     \* the user's preferences in Cassandra
    batch,      \* the row the migration has read and transformed
    clock,      \* now(), for updated_at
    requests, faults

vars == <<table, tx, req, seen, reborn, legacy, batch, clock, requests, faults>>

Empty == [f \in {} |-> ""]
\* A row: version, values, updated_at, and (history) when the user saved it.
NoRow == [version |-> 0, val |-> Empty, at |-> 0, saved |-> 0]
NoTx == [key |-> "none", row |-> NoRow]
Idle == [op |-> "none", key |-> "none", step |-> "idle", given |-> TRUE, ver |-> 0,
         val |-> Empty, base |-> NoRow, left |-> 1]

At(t, op, step) == req[t].op = op /\ req[t].step = step
Goto(t, step) == req' = [req EXCEPT ![t].step = step]
Answer(t) == req' = [req EXCEPT ![t] = Idle]

\* Another request has written the row and not yet committed.
Locked(t, k) == \E u \in Tabs \ {t} : tx[u].key = k

\* Mutant: the update does not ask for the version.
MatchesAny(k, ver) == table[k] # NoRow
Matches(k, ver) == table[k] # NoRow /\ table[k].version = ver

\* The tab is shown row r of k.
Show(t, k, r) == /\ seen' = [seen EXCEPT ![t][k] = r]
                 /\ reborn' = [reborn EXCEPT ![t] = @ \ {k}]

\* A statement of t writes val to k under the next version; or deletes k.
Write(t, k, val) ==
    /\ clock' = clock + 1
    /\ tx' = [tx EXCEPT ![t] =
                 [key |-> k, row |-> [version |-> table[k].version + 1, val |-> val,
                                      at |-> clock + 1, saved |-> clock + 1]]]
Delete(t, k) == tx' = [tx EXCEPT ![t] = [key |-> k, row |-> NoRow]] /\ UNCHANGED clock

Init ==
    /\ table = [k \in Keys |-> NoRow]
    /\ tx = [t \in Tabs |-> NoTx]
    /\ req = [t \in Tabs |-> Idle]
    /\ seen = [t \in Tabs |-> table]
    /\ reborn = [t \in Tabs |-> {}]
    /\ legacy = NoRow
    /\ batch = NoRow
    /\ clock = 0
    /\ requests = 0
    /\ faults = 0

-----------------------------------------------------------------------------
\* A tab sends a request.
Begin(t, r) ==
    /\ req[t] = Idle
    /\ requests < MaxRequests
    /\ requests' = requests + 1
    /\ req' = [req EXCEPT ![t] = r]
    /\ UNCHANGED <<table, tx, seen, reborn, legacy, batch, clock, faults>>

\* A GET.
Look(t, k) ==
    /\ req[t] = Idle
    /\ Show(t, k, table[k])
    /\ UNCHANGED <<table, tx, req, legacy, batch, clock, requests, faults>>

\* Mutant: the transaction stays open.
CommitLater(t) ==
    /\ req[t].step = "commit"
    /\ table' = [table EXCEPT ![tx[t].key] = tx[t].row]
    /\ Show(t, tx[t].key, tx[t].row)
    /\ Answer(t)
    /\ UNCHANGED <<tx, legacy, batch, clock, requests, faults>>

\* get_db commits when the handler has returned, and the tab has the answer.
\* For the other tabs that hold a version of it, a deleted row is reborn when
\* it comes back.
Commit(t) ==
    LET k == tx[t].key IN
    /\ req[t].step = "commit"
    /\ table' = [table EXCEPT ![k] = tx[t].row]
    /\ seen' = [seen EXCEPT ![t][k] = tx[t].row]
    /\ reborn' = [u \in Tabs |-> IF u = t THEN reborn[u] \ {k}
                                 ELSE IF tx[t].row = NoRow THEN reborn[u] \cup {k}
                                 ELSE reborn[u]]
    /\ tx' = [tx EXCEPT ![t] = NoTx]
    /\ Answer(t)
    /\ UNCHANGED <<legacy, batch, clock, requests, faults>>

\* The commit fails, or the pod is lost: the transaction is rolled back.
Rollback(t) ==
    /\ req[t].step = "commit"
    /\ faults < MaxFaults
    /\ faults' = faults + 1
    /\ tx' = [tx EXCEPT ![t] = NoTx]
    /\ Answer(t)
    /\ UNCHANGED <<table, seen, reborn, legacy, batch, clock, requests>>
=============================================================================
