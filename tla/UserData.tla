------------------------------- MODULE UserData -----------------------------
(***************************************************************************)
(* Everything of one user that is in PostgreSQL and not an artifact or an  *)
(* export: notes, source edits, preferences and custom modes, under the    *)
(* requests of several tabs, and the migration.                            *)
(***************************************************************************)
EXTENDS Documents, Settings

Step(t) == DocumentStep(t) \/ SettingsStep(t) \/ Commit(t) \/ Rollback(t)

Next ==
    \/ \E t \in Tabs : DocumentRequest(t) \/ SettingsRequest(t) \/ Step(t)
    \/ \E t \in Tabs, k \in Keys : Look(t, k)
    \/ LegacyEdit \/ ReadLegacy \/ Upsert

Spec == Init /\ [][Next]_vars

\* Handlers run; PostgreSQL grants a lock once it is free.
FairSpec == Spec /\ \A t \in Tabs : WF_vars(Step(t))

TextValues == [{"text"} -> Texts]
PreferenceValues == [Fields -> Tones \cup {"auto"} \cup Modes]
ModeValues == [{"name", "status"} -> Names \cup {"active", "archived"}]
Values == {Empty} \cup TextValues \cup PreferenceValues \cup ModeValues
Row == [version : Nat, val : Values, at : Nat, saved : Nat]
Request ==
    [op : {"none", "put", "discard", "patch", "reset", "create", "rename", "archive"},
     key : Keys \cup {"none"},
     step : {"idle", "save", "current", "commit", "load", "check", "lock", "count", "insert"},
     given : BOOLEAN, ver : Nat, val : Values \cup Patches, base : Row, left : 1..MaxAttempts]

TypeOK ==
    /\ table \in [Keys -> Row]
    /\ tx \in [Tabs -> [key : Keys \cup {"none"}, row : Row]]
    /\ req \in [Tabs -> Request]
    /\ seen \in [Tabs -> [Keys -> Row]]
    /\ reborn \in [Tabs -> SUBSET Keys]
    /\ legacy \in Row /\ batch \in Row
    /\ clock \in Nat
    /\ requests \in 0..MaxRequests
    /\ faults \in 0..MaxFaults

-----------------------------------------------------------------------------
(***************************************************************************)
(* Properties.                                                             *)
(***************************************************************************)
\* "two writers ... can never silently overwrite each other"
\* (notes_repository.py:2-3, source_edit_repository.py:2): the row that an
\* accepted save or discard is about to replace is the one its tab was shown,
\* whatever was committed since the request was sent, and unless an edit was
\* discarded meanwhile (its versions start again at 1).
ReplacesWhatWasSeen ==
    \A t \in Tabs : LET k == tx[t].key IN
        (req[t].op \in {"put", "discard"} /\ req[t].step = "commit" /\ k \notin reborn[t])
            => table[k] = seen[t][k]

\* A PATCH "applies only the sent fields" (preferences_service.py:87): the
\* fields it did not send have, at the commit, the value that is committed,
\* although it writes the whole row from an earlier read; unless a reset came
\* between (the versions start again at 1).
UnsentFieldsStand ==
    \A t \in Tabs :
        (At(t, "patch", "commit") /\ "prefs" \notin reborn[t])
            => \A f \in Fields \ DOMAIN req[t].val :
                   tx[t].row.val[f] = Preferences(table["prefs"])[f]

\* "the per-user limit holds under races" (pg_repositories.py:119).
ModeLimit == Cardinality(ActiveModes) <= MaxModes

\* "Never overwrites newer PostgreSQL data" (preferences_to_postgres.py:7-9),
\* whatever is saved in Cassandra and in PostgreSQL between the read of a legacy
\* row and its upsert: when another row takes the place of a committed one, the
\* version and updated_at grow, and the values were saved by the user after the
\* ones they replace, unless the legacy row had no updated_at and transform made
\* it up (line 86).
PreferencesMoveOn ==
    [][LET old == table["prefs"]
           new == table'["prefs"]
       IN (old # NoRow /\ new \notin {NoRow, old})
              => /\ old.version < new.version /\ old.at < new.at
                 /\ old.saved < new.saved \/ new.at # new.saved]_vars

\* Every request is answered: no two transactions wait for each other, and
\* no lock outlives its request (session.py:18-27, pg_repositories.py:118-121).
RequestsEnd == \A t \in Tabs : []<>(req[t] = Idle)
=============================================================================
