------------------------------- MODULE Settings -----------------------------
(***************************************************************************)
(* Preferences and custom modes of one user, and the migration of the      *)
(* preferences from Cassandra.  A preference row has a default mode and a   *)
(* tone, which stands for every other field.                               *)
(***************************************************************************)
EXTENDS Session

ASSUME TonesAssumption == Tones # {}

Fields == {"mode", "tone"}
Defaults == [f \in Fields |-> IF f = "mode" THEN "auto" ELSE CHOOSE x \in Tones : TRUE]
Preferences(row) == IF row = NoRow THEN Defaults ELSE row.val

Mode(name, status) == [f \in {"name", "status"} |-> IF f = "name" THEN name ELSE status]
Active(m) == table[m] # NoRow /\ table[m].val["status"] = "active"
ActiveModes == {m \in Modes : Active(m)}

-----------------------------------------------------------------------------
(***************************************************************************)
(* PreferencesService.update: load, merge, check the mode, compare-and-set. *)
(***************************************************************************)
Patches == {[f \in {"mode"} |-> m] : m \in {"auto"} \cup Modes}
           \cup {[f \in {"tone"} |-> x] : x \in Tones}

Patch(t) ==
    \E p \in Patches, given \in BOOLEAN :
        Begin(t, [Idle EXCEPT !.op = "patch", !.key = "prefs", !.step = "load", !.val = p,
                              !.given = given, !.ver = seen[t]["prefs"].version,
                              !.left = IF given THEN 1 ELSE MaxAttempts])

Reset(t) == Begin(t, [Idle EXCEPT !.op = "reset", !.key = "prefs", !.step = "save"])

\* Mutant: every field of the row is replaced.
OnlyPatch(t) == [f \in Fields |-> IF f \in DOMAIN req[t].val THEN req[t].val[f] ELSE Defaults[f]]
Merged(t) == [f \in Fields |-> IF f \in DOMAIN req[t].val THEN req[t].val[f]
                               ELSE Preferences(req[t].base)[f]]

\* _load and the version check.  The live catalog of llm-service may refuse
\* the patch.
Load(t) ==
    /\ At(t, "patch", "load")
    /\ \/ /\ req[t].given => req[t].ver = table["prefs"].version
          /\ req' = [req EXCEPT ![t].base = table["prefs"], ![t].step = "check"]
          /\ reborn' = [reborn EXCEPT ![t] = @ \ {"prefs"}]
       \/ Answer(t) /\ UNCHANGED reborn
    /\ UNCHANGED <<table, tx, seen, legacy, batch, clock, requests, faults>>

\* A custom mode must be active, be it from the patch or from the row.
CheckMode(t) ==
    /\ At(t, "patch", "check")
    /\ IF Merged(t)["mode"] \in Modes => Active(Merged(t)["mode"]) THEN Goto(t, "save") ELSE Answer(t)
    /\ UNCHANGED <<table, tx, seen, reborn, legacy, batch, clock, requests, faults>>

\* A conflict is tried again on top of the newest row, or is a 409.
Conflict(t) ==
    /\ IF req[t].left = 1 THEN Answer(t)
       ELSE req' = [req EXCEPT ![t].step = "load", ![t].left = @ - 1]
    /\ UNCHANGED <<tx, clock>>

\* PreferencesRepository.save: INSERT ... ON CONFLICT DO NOTHING for version 0,
\* else UPDATE of that version.
SavePreferences(t) ==
    LET ver == req[t].base.version
        found == IF ver = 0 THEN table["prefs"] = NoRow ELSE Matches("prefs", ver)
    IN
    /\ At(t, "patch", "save")
    /\ \/ /\ found
          /\ ~Locked(t, "prefs")
          /\ Write(t, "prefs", Merged(t))
          /\ Goto(t, "commit")
       \/ /\ ~found
          /\ ver = 0 => ~Locked(t, "prefs")
          /\ Conflict(t)
    /\ UNCHANGED <<table, seen, reborn, legacy, batch, requests, faults>>

\* PreferencesRepository.delete asks for no version.
DeletePreferences(t) ==
    /\ At(t, "reset", "save")
    /\ \/ /\ table["prefs"] # NoRow
          /\ ~Locked(t, "prefs")
          /\ Delete(t, "prefs")
          /\ Goto(t, "commit")
       \/ /\ table["prefs"] = NoRow
          /\ Answer(t)
          /\ UNCHANGED <<tx, clock>>
    /\ UNCHANGED <<table, seen, reborn, legacy, batch, requests, faults>>

-----------------------------------------------------------------------------
(***************************************************************************)
(* CustomModeRepository.                                                   *)
(***************************************************************************)
Named(row, n) == row # NoRow /\ row.val["name"] = n /\ row.val["status"] = "active"

\* The partial unique index: the name is an active mode's, or another request
\* is about to give it or to free it.
Taken(m, n) == \E o \in Modes \ {m} : Named(table[o], n)
NameBusy(t, n) == \E u \in Tabs \ {t} : /\ tx[u].key \in Modes
                                        /\ Named(tx[u].row, n) \/ Named(table[tx[u].key], n)

CreateMode(t) ==
    \E n \in Names :
        Begin(t, [Idle EXCEPT !.op = "create", !.step = "lock", !.val = Mode(n, "active")])

EditMode(t) ==
    \E m \in Modes, n \in Names, given \in BOOLEAN :
        /\ seen[t][m] # NoRow
        /\ Begin(t, [Idle EXCEPT !.op = "rename", !.key = m, !.step = "save", !.given = given,
                                 !.ver = seen[t][m].version, !.val = Mode(n, "active")])

ArchiveMode(t) ==
    \E m \in Modes :
        /\ seen[t][m] # NoRow
        /\ Begin(t, [Idle EXCEPT !.op = "archive", !.key = m, !.step = "load"])

\* Mutant: no advisory lock.
LockNothing(t) ==
    /\ At(t, "create", "lock")
    /\ Goto(t, "count")
    /\ UNCHANGED <<table, tx, seen, reborn, legacy, batch, clock, requests, faults>>

\* pg_advisory_xact_lock: one create of the user at a time, until it commits.
LockModes(t) ==
    /\ At(t, "create", "lock")
    /\ \A u \in Tabs \ {t} : req[u].op = "create" => req[u].step = "lock"
    /\ Goto(t, "count")
    /\ UNCHANGED <<table, tx, seen, reborn, legacy, batch, clock, requests, faults>>

CountModes(t) ==
    /\ At(t, "create", "count")
    /\ IF Cardinality(ActiveModes) < MaxModes THEN Goto(t, "insert") ELSE Answer(t)
    /\ UNCHANGED <<table, tx, seen, reborn, legacy, batch, clock, requests, faults>>

InsertMode(t) ==
    \E m \in Modes :
        /\ At(t, "create", "insert")
        /\ table[m] = NoRow /\ ~Locked(t, m)
        /\ ~NameBusy(t, req[t].val["name"])
        /\ \/ /\ ~Taken(m, req[t].val["name"])
              /\ Write(t, m, req[t].val)
              /\ Goto(t, "commit")
           \/ /\ Taken(m, req[t].val["name"])
              /\ Answer(t)
              /\ UNCHANGED <<tx, clock>>
        /\ UNCHANGED <<table, seen, reborn, legacy, batch, requests, faults>>

\* update: one statement on an active mode, with the version if one is given.
UpdateMode(t) ==
    LET r == req[t]
        found == Active(r.key) /\ (r.given => Matches(r.key, r.ver))
    IN
    /\ At(t, "rename", "save")
    /\ found => ~Locked(t, r.key) /\ ~NameBusy(t, r.val["name"])
    /\ \/ /\ found /\ ~Taken(r.key, r.val["name"])
          /\ Write(t, r.key, r.val)
          /\ Goto(t, "commit")
       \/ /\ ~found \/ Taken(r.key, r.val["name"])
          /\ Answer(t)
          /\ UNCHANGED <<tx, clock>>
    /\ UNCHANGED <<table, seen, reborn, legacy, batch, requests, faults>>

\* archive: it reads the mode, and archives it if it is still active.
GetMode(t) ==
    /\ At(t, "archive", "load")
    /\ IF Active(req[t].key) THEN Goto(t, "save") ELSE Answer(t)
    /\ UNCHANGED <<table, tx, seen, reborn, legacy, batch, clock, requests, faults>>

Archive(t) ==
    LET m == req[t].key IN
    /\ At(t, "archive", "save")
    /\ \/ /\ Active(m)
          /\ ~Locked(t, m)
          /\ Write(t, m, Mode(table[m].val["name"], "archived"))
          /\ Goto(t, "commit")
       \/ /\ ~Active(m)
          /\ Answer(t)
          /\ UNCHANGED <<tx, clock>>
    /\ UNCHANGED <<table, seen, reborn, legacy, batch, requests, faults>>

-----------------------------------------------------------------------------
(***************************************************************************)
(* The migration, which may run again at any time.                         *)
(***************************************************************************)
\* A release that still writes to Cassandra saves there.  Version and
\* updated_at of a legacy row may be null (0).
LegacyEdit ==
    \E x \in Tones \ {Preferences(legacy)["tone"]}, versioned, dated \in BOOLEAN :
        /\ requests < MaxRequests
        /\ requests' = requests + 1
        /\ clock' = clock + 1
        /\ legacy' = [version |-> IF versioned THEN legacy.version + 1 ELSE 0,
                      val |-> [Preferences(legacy) EXCEPT !["tone"] = x],
                      at |-> IF dated THEN clock + 1 ELSE 0, saved |-> clock + 1]
        /\ UNCHANGED <<table, tx, req, seen, reborn, batch, faults>>

\* transform: a null version is 1, a null updated_at is now().
Transform(row) == [row EXCEPT !.version = IF row.version = 0 THEN 1 ELSE row.version,
                              !.at = IF row.at = 0 THEN clock + 1 ELSE row.at]

\* migrate reads the row and adds it to a batch.
ReadLegacy ==
    /\ legacy # NoRow /\ batch = NoRow
    /\ batch' = Transform(legacy)
    /\ \/ /\ legacy.at # 0
          /\ UNCHANGED <<clock, faults>>
       \/ /\ legacy.at = 0
          /\ faults < MaxFaults
          /\ faults' = faults + 1
          /\ clock' = clock + 1
    /\ UNCHANGED <<table, tx, req, seen, reborn, legacy, requests>>

\* Mutant: only the version is compared.
NewerVersion == table["prefs"].version < batch.version
LegacyIsNewer == /\ table["prefs"].version < batch.version
                 /\ table["prefs"].at < batch.at

\* flush: the upsert, and the commit of the batch.
Upsert ==
    /\ batch # NoRow
    /\ \A t \in Tabs : tx[t].key # "prefs"
    /\ table' = [table EXCEPT !["prefs"] =
                    IF table["prefs"] = NoRow \/ LegacyIsNewer THEN batch ELSE @]
    /\ batch' = NoRow
    /\ UNCHANGED <<tx, req, seen, reborn, legacy, clock, requests, faults>>

SettingsRequest(t) == Patch(t) \/ Reset(t) \/ CreateMode(t) \/ EditMode(t) \/ ArchiveMode(t)
SettingsStep(t) ==
    \/ Load(t) \/ CheckMode(t) \/ SavePreferences(t) \/ DeletePreferences(t)
    \/ LockModes(t) \/ CountModes(t) \/ InsertMode(t)
    \/ UpdateMode(t) \/ GetMode(t) \/ Archive(t)
=============================================================================
