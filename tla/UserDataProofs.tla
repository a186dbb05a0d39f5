--------------------------- MODULE UserDataProofs ---------------------------
(***************************************************************************)
(* Theorems about UserData, for any number of tabs, blocks, modes, requests *)
(* and failing commits: nobody overwrites what they have not seen, a PATCH  *)
(* keeps the fields it does not name, the limit of modes holds and the      *)
(* migration never puts an older row over a newer one.                      *)
(***************************************************************************)
EXTENDS UserData, FiniteSetTheorems, TLAPS

-----------------------------------------------------------------------------
(* The inductive invariant. *)

\* What the values of a request and of a row are, by kind.
Kinds ==
    /\ \A t \in Tabs :
         /\ req[t].op = "put" => req[t].val \in TextValues
         /\ req[t].op = "patch" => req[t].val \in Patches
         /\ req[t].op \in {"create", "rename"} => req[t].val \in ModeValues
         /\ req[t].op = "archive" => req[t].key \in Modes
         /\ req[t].op = "rename" => req[t].key \in Modes
         /\ req[t].step = "current" => req[t].op \in {"put", "discard"}
         /\ tx[t].key = "prefs" => tx[t].row = NoRow \/ tx[t].row.val \in PreferenceValues
         /\ tx[t].key \in Modes => tx[t].row.val \in ModeValues
         /\ req[t].base = NoRow \/ req[t].base.val \in PreferenceValues
    /\ table["prefs"] = NoRow \/ table["prefs"].val \in PreferenceValues
    /\ legacy = NoRow \/ legacy.val \in PreferenceValues
    /\ batch = NoRow \/ (batch.val \in PreferenceValues /\ batch.version > 0)
    /\ \A m \in Modes : table[m] = NoRow \/ table[m].val \in ModeValues

\* A tab has written a row while its request waits for the commit, and only
\* then; no two tabs have written the same row; what a tab has written comes
\* right after what is committed.
Locks ==
    /\ \A t \in Tabs : IF req[t].step = "commit" THEN tx[t].key \in Keys ELSE tx[t] = NoTx
    /\ \A t, u \in Tabs : t # u /\ tx[t].key # "none" => tx[u].key # tx[t].key
    /\ \A t \in Tabs : tx[t].key # "none" /\ tx[t].row # NoRow =>
         /\ tx[t].row.version = table[tx[t].key].version + 1
         /\ table[tx[t].key].at < tx[t].row.at
         /\ tx[t].row.saved = tx[t].row.at

\* A row was saved before the time it bears, and both are past; a legacy row
\* bears the time it was saved at or none.
Past(row) == row.saved <= row.at /\ row.at <= clock

Times ==
    /\ \A k \in Keys : Past(table[k])
    /\ \A t \in Tabs : Past(tx[t].row)
    /\ Past(batch)
    /\ legacy.saved <= clock /\ legacy.at \in {0, legacy.saved}

\* Which row a request has written.
Written ==
    \A t \in Tabs : req[t].step = "commit" =>
        /\ req[t].op # "none"
        /\ req[t].op \in {"put", "discard"} => tx[t].key \in {"note"} \cup Blocks
        /\ req[t].op \in {"patch", "reset"} => tx[t].key = "prefs"
        /\ req[t].op = "create" => tx[t].key \in Modes
        /\ req[t].op = "rename" => tx[t].key \in Modes /\ Active(tx[t].key)
        /\ req[t].op = "archive" => tx[t].key \in Modes /\ tx[t].row.val["status"] = "archived"

\* The version of a row tells which row it is, as long as it was not deleted
\* since the tab saw it or the request read it.
Follows(old, k) ==
    /\ old.version <= table[k].version
    /\ old.version = table[k].version => old = table[k]

Versions ==
    /\ \A t \in Tabs : \A k \in Keys \ (reborn[t] \cup {"prefs"}) : Follows(seen[t][k], k)
    /\ \A t \in Tabs : req[t].op = "patch" /\ req[t].step \in {"check", "save"}
                       /\ "prefs" \notin reborn[t] => Follows(req[t].base, "prefs")
    /\ \A t \in Tabs : req[t].op \in {"put", "discard"} =>
         /\ req[t].key \in {"note"} \cup Blocks
         /\ req[t].ver = seen[t][req[t].key].version

\* One create at a time gets past the advisory lock, and what it has counted
\* stays true until it commits.
Creates ==
    /\ \A t, u \in Tabs : t # u /\ req[t].op = "create" /\ req[u].op = "create" =>
         req[t].step = "lock" \/ req[u].step = "lock"
    /\ IsFiniteSet(ActiveModes)
    /\ \A t \in Tabs : req[t].op = "create" /\ req[t].step \in {"insert", "commit"} =>
         Cardinality(ActiveModes) < MaxModes

Inv ==
    /\ TypeOK /\ Kinds /\ Locks /\ Times /\ Written /\ Versions /\ Creates
    /\ ReplacesWhatWasSeen /\ UnsentFieldsStand /\ ModeLimit

-----------------------------------------------------------------------------
(* Lemmas about the operators. *)

\* The assumptions, one by one.
LEMMA Constants ==
    /\ MaxModes \in Nat /\ MaxModes > 0
    /\ MaxAttempts \in Nat /\ MaxAttempts > 0
    /\ MaxRequests \in Nat /\ MaxFaults \in Nat
    /\ "note" \in Keys /\ "prefs" \in Keys /\ "none" \notin Keys
    /\ Blocks \subseteq Keys /\ Modes \subseteq Keys
    /\ "prefs" \notin {"note"} \cup Blocks /\ "prefs" \notin Modes
    /\ ({"note"} \cup Blocks) \cap Modes = {}
BY LimitsAssumption, KeysAssumption DEF Keys

\* The absence of a row, and an idle tab.
LEMMA Nothing ==
    /\ NoRow \in Row /\ NoRow.version = 0 /\ NoRow.at = 0 /\ NoRow.saved = 0
    /\ NoTx \in [key : Keys \cup {"none"}, row : Row]
    /\ NoTx.key = "none" /\ NoTx.row = NoRow
    /\ Idle \in Request /\ Idle.op = "none" /\ Idle.step = "idle" /\ Idle.base = NoRow
<1>1. Empty \in Values
  BY DEF Values
<1>2. NoRow \in Row /\ NoRow.version = 0 /\ NoRow.at = 0 /\ NoRow.saved = 0
  BY <1>1 DEF NoRow, Row
<1>3. /\ NoTx \in [key : Keys \cup {"none"}, row : Row]
      /\ NoTx.key = "none" /\ NoTx.row = NoRow
  BY <1>2 DEF NoTx
<1>4. 1 \in 1..MaxAttempts
  BY Constants
<1>5. Idle \in Request /\ Idle.op = "none" /\ Idle.step = "idle" /\ Idle.base = NoRow
  BY <1>1, <1>2, <1>4 DEF Idle, Request
<1>6. QED  BY <1>2, <1>3, <1>5

\* What is past stays past.
LEMMA LaterTimes ==
    ASSUME TypeOK, clock <= clock', clock' \in Nat
    PROVE  /\ \A k \in Keys : Past(table[k]) => table[k].saved <= table[k].at /\ table[k].at <= clock'
           /\ \A t \in Tabs : Past(tx[t].row) => tx[t].row.saved <= tx[t].row.at /\ tx[t].row.at <= clock'
           /\ Past(batch) => batch.saved <= batch.at /\ batch.at <= clock'
           /\ legacy.saved <= clock => legacy.saved <= clock'
<1>1. \A r \in Row : r.at <= clock => r.at <= clock'
  BY DEF TypeOK, Row
<1>2. \A r \in Row : r.saved <= clock => r.saved <= clock'
  BY DEF TypeOK, Row
<1>3. QED  BY <1>1, <1>2 DEF TypeOK, Past

\* Moving a request to another step changes nothing else of it.
LEMMA Moved ==
    ASSUME TypeOK, NEW t \in Tabs,
           NEW s \in {"idle", "save", "current", "commit", "load", "check", "lock", "count", "insert"},
           Goto(t, s)
    PROVE  \E r \in Request :
              /\ req' = [req EXCEPT ![t] = r]
              /\ r.op = req[t].op /\ r.key = req[t].key /\ r.step = s /\ r.ver = req[t].ver
              /\ r.val = req[t].val /\ r.base = req[t].base
<1> DEFINE r == [req[t] EXCEPT !.step = s]
<1>1. req[t] \in Request
  BY DEF TypeOK
<1>2. r \in Request /\ r.step = s
  BY <1>1 DEF Request
<1>3. /\ r.op = req[t].op /\ r.key = req[t].key /\ r.ver = req[t].ver
      /\ r.val = req[t].val /\ r.base = req[t].base
  BY <1>1 DEF Request
<1>4. req' = [req EXCEPT ![t] = r]
  BY DEF Goto
<1>5. QED  BY <1>2, <1>3, <1>4

-----------------------------------------------------------------------------
(* The kinds of steps. *)

\* The initial state.
LEMMA InitInv == Init => Inv
<1> SUFFICES ASSUME Init PROVE Inv
  OBVIOUS
<1>1. /\ table \in [Keys -> Row] /\ \A k \in Keys : table[k] = NoRow
      /\ tx \in [Tabs -> [key : Keys \cup {"none"}, row : Row]]
      /\ \A t \in Tabs : tx[t] = NoTx
      /\ req \in [Tabs -> Request] /\ \A t \in Tabs : req[t] = Idle
  BY Nothing DEF Init
<1>2. /\ seen \in [Tabs -> [Keys -> Row]] /\ \A t \in Tabs, k \in Keys : seen[t][k] = NoRow
      /\ reborn \in [Tabs -> SUBSET Keys]
  BY <1>1 DEF Init
<1>3. legacy = NoRow /\ batch = NoRow /\ clock = 0 /\ requests = 0 /\ faults = 0
  BY DEF Init
<1>4. TypeOK
  BY <1>1, <1>2, <1>3, Nothing, Constants DEF TypeOK
<1>5. Kinds
  BY <1>1, <1>3, Nothing, Constants DEF Kinds
<1>6. Locks /\ Times /\ Written
  BY <1>1, <1>3, Nothing DEF Locks, Times, Past, Written
<1>7. Versions
  BY <1>1, <1>2, Nothing DEF Versions, Follows
<1>8. ActiveModes = {}
  BY <1>1, Constants DEF ActiveModes, Active
<1>9. Creates /\ ModeLimit
  BY <1>1, <1>8, Nothing, Constants, FS_EmptySet DEF Creates, ModeLimit
<1>10. ReplacesWhatWasSeen /\ UnsentFieldsStand
  BY <1>1, Nothing DEF ReplacesWhatWasSeen, UnsentFieldsStand, At
<1>11. QED  BY <1>4, <1>5, <1>6, <1>7, <1>9, <1>10 DEF Inv

\* A request goes on without writing.
LEMMA MoveInv ==
    ASSUME Inv, NEW t \in Tabs, NEW r \in Request,
           req' = [req EXCEPT ![t] = r],
           req[t].step # "commit", r.step # "commit",
           UNCHANGED <<table, tx, seen, legacy, batch, clock, faults>>,
           requests' \in 0..MaxRequests,
           \/ reborn' = reborn
           \/ reborn' = [reborn EXCEPT ![t] = @ \ {"prefs"}],
           r.op = "put" => r.val \in TextValues,
           r.op = "patch" => r.val \in Patches,
           r.op \in {"create", "rename"} => r.val \in ModeValues,
           r.op \in {"archive", "rename"} => r.key \in Modes,
           r.step = "current" => r.op \in {"put", "discard"},
           r.base = NoRow \/ r.base.val \in PreferenceValues,
           r.op = "patch" /\ r.step \in {"check", "save"} /\ "prefs" \notin reborn'[t]
              => Follows(r.base, "prefs"),
           r.op \in {"put", "discard"} => /\ r.key \in {"note"} \cup Blocks
                                          /\ r.ver = seen[t][r.key].version,
           r.op = "create" /\ r.step # "lock" =>
              \A u \in Tabs \ {t} : req[u].op = "create" => req[u].step = "lock",
           r.op = "create" /\ r.step = "insert" => Cardinality(ActiveModes) < MaxModes
    PROVE  Inv'
<1>1. TypeOK /\ Kinds /\ Locks /\ Times /\ Written /\ Versions /\ Creates
      /\ ReplacesWhatWasSeen /\ UnsentFieldsStand /\ ModeLimit
  BY DEF Inv
<1>2. /\ req' \in [Tabs -> Request] /\ req'[t] = r
      /\ \A u \in Tabs : u # t => req'[u] = req[u]
  BY <1>1 DEF TypeOK
<1>3. /\ reborn' \in [Tabs -> SUBSET Keys]
      /\ \A u \in Tabs : u # t => reborn'[u] = reborn[u]
      /\ \A k \in Keys \ {"prefs"} : k \in reborn'[t] <=> k \in reborn[t]
  BY <1>1 DEF TypeOK
<1>4. TypeOK'
  BY <1>1, <1>2, <1>3 DEF TypeOK
<1>5. Kinds'
  BY <1>1, <1>2 DEF Kinds
<1>6. Locks' /\ Times' /\ Written'
  <2>1. Locks'
    BY <1>1, <1>2 DEF Locks
  <2>2. Times'
    BY <1>1 DEF Times, Past
  <2>3. Written'
    BY <1>1, <1>2 DEF Written, Active
  <2>4. QED  BY <2>1, <2>2, <2>3
<1>7. Versions'
  <2>1. \A u \in Tabs : \A k \in Keys \ (reborn'[u] \cup {"prefs"}) : Follows(seen[u][k], k)
    BY <1>1, <1>3 DEF Versions
  <2>2. \A u \in Tabs : req'[u].op = "patch" /\ req'[u].step \in {"check", "save"}
                         /\ "prefs" \notin reborn'[u] => Follows(req'[u].base, "prefs")
    BY <1>1, <1>2, <1>3 DEF Versions
  <2>3. \A u \in Tabs : req'[u].op \in {"put", "discard"} =>
           /\ req'[u].key \in {"note"} \cup Blocks
           /\ req'[u].ver = seen[u][req'[u].key].version
    BY <1>1, <1>2 DEF Versions
  <2>4. QED  BY <2>1, <2>2, <2>3 DEF Versions, Follows
<1>8. ActiveModes' = ActiveModes
  BY DEF ActiveModes, Active
<1>9. Creates' /\ ModeLimit'
  BY <1>1, <1>2, <1>8 DEF Creates, ModeLimit
<1>10. ReplacesWhatWasSeen'
  BY <1>1, <1>2, <1>3 DEF ReplacesWhatWasSeen
<1>11. UnsentFieldsStand'
  BY <1>1, <1>2, <1>3 DEF UnsentFieldsStand, At
<1>12. QED  BY <1>4, <1>5, <1>6, <1>7, <1>9, <1>10, <1>11 DEF Inv

\* A request writes or deletes a row that no other request has written, and
\* waits for its commit.
LEMMA OpenInv ==
    ASSUME Inv, NEW t \in Tabs, NEW k \in Keys, NEW ro \in Row,
           req[t].step # "commit",
           req[t].op # "none",
           ~Locked(t, k),
           Goto(t, "commit"),
           tx' = [tx EXCEPT ![t] = [key |-> k, row |-> ro]],
           clock' \in {clock, clock + 1},
           ro.at <= clock', ro.saved = ro.at,
           ro # NoRow => ro.version = table[k].version + 1 /\ table[k].at < ro.at,
           UNCHANGED <<table, seen, reborn, legacy, batch, requests, faults>>,
           req[t].op \in {"put", "discard"} => k \in {"note"} \cup Blocks,
           req[t].op \in {"patch", "reset"} => k = "prefs",
           req[t].op = "create" => k \in Modes /\ req[t].step = "insert",
           req[t].op = "rename" => k \in Modes /\ Active(k),
           req[t].op = "archive" => k \in Modes /\ ro.val["status"] = "archived",
           k = "prefs" => ro = NoRow \/ ro.val \in PreferenceValues,
           k \in Modes => ro.val \in ModeValues,
           req[t].op \in {"put", "discard"} /\ k \notin reborn[t] => table[k] = seen[t][k],
           req[t].op = "patch" /\ "prefs" \notin reborn[t] =>
              \A f \in Fields \ DOMAIN req[t].val : ro.val[f] = Preferences(table["prefs"])[f]
    PROVE  Inv'
<1>1. TypeOK /\ Kinds /\ Locks /\ Times /\ Written /\ Versions /\ Creates
      /\ ReplacesWhatWasSeen /\ UnsentFieldsStand /\ ModeLimit
  BY DEF Inv
<1>2. PICK r \in Request :
         /\ req' = [req EXCEPT ![t] = r]
         /\ r.op = req[t].op /\ r.key = req[t].key /\ r.step = "commit" /\ r.ver = req[t].ver
         /\ r.val = req[t].val /\ r.base = req[t].base
  BY <1>1, Moved
<1>3. /\ req' \in [Tabs -> Request] /\ req'[t] = r
      /\ \A u \in Tabs : u # t => req'[u] = req[u]
  BY <1>1, <1>2 DEF TypeOK
<1>4. /\ tx' \in [Tabs -> [key : Keys \cup {"none"}, row : Row]]
      /\ tx'[t].key = k /\ tx'[t].row = ro
      /\ \A u \in Tabs : u # t => tx'[u] = tx[u]
  BY <1>1 DEF TypeOK
<1>5. k # "none" /\ \A u \in Tabs : u # t => tx[u].key # k
  BY Constants DEF Locked
<1>6. TypeOK'
  BY <1>1, <1>3, <1>4 DEF TypeOK
<1>7. Kinds'
  BY <1>1, <1>2, <1>3, <1>4 DEF Kinds
<1>8. Locks'
  BY <1>1, <1>2, <1>3, <1>4, <1>5 DEF Locks
<1>9. Times'
  <2>1. clock <= clock' /\ clock \in Nat
    BY <1>1 DEF TypeOK
  <2>2. ro.at \in Nat /\ ro.saved <= ro.at /\ clock' \in Nat
    BY <2>1 DEF Row
  <2>3. QED  BY <1>1, <1>4, <2>1, <2>2, LaterTimes DEF Times, Past
<1>10. Written'
  BY <1>1, <1>2, <1>3, <1>4 DEF Written, Active
<1>11. Versions'
  <2>1. \A u \in Tabs : /\ req'[u].op = req[u].op /\ req'[u].key = req[u].key
                        /\ req'[u].ver = req[u].ver
    BY <1>2, <1>3
  <2>2. \A u \in Tabs : \A j \in Keys \ (reborn[u] \cup {"prefs"}) : Follows(seen[u][j], j)
    BY <1>1 DEF Versions
  <2>3. \A u \in Tabs : req'[u].op = "patch" /\ req'[u].step \in {"check", "save"}
                         /\ "prefs" \notin reborn[u] => Follows(req'[u].base, "prefs")
    BY <1>1, <1>2, <1>3 DEF Versions
  <2>4. ASSUME NEW u \in Tabs, req'[u].op \in {"put", "discard"}
        PROVE  /\ req'[u].key \in {"note"} \cup Blocks
               /\ req'[u].ver = seen[u][req'[u].key].version
    <3>1. req[u].op \in {"put", "discard"}
      BY <2>1, <2>4
    <3>2. /\ req[u].key \in {"note"} \cup Blocks
          /\ req[u].ver = seen[u][req[u].key].version
      BY <1>1, <3>1 DEF Versions
    <3>3. QED  BY <2>1, <3>2
  <2>5. QED  BY <2>2, <2>3, <2>4 DEF Versions, Follows
<1>12. ActiveModes' = ActiveModes
  BY DEF ActiveModes, Active
<1>13. Creates' /\ ModeLimit'
  <2>1. \A u \in Tabs : req'[u].op = req[u].op
    BY <1>2, <1>3
  <2>2. \A u, v \in Tabs : u # v /\ req[u].op = "create" /\ req[v].op = "create" =>
           req'[u].step = "lock" \/ req'[v].step = "lock"
    BY <1>1, <1>3 DEF Creates
  <2>3. \A u \in Tabs : req[u].op = "create" /\ req'[u].step \in {"insert", "commit"} =>
           Cardinality(ActiveModes) < MaxModes
    BY <1>1, <1>3 DEF Creates
  <2>4. QED  BY <1>1, <1>12, <2>1, <2>2, <2>3 DEF Creates, ModeLimit
<1>14. ReplacesWhatWasSeen'
  BY <1>1, <1>2, <1>3, <1>4 DEF ReplacesWhatWasSeen
<1>15. UnsentFieldsStand'
  BY <1>1, <1>2, <1>3, <1>4 DEF UnsentFieldsStand, At
<1>16. QED  BY <1>6, <1>7, <1>8, <1>9, <1>10, <1>11, <1>13, <1>14, <1>15 DEF Inv

\* A tab is shown the committed row, by a GET or by the answer to a save that
\* wrote nothing.
LEMMA ShowInv ==
    ASSUME Inv, NEW t \in Tabs, NEW k \in Keys,
           Show(t, k, table[k]),
           req[t].step # "commit",
           req' = [req EXCEPT ![t] = Idle],
           UNCHANGED <<table, tx, legacy, batch, clock, requests, faults>>
    PROVE  Inv'
<1>1. TypeOK /\ Kinds /\ Locks /\ Times /\ Written /\ Versions /\ Creates
      /\ ReplacesWhatWasSeen /\ UnsentFieldsStand /\ ModeLimit
  BY DEF Inv
<1>2. /\ req' \in [Tabs -> Request] /\ req'[t] = Idle
      /\ \A u \in Tabs : u # t => req'[u] = req[u]
  BY <1>1, Nothing DEF TypeOK
<1>3. table[k] \in Row
  BY <1>1 DEF TypeOK
<1>4. /\ seen' \in [Tabs -> [Keys -> Row]]
      /\ seen'[t][k] = table[k]
      /\ \A j \in Keys : j # k => seen'[t][j] = seen[t][j]
      /\ \A u \in Tabs : u # t => seen'[u] = seen[u]
  BY <1>1, <1>3 DEF TypeOK, Show
<1>5. /\ reborn' \in [Tabs -> SUBSET Keys]
      /\ reborn'[t] = reborn[t] \ {k}
      /\ \A u \in Tabs : u # t => reborn'[u] = reborn[u]
  BY <1>1 DEF TypeOK, Show
<1>6. TypeOK'
  BY <1>1, <1>2, <1>4, <1>5 DEF TypeOK
<1>7. Kinds'
  BY <1>1, <1>2, Nothing DEF Kinds
<1>8. Locks'
  BY <1>1, <1>2, Nothing DEF Locks
<1>9. Times'
  BY <1>1 DEF Times, Past
<1>10. Written'
  BY <1>1, <1>2, Nothing DEF Written, Active
<1>11. Versions'
  <2>1. Follows(table[k], k)
    BY <1>3 DEF Follows, Row
  <2>2. \A u \in Tabs : \A j \in Keys \ (reborn'[u] \cup {"prefs"}) : Follows(seen'[u][j], j)
    BY <1>1, <1>4, <1>5, <2>1 DEF Versions
  <2>3. \A u \in Tabs : req'[u].op = "patch" /\ req'[u].step \in {"check", "save"}
                         /\ "prefs" \notin reborn'[u] => Follows(req'[u].base, "prefs")
    BY <1>1, <1>2, <1>5, Nothing DEF Versions
  <2>4. \A u \in Tabs : req'[u].op \in {"put", "discard"} =>
           /\ req'[u].key \in {"note"} \cup Blocks
           /\ req'[u].ver = seen'[u][req'[u].key].version
    BY <1>1, <1>2, <1>4, Nothing DEF Versions
  <2>5. QED  BY <2>2, <2>3, <2>4 DEF Versions, Follows
<1>12. ActiveModes' = ActiveModes
  BY DEF ActiveModes, Active
<1>13. Creates' /\ ModeLimit'
  BY <1>1, <1>2, <1>12, Nothing DEF Creates, ModeLimit
<1>14. ReplacesWhatWasSeen'
  BY <1>1, <1>2, <1>4, <1>5, Nothing DEF ReplacesWhatWasSeen
<1>15. UnsentFieldsStand'
  BY <1>1, <1>2, <1>5, Nothing DEF UnsentFieldsStand, At
<1>16. QED  BY <1>6, <1>7, <1>8, <1>9, <1>10, <1>11, <1>13, <1>14, <1>15 DEF Inv

\* The transaction is rolled back.
LEMMA RollbackInv ==
    ASSUME Inv, NEW t \in Tabs, Rollback(t)
    PROVE  Inv'
<1>1. TypeOK /\ Kinds /\ Locks /\ Times /\ Written /\ Versions /\ Creates
      /\ ReplacesWhatWasSeen /\ UnsentFieldsStand /\ ModeLimit
  BY DEF Inv
<1>2. /\ req' \in [Tabs -> Request] /\ req'[t] = Idle
      /\ \A u \in Tabs : u # t => req'[u] = req[u]
  BY <1>1, Nothing DEF TypeOK, Rollback, Answer
<1>3. /\ tx' \in [Tabs -> [key : Keys \cup {"none"}, row : Row]]
      /\ tx'[t] = NoTx
      /\ \A u \in Tabs : u # t => tx'[u] = tx[u]
  BY <1>1, Nothing DEF TypeOK, Rollback
<1>4. UNCHANGED <<table, seen, reborn, legacy, batch, clock, requests>>
  BY DEF Rollback
<1>5. faults' \in 0..MaxFaults
  BY <1>1, Constants DEF TypeOK, Rollback
<1>6. TypeOK'
  BY <1>1, <1>2, <1>3, <1>4, <1>5 DEF TypeOK
<1>7. Kinds'
  BY <1>1, <1>2, <1>3, <1>4, Nothing, Constants DEF Kinds
<1>8. Locks'
  BY <1>1, <1>2, <1>3, <1>4, Nothing, SMTT(30) DEF Locks
<1>9. Times'
  <2>1. tx'[t].row.at = 0 /\ tx'[t].row.saved = 0 /\ clock \in Nat
    BY <1>1, <1>3, Nothing DEF TypeOK
  <2>2. QED  BY <1>1, <1>3, <1>4, <2>1 DEF Times, Past
<1>10. Written'
  BY <1>1, <1>2, <1>3, <1>4, Nothing DEF Written, Active
<1>11. Versions'
  BY <1>1, <1>2, <1>4, Nothing DEF Versions, Follows
<1>12. ActiveModes' = ActiveModes
  BY <1>4 DEF ActiveModes, Active
<1>13. Creates' /\ ModeLimit'
  BY <1>1, <1>2, <1>12, Nothing DEF Creates, ModeLimit
<1>14. ReplacesWhatWasSeen'
  BY <1>1, <1>2, <1>3, <1>4, Nothing DEF ReplacesWhatWasSeen
<1>15. UnsentFieldsStand'
  BY <1>1, <1>2, <1>3, <1>4, Nothing DEF UnsentFieldsStand, At
<1>16. QED  BY <1>6, <1>7, <1>8, <1>9, <1>10, <1>11, <1>13, <1>14, <1>15 DEF Inv

\* The transaction is committed: the row it has written follows the committed
\* one, or makes it reborn for the other tabs, and the number of active modes
\* grows only by a create that has counted them.
LEMMA CommitInv ==
    ASSUME Inv, NEW t \in Tabs, Commit(t)
    PROVE  Inv'
<1> DEFINE k == tx[t].key
           ro == tx[t].row
<1>1. TypeOK /\ Kinds /\ Locks /\ Times /\ Written /\ Versions /\ Creates
      /\ ReplacesWhatWasSeen /\ UnsentFieldsStand /\ ModeLimit
  BY DEF Inv
<1>2. /\ k \in Keys /\ ro \in Row /\ k # "none"
      /\ \A u \in Tabs : u # t => tx[u].key # k
      /\ ro # NoRow => ro.version = table[k].version + 1 /\ table[k].at < ro.at
  BY <1>1, Constants DEF TypeOK, Locks, Commit
<1>3. /\ req' \in [Tabs -> Request] /\ req'[t] = Idle
      /\ \A u \in Tabs : u # t => req'[u] = req[u]
  BY <1>1, Nothing DEF TypeOK, Commit, Answer
<1>4. /\ tx' \in [Tabs -> [key : Keys \cup {"none"}, row : Row]]
      /\ tx'[t] = NoTx
      /\ \A u \in Tabs : u # t => tx'[u] = tx[u]
  BY <1>1, Nothing DEF TypeOK, Commit
<1>5. /\ table' \in [Keys -> Row] /\ table'[k] = ro
      /\ \A j \in Keys : j # k => table'[j] = table[j]
  BY <1>1, <1>2 DEF TypeOK, Commit
<1>6. /\ seen' \in [Tabs -> [Keys -> Row]]
      /\ seen'[t][k] = ro
      /\ \A j \in Keys : j # k => seen'[t][j] = seen[t][j]
      /\ \A u \in Tabs : u # t => seen'[u] = seen[u]
  BY <1>1, <1>2 DEF TypeOK, Commit
<1>7. /\ reborn'[t] = reborn[t] \ {k}
      /\ \A u \in Tabs : u # t => reborn'[u] = IF ro = NoRow THEN reborn[u] \cup {k}
                                                 ELSE reborn[u]
  BY DEF Commit
<1>8. reborn' \in [Tabs -> SUBSET Keys]
  <2>1. reborn' = [u \in Tabs |-> IF u = t THEN reborn[u] \ {k}
                                  ELSE IF ro = NoRow THEN reborn[u] \cup {k}
                                  ELSE reborn[u]]
    BY DEF Commit
  <2>2. \A u \in Tabs : reborn[u] \in SUBSET Keys
    BY <1>1 DEF TypeOK
  <2>3. QED  BY <1>2, <2>1, <2>2
<1>9. UNCHANGED <<legacy, batch, clock, requests, faults>>
  BY DEF Commit
<1>10. req[t].step = "commit" /\ req[t].op # "none"
  BY <1>1 DEF Commit, Written
<1> HIDE DEF k, ro
<1>11. TypeOK'
  BY <1>1, <1>3, <1>4, <1>5, <1>6, <1>8, <1>9 DEF TypeOK
<1>12. Kinds'
  <2>1. /\ k = "prefs" => ro = NoRow \/ ro.val \in PreferenceValues
        /\ k \in Modes => ro.val \in ModeValues
    BY <1>1 DEF Kinds, k, ro
  <2>2. /\ table'["prefs"] = NoRow \/ table'["prefs"].val \in PreferenceValues
        /\ \A m \in Modes : table'[m] = NoRow \/ table'[m].val \in ModeValues
    BY <1>1, <1>5, <2>1, Constants DEF Kinds
  <2>3. QED  BY <1>1, <1>3, <1>4, <1>9, <2>2, Nothing, Constants DEF Kinds
<1>13. Locks'
  <2>1. \A u \in Tabs : IF req'[u].step = "commit" THEN tx'[u].key \in Keys ELSE tx'[u] = NoTx
    BY <1>1, <1>3, <1>4, Nothing DEF Locks
  <2>2. \A u, v \in Tabs : u # v /\ tx'[u].key # "none" => tx'[v].key # tx'[u].key
    BY <1>1, <1>4, Nothing DEF Locks
  <2>3. ASSUME NEW u \in Tabs, tx'[u].key # "none", tx'[u].row # NoRow
        PROVE  /\ tx'[u].row.version = table'[tx'[u].key].version + 1
               /\ table'[tx'[u].key].at < tx'[u].row.at
               /\ tx'[u].row.saved = tx'[u].row.at
    <3>1. u # t /\ tx'[u] = tx[u]
      BY <1>4, <2>3, Nothing
    <3>2. tx[u].key \in Keys /\ tx[u].key # k
      BY <1>1, <1>2, <2>3, <3>1 DEF TypeOK
    <3>3. QED  BY <1>1, <1>5, <2>3, <3>1, <3>2 DEF Locks
  <2>4. QED  BY <2>1, <2>2, <2>3 DEF Locks
<1>14. Times'
  <2>1. Past(ro)
    BY <1>1 DEF Times, ro
  <2>2. tx'[t].row.at = 0 /\ tx'[t].row.saved = 0 /\ clock \in Nat
    BY <1>1, <1>4, Nothing DEF TypeOK
  <2>3. QED  BY <1>1, <1>4, <1>5, <1>9, <2>1, <2>2 DEF Times, Past
<1>15. Written'
  <2>1. ASSUME NEW u \in Tabs, req'[u].step = "commit"
        PROVE  u # t /\ req'[u] = req[u] /\ tx'[u] = tx[u] /\ tx[u].key # k /\ tx[u].key \in Keys
    BY <1>1, <1>2, <1>3, <1>4, <2>1, Nothing DEF Locks
  <2>2. ASSUME NEW u \in Tabs, req'[u].step = "commit"
        PROVE  table'[tx'[u].key] = table[tx[u].key]
    BY <1>5, <2>1, <2>2
  <2>3. QED  BY <1>1, <2>1, <2>2 DEF Written, Active
<1>16. ASSUME NEW old \in Row, NEW j \in Keys, Follows(old, j), j # k \/ ro # NoRow
       PROVE  Follows(old, j)'
  <2>1. CASE j # k
    BY <1>5, <1>16, <2>1 DEF Follows
  <2>2. CASE j = k
    <3>1. table[k].version \in Nat /\ old.version \in Nat /\ ro.version = table[k].version + 1
      BY <1>1, <1>2, <1>16, <2>2 DEF TypeOK, Row, k, ro
    <3>2. QED  BY <1>5, <1>16, <2>2, <3>1 DEF Follows
  <2>3. QED  BY <2>1, <2>2
<1>17. Versions'
  <2>1. ASSUME NEW u \in Tabs, NEW j \in Keys, j \notin reborn'[u], j # "prefs"
        PROVE  Follows(seen[u][j], j)'
    <3>1. CASE u = t /\ j = k
      BY <1>2, <1>5, <1>6, <3>1 DEF Follows, Row
    <3>2. CASE u = t /\ j # k
      <4>1. j \notin reborn[u] /\ seen'[u][j] = seen[u][j] /\ seen[u][j] \in Row
        BY <1>1, <1>6, <1>7, <2>1, <3>2 DEF TypeOK
      <4>2. Follows(seen[u][j], j)
        BY <1>1, <2>1, <4>1 DEF Versions
      <4>3. QED  BY <1>5, <3>2, <4>1, <4>2 DEF Follows
    <3>3. CASE u # t
      <4>1. /\ j \notin reborn[u] /\ (j # k \/ ro # NoRow)
            /\ seen'[u][j] = seen[u][j] /\ seen[u][j] \in Row
        BY <1>1, <1>6, <1>7, <2>1, <3>3 DEF TypeOK
      <4>2. Follows(seen[u][j], j)
        BY <1>1, <2>1, <4>1 DEF Versions
      <4>3. table[k].version \in Nat /\ seen[u][j].version \in Nat
        BY <1>1, <1>2, <4>1 DEF TypeOK, Row
      <4>4. QED  BY <1>2, <1>5, <4>1, <4>2, <4>3 DEF Follows, k, ro
    <3>4. QED  BY <3>1, <3>2, <3>3
  <2>2. ASSUME NEW u \in Tabs, req'[u].op = "patch", req'[u].step \in {"check", "save"},
               "prefs" \notin reborn'[u]
        PROVE  Follows(req[u].base, "prefs")'
    <3>1. u # t /\ req'[u] = req[u]
      BY <1>3, <2>2, Nothing
    <3>2. "prefs" \notin reborn[u] /\ ("prefs" # k \/ ro # NoRow)
      BY <1>7, <2>2, <3>1
    <3>3. Follows(req[u].base, "prefs") /\ req[u].base \in Row
      BY <1>1, <2>2, <3>1, <3>2 DEF Versions, TypeOK, Request
    <3>4. table[k].version \in Nat /\ req[u].base.version \in Nat
      BY <1>1, <1>2, <3>3 DEF TypeOK, Row
    <3>5. QED  BY <1>2, <1>5, <3>1, <3>2, <3>3, <3>4, Constants DEF Follows, k, ro
  <2>3. \A u \in Tabs : req'[u].op \in {"put", "discard"} =>
           /\ req'[u].key \in {"note"} \cup Blocks
           /\ req'[u].ver = seen'[u][req'[u].key].version
    BY <1>1, <1>3, <1>6, Nothing DEF Versions
  <2>4. QED  BY <2>1, <2>2, <2>3 DEF Versions
<1>18. Creates' /\ ModeLimit'
  <2>1. /\ ActiveModes' \subseteq ActiveModes \cup {k}
        /\ req[t].op # "create" => ActiveModes' \subseteq ActiveModes
    <3>1. ActiveModes' \subseteq ActiveModes \cup {k}
      BY <1>5, Constants DEF ActiveModes, Active
    <3>2. k \notin Modes => ActiveModes' \subseteq ActiveModes
      BY <1>5, Constants DEF ActiveModes, Active
    <3>3. ASSUME k \in Modes, req[t].op # "create" PROVE req[t].op \in {"rename", "archive"}
      <4>1. req[t].op \in {"put", "discard", "patch", "reset", "rename", "archive"}
        BY <1>1, <1>10, <3>3 DEF TypeOK, Request
      <4>2. QED  BY <1>1, <1>10, <3>3, <4>1, Constants DEF Written, k
    <3>4. req[t].op = "rename" => k \in ActiveModes
      BY <1>1, <1>10 DEF Written, ActiveModes, k
    <3>5. req[t].op = "archive" => k \notin ActiveModes'
      BY <1>1, <1>5, <1>10 DEF Written, ActiveModes, Active, k, ro
    <3>6. QED  BY <3>1, <3>2, <3>3, <3>4, <3>5
  <2>2. /\ IsFiniteSet(ActiveModes) /\ Cardinality(ActiveModes) \in Nat
        /\ IsFiniteSet(ActiveModes \cup {k})
        /\ Cardinality(ActiveModes \cup {k}) <= Cardinality(ActiveModes) + 1
        /\ Cardinality(ActiveModes \cup {k}) \in Nat
    <3>1. IsFiniteSet(ActiveModes) /\ Cardinality(ActiveModes) \in Nat
      BY <1>1, FS_CardinalityType DEF Creates
    <3>2. /\ IsFiniteSet(ActiveModes \cup {k})
          /\ \/ Cardinality(ActiveModes \cup {k}) = Cardinality(ActiveModes)
             \/ Cardinality(ActiveModes \cup {k}) = Cardinality(ActiveModes) + 1
      BY <3>1, FS_AddElement
    <3>3. QED  BY <3>1, <3>2
  <2>3. /\ IsFiniteSet(ActiveModes') /\ Cardinality(ActiveModes') \in Nat
        /\ Cardinality(ActiveModes') <= Cardinality(ActiveModes \cup {k})
    BY <2>1, <2>2, FS_Subset, FS_CardinalityType
  <2>4. CASE req[t].op = "create"
    <3>1. Cardinality(ActiveModes) < MaxModes
      BY <1>1, <1>10, <2>4 DEF Creates
    <3>2. Cardinality(ActiveModes') <= MaxModes
      BY <2>2, <2>3, <3>1, Constants
    <3>3. \A u \in Tabs : req'[u].op = "create" => req'[u].step = "lock"
      BY <1>1, <1>3, <1>10, <2>4, Nothing DEF Creates
    <3>4. QED  BY <2>3, <3>2, <3>3 DEF Creates, ModeLimit
  <2>5. CASE req[t].op # "create"
    <3>1. Cardinality(ActiveModes') <= Cardinality(ActiveModes)
      BY <2>1, <2>2, <2>5, FS_Subset
    <3>2. \A u, v \in Tabs : u # v /\ req'[u].op = "create" /\ req'[v].op = "create" =>
             req'[u].step = "lock" \/ req'[v].step = "lock"
      BY <1>1, <1>3, Nothing DEF Creates
    <3>3. ASSUME NEW u \in Tabs, req'[u].op = "create", req'[u].step \in {"insert", "commit"}
          PROVE  Cardinality(ActiveModes') < MaxModes
      <4>1. req'[u] = req[u]
        BY <1>3, <3>3, Nothing
      <4>2. Cardinality(ActiveModes) < MaxModes
        BY <1>1, <3>3, <4>1 DEF Creates
      <4>3. QED  BY <2>2, <2>3, <3>1, <4>2, Constants
    <3>4. Cardinality(ActiveModes') <= MaxModes
      BY <1>1, <2>2, <2>3, <3>1, Constants DEF ModeLimit
    <3>5. QED  BY <2>3, <3>2, <3>3, <3>4 DEF Creates, ModeLimit
  <2>6. QED  BY <2>4, <2>5
<1>19. ASSUME NEW u \in Tabs, req'[u].step = "commit"
       PROVE  /\ u # t /\ req'[u] = req[u] /\ tx'[u] = tx[u]
              /\ tx[u].key \in Keys /\ table'[tx[u].key] = table[tx[u].key]
              /\ reborn[u] \subseteq reborn'[u] /\ seen'[u] = seen[u]
  <2>1. u # t /\ req'[u] = req[u] /\ tx'[u] = tx[u]
    BY <1>3, <1>4, <1>19, Nothing
  <2>2. tx[u].key \in Keys /\ tx[u].key # k
    BY <1>1, <1>2, <1>19, <2>1 DEF Locks, k
  <2>3. QED  BY <1>5, <1>6, <1>7, <2>1, <2>2
<1>20. ReplacesWhatWasSeen'
  BY <1>1, <1>19 DEF ReplacesWhatWasSeen
<1>21. UnsentFieldsStand'
  <2>1. ASSUME NEW u \in Tabs, req'[u].op = "patch", req'[u].step = "commit"
        PROVE  table'["prefs"] = table["prefs"]
    BY <1>1, <1>19, <2>1 DEF Written
  <2>2. QED  BY <1>1, <1>19, <2>1 DEF UnsentFieldsStand, At, Preferences
<1>22. QED
  BY <1>11, <1>12, <1>13, <1>14, <1>15, <1>17, <1>18, <1>20, <1>21 DEF Inv

\* A handler answers without having written.
LEMMA AnswerInv ==
    ASSUME Inv, NEW t \in Tabs, req[t].step # "commit", Answer(t),
           UNCHANGED <<table, tx, seen, reborn, legacy, batch, clock, requests, faults>>
    PROVE  Inv'
<1>1. requests' \in 0..MaxRequests
  BY DEF Inv, TypeOK
<1>2. req' = [req EXCEPT ![t] = Idle]
  BY DEF Answer
<1>3. QED  BY <1>1, <1>2, Nothing, MoveInv

\* A handler goes on to another statement, without having written.
LEMMA GotoInv ==
    ASSUME Inv, NEW t \in Tabs, req[t].step # "commit",
           NEW s \in {"save", "current", "check", "count", "insert"}, Goto(t, s),
           UNCHANGED <<table, tx, seen, reborn, legacy, batch, clock, requests, faults>>,
           req[t].op = "patch" => s = "save" /\ req[t].step = "check",
           s = "current" => req[t].op \in {"put", "discard"},
           req[t].op = "create" =>
              \A u \in Tabs \ {t} : req[u].op = "create" => req[u].step = "lock",
           s = "insert" => Cardinality(ActiveModes) < MaxModes
    PROVE  Inv'
<1>1. TypeOK /\ Kinds /\ Versions
  BY DEF Inv
<1>2. PICK r \in Request :
         /\ req' = [req EXCEPT ![t] = r]
         /\ r.op = req[t].op /\ r.key = req[t].key /\ r.step = s /\ r.ver = req[t].ver
         /\ r.val = req[t].val /\ r.base = req[t].base
  BY <1>1, Moved
<1>3. /\ r.op = "put" => r.val \in TextValues
      /\ r.op = "patch" => r.val \in Patches
      /\ r.op \in {"create", "rename"} => r.val \in ModeValues
      /\ r.op \in {"archive", "rename"} => r.key \in Modes
      /\ r.base = NoRow \/ r.base.val \in PreferenceValues
  BY <1>1, <1>2 DEF Kinds
<1>4. r.op = "patch" /\ r.step \in {"check", "save"} /\ "prefs" \notin reborn'[t]
         => Follows(r.base, "prefs")
  BY <1>1, <1>2 DEF Versions
<1>5. r.op \in {"put", "discard"} => /\ r.key \in {"note"} \cup Blocks
                                      /\ r.ver = seen[t][r.key].version
  <2> SUFFICES ASSUME r.op \in {"put", "discard"}
               PROVE  r.key \in {"note"} \cup Blocks /\ r.ver = seen[t][r.key].version
    OBVIOUS
  <2>1. req[t].op \in {"put", "discard"}
    BY <1>2
  <2>2. req[t].key \in {"note"} \cup Blocks /\ req[t].ver = seen[t][req[t].key].version
    BY <1>1, <2>1 DEF Versions
  <2>3. QED  BY <1>2, <2>2
<1>6. requests' \in 0..MaxRequests
  BY <1>1 DEF TypeOK
<1>7. QED  BY <1>2, <1>3, <1>4, <1>5, <1>6, MoveInv

\* A tab sends a request.
LEMMA BeginInv ==
    ASSUME Inv, NEW t \in Tabs, NEW r \in Request, Begin(t, r),
           r.base = NoRow, r.step \in {"load", "save", "lock"},
           r.op = "put" => r.val \in TextValues,
           r.op = "patch" => r.val \in Patches /\ r.step = "load",
           r.op = "create" => r.step = "lock",
           r.op \in {"create", "rename"} => r.val \in ModeValues,
           r.op \in {"archive", "rename"} => r.key \in Modes,
           r.op \in {"put", "discard"} => /\ r.key \in {"note"} \cup Blocks
                                          /\ r.ver = seen[t][r.key].version
    PROVE  Inv'
<1>1. /\ req' = [req EXCEPT ![t] = r] /\ req[t].step # "commit"
      /\ UNCHANGED <<table, tx, seen, reborn, legacy, batch, clock, faults>>
  BY Nothing DEF Begin
<1>2. requests' \in 0..MaxRequests
  BY Constants DEF Inv, TypeOK, Begin
<1>3. QED  BY <1>1, <1>2, MoveInv
-----------------------------------------------------------------------------
(* What the actions write. *)

\* The fields a tab sends and the fields of a row are preferences, and so are
\* the two merged.
LEMMA PreferenceTypes ==
    /\ \A ro : ro = NoRow \/ ro.val \in PreferenceValues => Preferences(ro) \in PreferenceValues
    /\ \A p \in Patches : \A f \in DOMAIN p : p[f] \in Tones \cup {"auto"} \cup Modes
<1>1. Defaults \in PreferenceValues
  BY TonesAssumption DEF Defaults, PreferenceValues, Fields
<1>2. QED  BY <1>1 DEF Preferences, Patches

\* A PATCH merged into a row of the preferences gives a value of their type.
LEMMA MergedType ==
    ASSUME Inv, NEW t \in Tabs, req[t].op = "patch"
    PROVE  Merged(t) \in PreferenceValues
<1>1. req[t].val \in Patches /\ Preferences(req[t].base) \in PreferenceValues
  BY PreferenceTypes DEF Inv, Kinds
<1>2. \A f \in DOMAIN req[t].val : req[t].val[f] \in Tones \cup {"auto"} \cup Modes
  BY <1>1, PreferenceTypes
<1>3. QED  BY <1>1, <1>2 DEF Merged, PreferenceValues

\* A mode is a value of a mode.
LEMMA ModeTypes ==
    ASSUME NEW n \in Names \cup {"active", "archived"}, NEW s \in {"active", "archived"}
    PROVE  Mode(n, s) \in ModeValues /\ Mode(n, s)["status"] = s
BY DEF Mode, ModeValues

\* The requests of the tabs.
LEMMA DocumentRequestInv ==
    ASSUME Inv, NEW t \in Tabs, DocumentRequest(t)
    PROVE  Inv'
<1>1. \A k \in Keys : seen[t][k].version \in Nat
  BY DEF Inv, TypeOK, Row
<1>2. CASE PutText(t)
  <2>1. PICK k \in {"note"} \cup Blocks, x \in Texts :
           Begin(t, [Idle EXCEPT !.op = "put", !.key = k, !.step = "save",
                                 !.ver = seen[t][k].version, !.val = TextOf(x)])
    BY <1>2 DEF PutText
  <2> DEFINE r == [Idle EXCEPT !.op = "put", !.key = k, !.step = "save",
                               !.ver = seen[t][k].version, !.val = TextOf(x)]
  <2>2. k \in Keys /\ seen[t][k].version \in Nat /\ TextOf(x) \in TextValues /\ TextOf(x) \in Values
    BY <1>1, Constants DEF TextOf, TextValues, Values
  <2>3. /\ r \in Request /\ r.op = "put" /\ r.key = k /\ r.step = "save"
        /\ r.ver = seen[t][k].version /\ r.val = TextOf(x) /\ r.base = NoRow
    BY <2>2, Nothing DEF Idle, Request
  <2>4. Begin(t, r)
    BY <2>1
  <2> HIDE DEF r
  <2>5. QED  BY <2>2, <2>3, <2>4, BeginInv
<1>3. CASE Discard(t)
  <2>1. PICK b \in Blocks :
           Begin(t, [Idle EXCEPT !.op = "discard", !.key = b, !.step = "save",
                                 !.ver = seen[t][b].version])
    BY <1>3 DEF Discard
  <2> DEFINE r == [Idle EXCEPT !.op = "discard", !.key = b, !.step = "save",
                               !.ver = seen[t][b].version]
  <2>2. b \in Keys /\ seen[t][b].version \in Nat
    BY <1>1, Constants
  <2>3. /\ r \in Request /\ r.op = "discard" /\ r.key = b /\ r.step = "save"
        /\ r.ver = seen[t][b].version /\ r.base = NoRow
    BY <2>2, Nothing DEF Idle, Request
  <2>4. Begin(t, r)
    BY <2>1
  <2> HIDE DEF r
  <2>5. QED  BY <2>2, <2>3, <2>4, BeginInv
<1>4. QED  BY <1>2, <1>3 DEF DocumentRequest

\* Every step of a request for the preferences or a mode keeps the invariant.
LEMMA SettingsRequestInv ==
    ASSUME Inv, NEW t \in Tabs, SettingsRequest(t)
    PROVE  Inv'
<1>1. \A k \in Keys : seen[t][k].version \in Nat
  BY DEF Inv, TypeOK, Row
<1>2. CASE Patch(t)
  <2>1. PICK p \in Patches, given \in BOOLEAN :
           Begin(t, [Idle EXCEPT !.op = "patch", !.key = "prefs", !.step = "load", !.val = p,
                                 !.given = given, !.ver = seen[t]["prefs"].version,
                                 !.left = IF given THEN 1 ELSE MaxAttempts])
    BY <1>2 DEF Patch
  <2> DEFINE n == IF given THEN 1 ELSE MaxAttempts
  <2> DEFINE r == [Idle EXCEPT !.op = "patch", !.key = "prefs", !.step = "load", !.val = p,
                               !.given = given, !.ver = seen[t]["prefs"].version, !.left = n]
  <2>2. n \in 1..MaxAttempts /\ "prefs" \in Keys /\ seen[t]["prefs"].version \in Nat
    BY <1>1, Constants
  <2>3. Begin(t, r)
    BY <2>1
  <2> HIDE DEF n
  <2>4. /\ r \in Request /\ r.op = "patch" /\ r.step = "load" /\ r.val = p /\ r.base = NoRow
    BY <2>2, Nothing DEF Idle, Request
  <2> HIDE DEF r
  <2>5. QED  BY <2>3, <2>4, BeginInv
<1>3. CASE Reset(t)
  <2> DEFINE r == [Idle EXCEPT !.op = "reset", !.key = "prefs", !.step = "save"]
  <2>1. Begin(t, r)
    BY <1>3 DEF Reset
  <2>2. r \in Request /\ r.op = "reset" /\ r.step = "save" /\ r.base = NoRow
    BY Constants, Nothing DEF Idle, Request
  <2> HIDE DEF r
  <2>3. QED  BY <2>1, <2>2, BeginInv
<1>4. CASE CreateMode(t)
  <2>1. PICK n \in Names :
           Begin(t, [Idle EXCEPT !.op = "create", !.step = "lock", !.val = Mode(n, "active")])
    BY <1>4 DEF CreateMode
  <2> DEFINE r == [Idle EXCEPT !.op = "create", !.step = "lock", !.val = Mode(n, "active")]
  <2>2. Mode(n, "active") \in ModeValues /\ Mode(n, "active") \in Values
    BY ModeTypes DEF Values
  <2>3. Begin(t, r)
    BY <2>1
  <2>4. /\ r \in Request /\ r.op = "create" /\ r.step = "lock" /\ r.base = NoRow
        /\ r.val = Mode(n, "active")
    BY <2>2, Nothing DEF Idle, Request
  <2> HIDE DEF r
  <2>5. QED  BY <2>2, <2>3, <2>4, BeginInv
<1>5. CASE EditMode(t)
  <2>1. PICK m \in Modes, n \in Names, given \in BOOLEAN :
           Begin(t, [Idle EXCEPT !.op = "rename", !.key = m, !.step = "save", !.given = given,
                                 !.ver = seen[t][m].version, !.val = Mode(n, "active")])
    BY <1>5 DEF EditMode
  <2> DEFINE r == [Idle EXCEPT !.op = "rename", !.key = m, !.step = "save", !.given = given,
                               !.ver = seen[t][m].version, !.val = Mode(n, "active")]
  <2>2. /\ Mode(n, "active") \in ModeValues /\ Mode(n, "active") \in Values
        /\ m \in Keys /\ seen[t][m].version \in Nat
    BY <1>1, ModeTypes, Constants DEF Values
  <2>3. Begin(t, r)
    BY <2>1
  <2>4. /\ r \in Request /\ r.op = "rename" /\ r.step = "save" /\ r.base = NoRow
        /\ r.key = m /\ r.val = Mode(n, "active")
    BY <2>2, Nothing DEF Idle, Request
  <2> HIDE DEF r
  <2>5. QED  BY <2>2, <2>3, <2>4, BeginInv
<1>6. CASE ArchiveMode(t)
  <2>1. PICK m \in Modes :
           Begin(t, [Idle EXCEPT !.op = "archive", !.key = m, !.step = "load"])
    BY <1>6 DEF ArchiveMode
  <2> DEFINE r == [Idle EXCEPT !.op = "archive", !.key = m, !.step = "load"]
  <2>2. Begin(t, r)
    BY <2>1
  <2>3. m \in Keys
    BY Constants
  <2>4. r \in Request /\ r.op = "archive" /\ r.step = "load" /\ r.base = NoRow /\ r.key = m
    BY <2>3, Nothing DEF Idle, Request
  <2> HIDE DEF r
  <2>5. QED  BY <2>2, <2>4, BeginInv
<1>7. QED  BY <1>2, <1>3, <1>4, <1>5, <1>6 DEF SettingsRequest
\* A request writes a value under the next version.
LEMMA WriteInv ==
    ASSUME Inv, NEW t \in Tabs, NEW k \in Keys, NEW val \in Values,
           req[t].step # "commit", req[t].op # "none",
           ~Locked(t, k), Goto(t, "commit"), Write(t, k, val),
           UNCHANGED <<table, seen, reborn, legacy, batch, requests, faults>>,
           req[t].op \in {"put", "discard"} => k \in {"note"} \cup Blocks,
           req[t].op \in {"patch", "reset"} => k = "prefs",
           req[t].op = "create" => k \in Modes /\ req[t].step = "insert",
           req[t].op = "rename" => k \in Modes /\ Active(k),
           req[t].op = "archive" => k \in Modes /\ val["status"] = "archived",
           k = "prefs" => val \in PreferenceValues,
           k \in Modes => val \in ModeValues,
           req[t].op \in {"put", "discard"} /\ k \notin reborn[t] => table[k] = seen[t][k],
           req[t].op = "patch" /\ "prefs" \notin reborn[t] =>
              \A f \in Fields \ DOMAIN req[t].val : val[f] = Preferences(table["prefs"])[f]
    PROVE  Inv'
<1> DEFINE ro == [version |-> table[k].version + 1, val |-> val,
                  at |-> clock + 1, saved |-> clock + 1]
<1>1. table[k].version \in Nat /\ table[k].at \in Nat /\ clock \in Nat /\ table[k].at <= clock
  BY DEF Inv, TypeOK, Row, Times, Past
<1>2. /\ ro \in Row /\ ro.val = val /\ ro.at = clock + 1 /\ ro.saved = ro.at /\ ro.version = table[k].version + 1
  BY <1>1 DEF Row
<1>3. tx' = [tx EXCEPT ![t] = [key |-> k, row |-> ro]] /\ clock' = clock + 1
  BY DEF Write
<1> HIDE DEF ro
<1>4. ro.at <= clock' /\ table[k].at < ro.at /\ clock' \in {clock, clock + 1}
  BY <1>1, <1>2, <1>3
<1>5. QED  BY <1>2, <1>3, <1>4, OpenInv

\* A request deletes a row.
LEMMA DeleteInv ==
    ASSUME Inv, NEW t \in Tabs, NEW k \in Keys \ Modes,
           req[t].step # "commit", req[t].op \in {"discard", "reset"},
           ~Locked(t, k), Goto(t, "commit"), Delete(t, k),
           UNCHANGED <<table, seen, reborn, legacy, batch, requests, faults>>,
           req[t].op = "discard" => k \in {"note"} \cup Blocks,
           req[t].op = "reset" => k = "prefs",
           req[t].op = "discard" /\ k \notin reborn[t] => table[k] = seen[t][k]
    PROVE  Inv'
<1>1. tx' = [tx EXCEPT ![t] = [key |-> k, row |-> NoRow]] /\ clock' = clock
  BY DEF Delete
<1>2. NoRow \in Row /\ NoRow.at <= clock' /\ NoRow.saved = NoRow.at
  BY <1>1, Nothing DEF Inv, TypeOK
<1>3. QED  BY <1>1, <1>2, OpenInv

\* The statements on notes and source edits: the version asked for tells that
\* the row is the one the tab was shown.
LEMMA DocumentStepInv ==
    ASSUME Inv, NEW t \in Tabs, DocumentStep(t)
    PROVE  Inv'
<1> DEFINE k == req[t].key
<1>1. TypeOK /\ Kinds /\ Versions
  BY DEF Inv
<1>2. ASSUME req[t].op \in {"put", "discard"}
      PROVE  /\ k \in {"note"} \cup Blocks /\ k \in Keys /\ k # "prefs" /\ k \notin Modes
             /\ req[t].ver = seen[t][k].version
             /\ k \notin reborn[t] => Follows(seen[t][k], k)
  <2>1. k \in {"note"} \cup Blocks /\ req[t].ver = seen[t][k].version
    BY <1>1, <1>2 DEF Versions
  <2>2. k \in Keys /\ k # "prefs" /\ k \notin Modes
    BY <2>1, Constants
  <2>3. QED  BY <1>1, <2>1, <2>2 DEF Versions
<1>3. CASE SaveText(t)
  <2>1. At(t, "put", "save")
    BY <1>3 DEF SaveText
  <2>2. req[t].op = "put" /\ req[t].step = "save" /\ req[t].val \in TextValues /\ req[t].val \in Values
    BY <1>1, <2>1 DEF At, Kinds, Values
  <2>3. CASE Saves(k, req[t].ver, req[t].val)
    <3>1. ~Locked(t, k) /\ Write(t, k, req[t].val) /\ Goto(t, "commit")
      BY <1>3, <2>3 DEF SaveText
    <3>2. k \notin reborn[t] => table[k] = seen[t][k]
      <4>1. table[k].version = req[t].ver
        BY <2>3, Nothing DEF Saves, Matches
      <4>2. QED  BY <1>2, <2>2, <4>1 DEF Follows
    <3>3. UNCHANGED <<table, seen, reborn, legacy, batch, requests, faults>>
      BY <1>3 DEF SaveText
    <3>4. QED  BY <1>2, <2>2, <3>1, <3>2, <3>3, WriteInv
  <2>4. CASE ~Saves(k, req[t].ver, req[t].val)
    <3>1. /\ Goto(t, "current")
          /\ UNCHANGED <<table, tx, seen, reborn, legacy, batch, clock, requests, faults>>
      BY <1>3, <2>4 DEF SaveText
    <3>2. QED  BY <2>2, <3>1, GotoInv
  <2>5. QED  BY <2>3, <2>4
<1>4. CASE DeleteEdit(t)
  <2>1. req[t].op = "discard" /\ req[t].step = "save"
    BY <1>4 DEF DeleteEdit, At
  <2>2. CASE Matches(k, req[t].ver)
    <3>1. /\ ~Locked(t, k) /\ Delete(t, k) /\ Goto(t, "commit")
          /\ UNCHANGED <<table, seen, reborn, legacy, batch, requests, faults>>
      BY <1>4, <2>2 DEF DeleteEdit
    <3>2. k \notin reborn[t] => table[k] = seen[t][k]
      BY <1>2, <2>1, <2>2 DEF Follows, Matches
    <3>3. QED  BY <1>2, <2>1, <3>1, <3>2, DeleteInv
  <2>3. CASE ~Matches(k, req[t].ver)
    <3>1. /\ Goto(t, "current")
          /\ UNCHANGED <<table, tx, seen, reborn, legacy, batch, clock, requests, faults>>
      BY <1>4, <2>3 DEF DeleteEdit
    <3>2. QED  BY <2>1, <3>1, GotoInv
  <2>4. QED  BY <2>2, <2>3
<1>5. CASE Current(t)
  <2>1. /\ req[t].step = "current" /\ Show(t, k, table[k]) /\ req' = [req EXCEPT ![t] = Idle]
        /\ UNCHANGED <<table, tx, legacy, batch, clock, requests, faults>>
    BY <1>5 DEF Current, Answer
  <2>2. k \in Keys
    BY <1>1, <1>2, <2>1 DEF Kinds
  <2>3. QED  BY <2>1, <2>2, ShowInv
<1>6. QED  BY <1>3, <1>4, <1>5 DEF DocumentStep
\* PreferencesService.update and reset: the version asked for tells that the
\* row is the one the patch was merged into.
LEMMA PreferencesStepInv ==
    ASSUME Inv, NEW t \in Tabs,
           Load(t) \/ CheckMode(t) \/ SavePreferences(t) \/ DeletePreferences(t)
    PROVE  Inv'
<1>1. TypeOK /\ Kinds /\ Versions
  BY DEF Inv
<1>2. /\ req[t] \in Request /\ table["prefs"] \in Row /\ "prefs" \in Keys
      /\ table["prefs"] = NoRow \/ table["prefs"].val \in PreferenceValues
  BY <1>1, Constants DEF TypeOK, Kinds
<1>3. requests \in 0..MaxRequests
  BY <1>1 DEF TypeOK
<1>4. CASE Load(t)
  <2>1. /\ req[t].op = "patch" /\ req[t].step = "load"
        /\ UNCHANGED <<table, tx, seen, legacy, batch, clock, requests, faults>>
    BY <1>4 DEF Load, At
  <2>2. CASE Answer(t) /\ UNCHANGED reborn
    BY <2>1, <2>2, AnswerInv
  <2>3. CASE /\ req' = [req EXCEPT ![t].base = table["prefs"], ![t].step = "check"]
             /\ reborn' = [reborn EXCEPT ![t] = @ \ {"prefs"}]
    <3> DEFINE r == [req[t] EXCEPT !.base = table["prefs"], !.step = "check"]
    <3>1. /\ r \in Request /\ r.op = "patch" /\ r.step = "check"
          /\ r.val = req[t].val /\ r.base = table["prefs"]
      BY <1>2, <2>1 DEF Request
    <3>2. req' = [req EXCEPT ![t] = r]
      BY <1>1, <2>3 DEF TypeOK
    <3>3. Follows(table["prefs"], "prefs")
      BY <1>2 DEF Follows, Row
    <3>4. r.val \in Patches
      BY <1>1, <2>1, <3>1 DEF Kinds
    <3> HIDE DEF r
    <3>5. QED  BY <1>2, <1>3, <2>1, <2>3, <3>1, <3>2, <3>3, <3>4, MoveInv
  <2>4. QED  BY <1>4, <2>2, <2>3 DEF Load
<1>5. CASE CheckMode(t)
  <2>1. /\ req[t].op = "patch" /\ req[t].step = "check"
        /\ Goto(t, "save") \/ Answer(t)
        /\ UNCHANGED <<table, tx, seen, reborn, legacy, batch, clock, requests, faults>>
    BY <1>5 DEF CheckMode, At
  <2>2. QED  BY <2>1, AnswerInv, GotoInv
<1>6. CASE SavePreferences(t)
  <2> DEFINE ver == req[t].base.version
             found == IF ver = 0 THEN table["prefs"] = NoRow ELSE Matches("prefs", ver)
  <2>1. /\ req[t].op = "patch" /\ req[t].step = "save"
        /\ UNCHANGED <<table, seen, reborn, legacy, batch, requests, faults>>
    BY <1>6 DEF SavePreferences, At
  <2>2. CASE found /\ ~Locked(t, "prefs") /\ Write(t, "prefs", Merged(t)) /\ Goto(t, "commit")
    <3>1. Merged(t) \in PreferenceValues /\ Merged(t) \in Values
      BY <2>1, MergedType DEF Values
    <3>2. ASSUME "prefs" \notin reborn[t] PROVE req[t].base = table["prefs"]
      <4>1. Follows(req[t].base, "prefs")
        BY <1>1, <2>1, <3>2 DEF Versions
      <4>2. table["prefs"].version = ver
        BY <2>2, Nothing DEF Matches
      <4>3. QED  BY <4>1, <4>2 DEF Follows
    <3>3. "prefs" \notin reborn[t] =>
             \A f \in Fields \ DOMAIN req[t].val : Merged(t)[f] = Preferences(table["prefs"])[f]
      BY <3>2 DEF Merged
    <3>4. QED  BY <1>2, <2>1, <2>2, <3>1, <3>3, Constants, WriteInv
  <2>3. CASE Conflict(t)
    <3>1. UNCHANGED <<tx, clock>>
      BY <2>3 DEF Conflict
    <3>2. CASE req[t].left = 1
      BY <2>1, <2>3, <3>1, <3>2, AnswerInv DEF Conflict
    <3>3. CASE req[t].left # 1
      <4> DEFINE r == [req[t] EXCEPT !.step = "load", !.left = @ - 1]
      <4>1. req[t].left - 1 \in 1..MaxAttempts
        BY <1>2, <3>3, Constants DEF Request
      <4>2. /\ r \in Request /\ r.op = "patch" /\ r.step = "load"
            /\ r.val = req[t].val /\ r.base = req[t].base
        BY <1>2, <2>1, <4>1 DEF Request
      <4>3. req' = [req EXCEPT ![t] = r]
        BY <1>1, <2>3, <3>3 DEF TypeOK, Conflict
      <4>4. r.val \in Patches /\ (r.base = NoRow \/ r.base.val \in PreferenceValues)
        BY <1>1, <2>1, <4>2 DEF Kinds
      <4> HIDE DEF r
      <4>5. QED  BY <1>3, <2>1, <3>1, <4>2, <4>3, <4>4, MoveInv
    <3>4. QED  BY <3>2, <3>3
  <2>4. QED  BY <1>6, <2>2, <2>3 DEF SavePreferences
<1>7. CASE DeletePreferences(t)
  <2>1. /\ req[t].op = "reset" /\ req[t].step = "save"
        /\ UNCHANGED <<table, seen, reborn, legacy, batch, requests, faults>>
    BY <1>7 DEF DeletePreferences, At
  <2>2. CASE ~Locked(t, "prefs") /\ Delete(t, "prefs") /\ Goto(t, "commit")
    BY <1>2, <2>1, <2>2, Constants, DeleteInv
  <2>3. CASE Answer(t) /\ UNCHANGED <<tx, clock>>
    BY <2>1, <2>3, AnswerInv
  <2>4. QED  BY <1>7, <2>2, <2>3 DEF DeletePreferences
<1>8. QED  BY <1>4, <1>5, <1>6, <1>7

\* The custom modes: one create counts at a time, and only a create adds one.
LEMMA ModesStepInv ==
    ASSUME Inv, NEW t \in Tabs,
           \/ LockModes(t) \/ CountModes(t) \/ InsertMode(t)
           \/ UpdateMode(t) \/ GetMode(t) \/ Archive(t)
    PROVE  Inv'
<1> DEFINE r == req[t]
<1>1. TypeOK /\ Kinds /\ Creates
  BY DEF Inv
<1>2. CASE LockModes(t)
  BY <1>2, GotoInv DEF LockModes, At
<1>3. CASE CountModes(t)
  <2>1. /\ r.op = "create" /\ r.step = "count"
        /\ UNCHANGED <<table, tx, seen, reborn, legacy, batch, clock, requests, faults>>
        /\ \/ Cardinality(ActiveModes) < MaxModes /\ Goto(t, "insert")
           \/ Answer(t)
    BY <1>3 DEF CountModes, At
  <2>2. \A u \in Tabs \ {t} : req[u].op = "create" => req[u].step = "lock"
    BY <1>1, <2>1 DEF Creates
  <2>3. QED  BY <2>1, <2>2, AnswerInv, GotoInv
<1>4. CASE InsertMode(t)
  <2>1. PICK m \in Modes :
           /\ At(t, "create", "insert")
           /\ ~Locked(t, m)
           /\ \/ Write(t, m, r.val) /\ Goto(t, "commit")
              \/ Answer(t) /\ UNCHANGED <<tx, clock>>
           /\ UNCHANGED <<table, seen, reborn, legacy, batch, requests, faults>>
    BY <1>4 DEF InsertMode
  <2>2. r.op = "create" /\ r.step = "insert" /\ m \in Keys /\ r.val \in ModeValues /\ r.val \in Values
    BY <1>1, <2>1, Constants DEF At, Kinds, Values
  <2>3. m # "prefs"
    BY Constants
  <2>4. CASE Write(t, m, r.val) /\ Goto(t, "commit")
    BY <2>1, <2>2, <2>3, <2>4, WriteInv
  <2>5. CASE Answer(t) /\ UNCHANGED <<tx, clock>>
    BY <2>1, <2>2, <2>5, AnswerInv
  <2>6. QED  BY <2>1, <2>4, <2>5
<1>5. CASE UpdateMode(t)
  <2>1. /\ r.op = "rename" /\ r.step = "save"
        /\ UNCHANGED <<table, seen, reborn, legacy, batch, requests, faults>>
        /\ \/ /\ Active(r.key) /\ ~Locked(t, r.key)
              /\ Write(t, r.key, r.val) /\ Goto(t, "commit")
           \/ Answer(t) /\ UNCHANGED <<tx, clock>>
    BY <1>5 DEF UpdateMode, At
  <2>2. r.key \in Modes /\ r.key \in Keys /\ r.key # "prefs" /\ r.val \in ModeValues /\ r.val \in Values
    BY <1>1, <2>1, Constants DEF Kinds, Values
  <2>3. QED  BY <2>1, <2>2, AnswerInv, WriteInv
<1>6. CASE GetMode(t)
  BY <1>6, AnswerInv, GotoInv DEF GetMode, At
<1>7. CASE Archive(t)
  <2> DEFINE v == Mode(table[r.key].val["name"], "archived")
  <2>1. /\ r.op = "archive" /\ r.step = "save"
        /\ UNCHANGED <<table, seen, reborn, legacy, batch, requests, faults>>
        /\ \/ /\ Active(r.key) /\ ~Locked(t, r.key)
              /\ Write(t, r.key, v) /\ Goto(t, "commit")
           \/ Answer(t) /\ UNCHANGED <<tx, clock>>
    BY <1>7 DEF Archive, At
  <2>2. r.key \in Modes /\ r.key \in Keys /\ r.key # "prefs"
    BY <1>1, <2>1, Constants DEF Kinds
  <2>3. CASE Active(r.key) /\ ~Locked(t, r.key) /\ Write(t, r.key, v) /\ Goto(t, "commit")
    <3>1. table[r.key].val \in ModeValues
      BY <1>1, <2>2, <2>3 DEF Kinds, Active
    <3>2. table[r.key].val["name"] \in Names \cup {"active", "archived"}
      BY <3>1 DEF ModeValues
    <3>3. v \in ModeValues /\ v \in Values /\ v["status"] = "archived"
      BY <3>2, ModeTypes DEF Values
    <3> HIDE DEF v
    <3>4. QED  BY <2>1, <2>2, <2>3, <3>3, WriteInv
  <2>4. CASE Answer(t) /\ UNCHANGED <<tx, clock>>
    BY <2>1, <2>4, AnswerInv
  <2>5. QED  BY <2>1, <2>3, <2>4
<1>8. QED  BY <1>2, <1>3, <1>4, <1>5, <1>6, <1>7

\* What neither the rows, nor the requests nor the tabs are part of keeps the
\* rest of the invariant.
LEMMA LegacySideInv ==
    ASSUME Inv, UNCHANGED <<table, tx, req, seen, reborn>>,
           legacy' \in Row, legacy' = NoRow \/ legacy'.val \in PreferenceValues,
           legacy'.saved <= clock', legacy'.at \in {0, legacy'.saved},
           batch' \in Row, batch' = NoRow \/ (batch'.val \in PreferenceValues /\ batch'.version > 0),
           batch'.saved <= batch'.at, batch'.at <= clock',
           clock' \in {clock, clock + 1}, requests' \in 0..MaxRequests, faults' \in 0..MaxFaults
    PROVE  Inv'
<1>1. TypeOK /\ Kinds /\ Locks /\ Times /\ Written /\ Versions /\ Creates
      /\ ReplacesWhatWasSeen /\ UnsentFieldsStand /\ ModeLimit
  BY DEF Inv
<1>2. clock' \in Nat /\ clock <= clock'
  BY <1>1 DEF TypeOK
<1>3. TypeOK'
  BY <1>1, <1>2 DEF TypeOK
<1>4. Kinds'
  BY <1>1 DEF Kinds
<1>5. Times'
  BY <1>1, <1>2, LaterTimes DEF Times, Past
<1>6. Locks' /\ Written' /\ Versions'
  BY <1>1 DEF Locks, Written, Versions, Follows, Active
<1>7. ActiveModes' = ActiveModes
  BY DEF ActiveModes, Active
<1>8. Creates' /\ ModeLimit'
  BY <1>1, <1>7 DEF Creates, ModeLimit
<1>9. ReplacesWhatWasSeen' /\ UnsentFieldsStand'
  BY <1>1 DEF ReplacesWhatWasSeen, UnsentFieldsStand, At, Preferences
<1>10. QED  BY <1>3, <1>4, <1>5, <1>6, <1>8, <1>9 DEF Inv

\* The old release edits the preferences in Cassandra.
LEMMA LegacyEditInv ==
    ASSUME Inv, LegacyEdit
    PROVE  Inv'
<1>1. TypeOK /\ Kinds /\ Times
  BY DEF Inv
<1>2. PICK x \in Tones, v, d \in BOOLEAN :
         legacy' = [version |-> IF v THEN legacy.version + 1 ELSE 0,
                    val |-> [Preferences(legacy) EXCEPT !["tone"] = x],
                    at |-> IF d THEN clock + 1 ELSE 0, saved |-> clock + 1]
  BY DEF LegacyEdit
<1>3. /\ clock' = clock + 1 /\ requests' = requests + 1 /\ requests < MaxRequests
      /\ UNCHANGED <<table, tx, req, seen, reborn, batch, faults>>
  BY DEF LegacyEdit
<1>4. Preferences(legacy) \in PreferenceValues
  BY <1>1, PreferenceTypes DEF Kinds
<1>5. [Preferences(legacy) EXCEPT !["tone"] = x] \in PreferenceValues
  BY <1>4 DEF PreferenceValues
<1>6. legacy.version \in Nat /\ clock \in Nat /\ requests' \in 0..MaxRequests
  BY <1>1, <1>3, Constants DEF TypeOK, Row
<1>7. /\ legacy' \in Row /\ legacy'.val \in PreferenceValues
      /\ legacy'.saved = clock + 1 /\ legacy'.at \in {0, legacy'.saved}
  BY <1>2, <1>5, <1>6 DEF Row, Values
<1>8. legacy'.saved <= clock'
  BY <1>3, <1>6, <1>7
<1>9. /\ batch' \in Row /\ (batch' = NoRow \/ (batch'.val \in PreferenceValues /\ batch'.version > 0))
      /\ faults' \in 0..MaxFaults
  BY <1>1, <1>3 DEF TypeOK, Kinds
<1>10. batch'.saved <= batch'.at /\ batch'.at <= clock'
  BY <1>1, <1>3, <1>6, LaterTimes DEF Times
<1>11. QED  BY <1>3, <1>6, <1>7, <1>8, <1>9, <1>10, LegacySideInv

\* transform gives the row a version and a time, and keeps when it was saved.
LEMMA Transformed ==
    ASSUME Inv, legacy # NoRow, ReadLegacy
    PROVE  /\ batch' \in Row /\ batch'.val \in PreferenceValues /\ batch'.version > 0
           /\ batch'.saved <= batch'.at /\ batch'.at <= clock'
           /\ clock' \in {clock, clock + 1}
<1>1. TypeOK /\ Kinds /\ Times
  BY DEF Inv
<1>2. /\ legacy \in Row /\ legacy.version \in Nat /\ legacy.at \in Nat /\ legacy.saved \in Nat
      /\ clock \in Nat /\ legacy.saved <= clock /\ legacy.at \in {0, legacy.saved}
      /\ legacy.val \in PreferenceValues
  BY <1>1 DEF TypeOK, Row, Times, Kinds
<1> DEFINE v == IF legacy.version = 0 THEN 1 ELSE legacy.version
           a == IF legacy.at = 0 THEN clock + 1 ELSE legacy.at
<1>3. batch' = [legacy EXCEPT !.version = v, !.at = a]
  BY DEF ReadLegacy, Transform
<1>4. v \in Nat /\ v > 0 /\ a \in Nat /\ legacy.saved <= a
  BY <1>2
<1>5. ASSUME NEW w \in Nat, NEW b \in Nat
       PROVE  LET r == [legacy EXCEPT !.version = w, !.at = b]
              IN r \in Row /\ r.val = legacy.val /\ r.version = w /\ r.at = b /\ r.saved = legacy.saved
  BY <1>2 DEF Row
<1>6. /\ batch' \in Row /\ batch'.val = legacy.val /\ batch'.version = v /\ batch'.at = a
       /\ batch'.saved = legacy.saved
  <2> HIDE DEF v, a
  <2> QED BY <1>3, <1>4, <1>5
<1>7. CASE legacy.at # 0
  <2>1. clock' = clock
    BY <1>7 DEF ReadLegacy
  <2>2. QED  BY <1>2, <1>4, <1>6, <1>7, <2>1
<1>8. CASE legacy.at = 0
  <2>1. clock' = clock + 1
    BY <1>8 DEF ReadLegacy
  <2>2. QED  BY <1>2, <1>4, <1>6, <1>8, <2>1
<1>9. QED  BY <1>7, <1>8

\* The migration reads a legacy row.
LEMMA ReadLegacyInv ==
    ASSUME Inv, ReadLegacy
    PROVE  Inv'
<1>1. TypeOK /\ Kinds /\ Times
  BY DEF Inv
<1>2. UNCHANGED <<table, tx, req, seen, reborn, legacy, requests>> /\ legacy # NoRow
  BY DEF ReadLegacy
<1>3. faults' \in 0..MaxFaults /\ requests' \in 0..MaxRequests
  BY <1>1, <1>2, Constants DEF ReadLegacy, TypeOK
<1>4. /\ batch' \in Row /\ batch'.val \in PreferenceValues /\ batch'.version > 0
      /\ batch'.saved <= batch'.at /\ batch'.at <= clock'
      /\ clock' \in {clock, clock + 1}
  BY <1>2, Transformed
<1>5. clock \in Nat /\ clock <= clock' /\ clock' \in Nat
  BY <1>1, <1>4 DEF TypeOK
<1>6. /\ legacy' \in Row /\ (legacy' = NoRow \/ legacy'.val \in PreferenceValues)
      /\ legacy'.at \in {0, legacy'.saved}
  BY <1>1, <1>2 DEF TypeOK, Kinds, Times
<1>7. legacy'.saved <= clock'
  BY <1>1, <1>2, <1>5, LaterTimes DEF Times
<1>8. QED  BY <1>2, <1>3, <1>4, <1>6, <1>7, LegacySideInv

\* The upsert leaves the row of preferences, or puts the batch's in its place.
LEMMA Upserted ==
    ASSUME Inv, Upsert
    PROVE  /\ batch \in Row /\ batch.val \in PreferenceValues /\ table["prefs"] \in Row
           /\ \/ table' = table
              \/ /\ table' = [table EXCEPT !["prefs"] = batch]
                 /\ table["prefs"].version < batch.version
                 /\ table["prefs"] = NoRow \/ table["prefs"].at < batch.at
<1>1. TypeOK /\ Kinds
  BY DEF Inv
<1>2. /\ batch \in Row /\ batch.val \in PreferenceValues /\ table["prefs"] \in Row
      /\ batch.version > 0
  BY <1>1, Constants DEF TypeOK, Kinds, Upsert
<1>3. CASE table["prefs"] = NoRow \/ LegacyIsNewer
  <2>1. table' = [table EXCEPT !["prefs"] = batch]
    BY <1>3 DEF Upsert
  <2>2. table["prefs"].version < batch.version
    BY <1>2, <1>3, Nothing DEF LegacyIsNewer
  <2>3. QED  BY <1>2, <1>3, <2>1, <2>2 DEF LegacyIsNewer
<1>4. CASE ~(table["prefs"] = NoRow \/ LegacyIsNewer)
  <2>1. table' = [table EXCEPT !["prefs"] = table["prefs"]]
    BY <1>4 DEF Upsert
  <2>2. table' = table
    BY <1>1, <2>1, Constants DEF TypeOK
  <2>3. QED  BY <1>2, <2>2
<1>5. QED  BY <1>3, <1>4

\* The migration replaces the row of nobody's transaction, by a newer version.
LEMMA UpsertInv ==
    ASSUME Inv, Upsert
    PROVE  Inv'
<1>1. TypeOK /\ Kinds /\ Locks /\ Times /\ Written /\ Versions /\ Creates
      /\ ReplacesWhatWasSeen /\ UnsentFieldsStand /\ ModeLimit
  BY DEF Inv
<1>2. UNCHANGED <<tx, req, seen, reborn, legacy, clock, requests, faults>> /\ batch' = NoRow
  BY DEF Upsert
<1>3. \A t \in Tabs : tx[t].key # "prefs"
  BY DEF Upsert
<1>4. CASE table' = table
  <2>1. /\ batch' \in Row /\ batch'.saved <= batch'.at /\ batch'.at <= clock'
        /\ clock' \in {clock, clock + 1}
    BY <1>1, <1>2, Nothing DEF TypeOK
  <2>2. /\ legacy' \in Row /\ (legacy' = NoRow \/ legacy'.val \in PreferenceValues)
        /\ legacy'.saved <= clock' /\ legacy'.at \in {0, legacy'.saved}
        /\ requests' \in 0..MaxRequests /\ faults' \in 0..MaxFaults
    BY <1>1, <1>2 DEF TypeOK, Kinds, Times
  <2>3. QED  BY <1>2, <1>4, <2>1, <2>2, LegacySideInv
<1>5. CASE /\ table' = [table EXCEPT !["prefs"] = batch]
           /\ table["prefs"].version < batch.version
  <2>1. /\ batch \in Row /\ batch.val \in PreferenceValues /\ table["prefs"] \in Row
    BY Upserted
  <2>2. /\ table' \in [Keys -> Row] /\ table'["prefs"] = batch
        /\ \A k \in Keys : k # "prefs" => table'[k] = table[k]
    BY <1>1, <1>5, <2>1, Constants DEF TypeOK
  <2>3. TypeOK'
    BY <1>1, <1>2, <2>2, Nothing DEF TypeOK
  <2>4. Kinds'
    BY <1>1, <1>2, <2>1, <2>2, Constants DEF Kinds
  <2>5. Locks'
    <3>1. \A t \in Tabs : tx[t].key # "none" => table'[tx[t].key] = table[tx[t].key]
      BY <1>1, <1>3, <2>2 DEF TypeOK
    <3>2. QED  BY <1>1, <1>2, <3>1 DEF Locks
  <2>6. Times'
    <3>1. NoRow.at <= clock /\ NoRow.saved <= NoRow.at
      BY <1>1, Nothing DEF TypeOK
    <3>2. QED  BY <1>1, <1>2, <2>2, <3>1 DEF Times, Past
  <2>7. \A m \in Modes : table'[m] = table[m]
    BY <2>2, Constants
  <2>8. Written'
    BY <1>1, <1>2, <2>7 DEF Written, Active
  <2>9. Versions'
    <3>1. \A t \in Tabs : \A k \in Keys \ (reborn'[t] \cup {"prefs"}) : Follows(seen[t][k], k)'
      BY <1>1, <1>2, <2>2 DEF Versions, Follows
    <3>2. ASSUME NEW t \in Tabs, req[t].op = "patch", req[t].step \in {"check", "save"},
                 "prefs" \notin reborn[t]
          PROVE  Follows(req[t].base, "prefs")'
      <4>1. Follows(req[t].base, "prefs") /\ req[t].base \in Row
        BY <1>1, <3>2 DEF Versions, TypeOK, Request
      <4>2. req[t].base.version < batch.version
        BY <1>5, <2>1, <4>1 DEF Follows, Row
      <4>3. req[t].base.version \in Nat /\ batch.version \in Nat
        BY <2>1, <4>1 DEF Row
      <4>4. QED  BY <1>2, <2>2, <4>2, <4>3 DEF Follows
    <3>3. QED  BY <1>1, <1>2, <3>1, <3>2 DEF Versions
  <2>10. ActiveModes' = ActiveModes
    BY <2>7 DEF ActiveModes, Active
  <2>11. Creates' /\ ModeLimit'
    BY <1>1, <1>2, <2>10 DEF Creates, ModeLimit
  <2>12. ReplacesWhatWasSeen'
    <3>1. \A t \in Tabs : req[t].step = "commit" => table'[tx[t].key] = table[tx[t].key]
      BY <1>1, <1>3, <2>2 DEF Locks
    <3>2. QED  BY <1>1, <1>2, <3>1 DEF ReplacesWhatWasSeen
  <2>13. UnsentFieldsStand'
    BY <1>1, <1>2, <1>3 DEF UnsentFieldsStand, At, Written
  <2>14. QED  BY <2>3, <2>4, <2>5, <2>6, <2>8, <2>9, <2>11, <2>12, <2>13 DEF Inv
<1>6. QED  BY <1>4, <1>5, Upserted

-----------------------------------------------------------------------------
(* Together. *)

\* Every step keeps the invariant.
LEMMA NextInv == Inv /\ [Next]_vars => Inv'
<1> SUFFICES ASSUME Inv, [Next]_vars PROVE Inv'
  OBVIOUS
<1>1. CASE UNCHANGED vars
  <2>1. UNCHANGED <<table, tx, req, seen, reborn, legacy, batch, clock, requests, faults>>
    BY <1>1 DEF vars
  <2>2. ActiveModes' = ActiveModes
    BY <2>1 DEF ActiveModes, Active
  <2>3. TypeOK' /\ Kinds' /\ Times'
    BY <2>1 DEF Inv, TypeOK, Kinds, Times, Past
  <2>4. Locks' /\ Written' /\ Versions'
    BY <2>1 DEF Inv, Locks, Written, Versions, Follows, Active
  <2>5. Creates' /\ ModeLimit'
    BY <2>1, <2>2 DEF Inv, Creates, ModeLimit
  <2>6. ReplacesWhatWasSeen' /\ UnsentFieldsStand'
    BY <2>1 DEF Inv, ReplacesWhatWasSeen, UnsentFieldsStand, At, Preferences
  <2>7. QED  BY <2>3, <2>4, <2>5, <2>6 DEF Inv
<1>2. ASSUME NEW t \in Tabs, Step(t) PROVE Inv'
  BY <1>2, DocumentStepInv, PreferencesStepInv, ModesStepInv, CommitInv, RollbackInv
     DEF Step, SettingsStep
<1>3. ASSUME NEW t \in Tabs, NEW k \in Keys, Look(t, k) PROVE Inv'
  <2>1. req' = [req EXCEPT ![t] = Idle] /\ req[t].step # "commit"
    BY <1>3, Nothing DEF Look, Inv, TypeOK
  <2>2. Show(t, k, table[k]) /\ UNCHANGED <<table, tx, legacy, batch, clock, requests, faults>>
    BY <1>3 DEF Look
  <2>3. QED  BY <2>1, <2>2, ShowInv
<1>4. QED
  BY <1>1, <1>2, <1>3, DocumentRequestInv, SettingsRequestInv, LegacyEditInv, ReadLegacyInv,
     UpsertInv DEF Next

\* The invariant holds in every reachable state.
LEMMA InvHolds == Spec => []Inv
BY InitInv, NextInv, PTL DEF Spec

\* Rows, transactions, requests and what the tabs have seen keep their types.
THEOREM UserDataTypes == Spec => []TypeOK
<1>1. Inv => TypeOK
  BY DEF Inv
<1>2. QED  BY <1>1, InvHolds, PTL

\* Two writers of a note or of a source edit never silently overwrite each
\* other (notes_repository.py, source_edit_repository.py), whatever the number
\* of tabs, texts and requests: the version in the WHERE clause and the row
\* lock are enough.
THEOREM NoBlindOverwrite == Spec => []ReplacesWhatWasSeen
<1>1. Inv => ReplacesWhatWasSeen
  BY DEF Inv
<1>2. QED  BY <1>1, InvHolds, PTL

\* A PATCH of the preferences, merged into a row read in an earlier statement,
\* keeps every field it does not send (PreferencesService.update).
THEOREM PatchKeepsTheRest == Spec => []UnsentFieldsStand
<1>1. Inv => UnsentFieldsStand
  BY DEF Inv
<1>2. QED  BY <1>1, InvHolds, PTL

\* However many creates race, the user has at most MaxModes active modes
\* (CustomModeRepository.create and its advisory lock).
THEOREM LimitHoldsUnderRaces == Spec => []ModeLimit
<1>1. Inv => ModeLimit
  BY DEF Inv
<1>2. QED  BY <1>1, InvHolds, PTL

\* No step, and in particular no run of the migration, whatever was saved
\* between its read of a legacy row and its upsert, puts a row of the preferences
\* over one with a higher version or a later updated_at, nor values over values
\* that the user saved after them, but for a legacy row without updated_at
\* (preferences_to_postgres.py:58-104).
THEOREM NothingOlder == Spec => PreferencesMoveOn
<1> DEFINE old == table["prefs"]
           new == table'["prefs"]
           Later == (old # NoRow /\ new \notin {NoRow, old})
                       => /\ old.version < new.version /\ old.at < new.at
                          /\ old.saved < new.saved \/ new.at # new.saved
<1>1. ASSUME Inv, [Next]_vars PROVE [Later]_vars
  <2>1. /\ old \in Row /\ "prefs" \in Keys /\ old.saved \in Nat /\ old.at \in Nat
        /\ old.saved <= old.at
    BY <1>1, Constants DEF Inv, TypeOK, Row, Times, Past
  <2>2. \A r \in Row : old.at < r.at => old.saved < r.saved \/ r.at # r.saved
    BY <2>1 DEF Row
  <2>3. CASE UNCHANGED table
    BY <2>3
  <2>4. ASSUME NEW t \in Tabs, Commit(t) PROVE Later
    <3> DEFINE k == tx[t].key
    <3>1. /\ k \in Keys /\ table' = [table EXCEPT ![k] = tx[t].row] /\ tx[t].row \in Row
          /\ table \in [Keys -> Row]
      BY <1>1, <2>4 DEF Inv, Locks, Commit, TypeOK
    <3>2. CASE k = "prefs"
      <4>1. new = tx[t].row
        BY <2>1, <3>1, <3>2
      <4>2. tx[t].row # NoRow =>
               tx[t].row.version = old.version + 1 /\ old.at < tx[t].row.at
        BY <1>1, <3>2, Constants DEF Inv, Locks
      <4>3. old.version \in Nat
        BY <2>1 DEF Row
      <4>4. QED  BY <2>2, <3>1, <4>1, <4>2, <4>3
    <3>3. CASE k # "prefs"
      <4>1. new = old
        BY <2>1, <3>1, <3>3
      <4>2. QED  BY <4>1
    <3>4. QED  BY <3>2, <3>3
  <2>5. CASE Upsert
    <3>1. table \in [Keys -> Row]
      BY <1>1 DEF Inv, TypeOK
    <3>2. /\ batch \in Row
          /\ \/ new = old
             \/ /\ new = batch /\ old.version < batch.version
                /\ old = NoRow \/ old.at < batch.at
      BY <1>1, <2>1, <2>5, <3>1, Upserted
    <3>3. QED  BY <2>2, <3>2
  <2>6. \/ UNCHANGED table \/ Upsert \/ \E t \in Tabs : Commit(t)
    <3>1. ASSUME NEW t \in Tabs, DocumentRequest(t) \/ SettingsRequest(t) PROVE UNCHANGED table
      BY <3>1 DEF DocumentRequest, SettingsRequest, PutText, Discard, Patch, Reset, CreateMode,
                  EditMode, ArchiveMode, Begin
    <3>2. ASSUME NEW t \in Tabs, DocumentStep(t) PROVE UNCHANGED table
      BY <3>2 DEF DocumentStep, SaveText, DeleteEdit, Current
    <3>3. ASSUME NEW t \in Tabs, SettingsStep(t) PROVE UNCHANGED table
      BY <3>3 DEF SettingsStep, Load, CheckMode, SavePreferences, DeletePreferences, LockModes,
                  CountModes, InsertMode, UpdateMode, GetMode, Archive
    <3>4. ASSUME NEW t \in Tabs, Rollback(t) PROVE UNCHANGED table
      BY <3>4 DEF Rollback
    <3>5. ASSUME NEW t \in Tabs, NEW k \in Keys, Look(t, k) PROVE UNCHANGED table
      BY <3>5 DEF Look
    <3>6. LegacyEdit \/ ReadLegacy => UNCHANGED table
      BY DEF LegacyEdit, ReadLegacy
    <3> QED BY <1>1, <3>1, <3>2, <3>3, <3>4, <3>5, <3>6 DEF Next, Step, vars
  <2>7. QED  BY <2>3, <2>4, <2>5, <2>6
<1>2. QED  BY <1>1, InvHolds, PTL DEF Spec, PreferencesMoveOn
=============================================================================
