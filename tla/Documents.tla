------------------------------ MODULE Documents -----------------------------
(***************************************************************************)
(* Notes of a conversation, and edited copies of source blocks: whole      *)
(* texts, saved with the version the tab saw last.                         *)
(***************************************************************************)
EXTENDS Session

TextOf(x) == [f \in {"text"} |-> x]
Edited == {b \in Blocks : table[b] # NoRow}

\* put_notes, put_source_edit.
PutText(t) ==
    \E k \in {"note"} \cup Blocks, x \in Texts :
        Begin(t, [Idle EXCEPT !.op = "put", !.key = k, !.step = "save",
                              !.ver = seen[t][k].version, !.val = TextOf(x)])

\* delete_source_edit; the version is at least 1.
Discard(t) ==
    \E b \in Blocks :
        /\ seen[t][b] # NoRow
        /\ Begin(t, [Idle EXCEPT !.op = "discard", !.key = b, !.step = "save",
                                 !.ver = seen[t][b].version])

\* The save writes: an INSERT where there is no row and, for an edit, room
\* for one; an UPDATE of this version with another text.
Saves(k, ver, val) ==
    IF ver = 0 THEN table[k] = NoRow /\ (k \in Blocks => Cardinality(Edited) < MaxEdits)
               ELSE Matches(k, ver) /\ table[k].val # val

\* An INSERT waits for whoever writes the key; an UPDATE or a DELETE only if
\* the row it sees is the one it wants.
SaveText(t) ==
    LET r == req[t] IN
    /\ At(t, "put", "save")
    /\ \/ /\ Saves(r.key, r.ver, r.val)
          /\ ~Locked(t, r.key)
          /\ Write(t, r.key, r.val)
          /\ Goto(t, "commit")
       \/ /\ ~Saves(r.key, r.ver, r.val)
          /\ r.ver = 0 => ~Locked(t, r.key)
          /\ Goto(t, "current")
          /\ UNCHANGED <<tx, clock>>
    /\ UNCHANGED <<table, seen, reborn, legacy, batch, requests, faults>>

DeleteEdit(t) ==
    LET r == req[t] IN
    /\ At(t, "discard", "save")
    /\ \/ /\ Matches(r.key, r.ver)
          /\ ~Locked(t, r.key)
          /\ Delete(t, r.key)
          /\ Goto(t, "commit")
       \/ /\ ~Matches(r.key, r.ver)
          /\ Goto(t, "current")
          /\ UNCHANGED <<tx, clock>>
    /\ UNCHANGED <<table, seen, reborn, legacy, batch, requests, faults>>

\* Nothing was written: the row is read again.  The same text is a success, any
\* other a 409 that carries it; no row is the limit, or an edit discarded
\* elsewhere.
Current(t) ==
    /\ req[t].step = "current"
    /\ Show(t, req[t].key, table[req[t].key])
    /\ Answer(t)
    /\ UNCHANGED <<table, tx, legacy, batch, clock, requests, faults>>

DocumentRequest(t) == PutText(t) \/ Discard(t)
DocumentStep(t) == SaveText(t) \/ DeleteEdit(t) \/ Current(t)
=============================================================================
