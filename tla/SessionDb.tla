------------------------------ MODULE SessionDb ------------------------------
(***************************************************************************)
(* SessionDatabase of chatvcode-llm: sessions and their messages in two    *)
(* tables of SQLite.  Every statement is a transaction of its own, and a   *)
(* save is several of them: another connection may run between two, and    *)
(* each may fail or be the last one before the process dies.               *)
(*                                                                         *)
(* SQLite is external: the bundled build enforces foreign keys, also when  *)
(* INSERT OR REPLACE deletes the old row.  A save is known by its number,  *)
(* which is also its time; a message by its save and its position.         *)
(***************************************************************************)
EXTENDS Integers, FiniteSets

CONSTANTS
  Connections,   \* processes that have opened the database
  SessionIds,    \* identifiers of sessions; uuid_like_id never repeats one
  MaxSaves,      \* bound on the saves of a behaviour
  MaxLength      \* bound on the messages of a session

ASSUME DbAssumption == MaxSaves \in Nat /\ MaxLength \in Nat

VARIABLES
  sessions,    \* table sessions: a row, or NoRow, for every id
  messages,    \* table messages
  held,        \* the id of the session that a connection has in memory
  saving,      \* the save that a connection is in
  saves,       \* number of saves begun
  returned,    \* the saves that returned Ok (history)
  disturbed    \* the sessions that two saves wrote at once (history)

dbVars == <<sessions, messages, held, saving, saves, returned, disturbed>>

----------------------------------------------------------------------------
NoRow == [created_at |-> 0, updated_at |-> 0, message_count |-> 0]
NoSave == [next |-> "none", id |-> "none", save |-> 0, length |-> 0, position |-> 0]
Saved == {id \in SessionIds : sessions[id] # NoRow}
Of(id) == {message \in messages : message.id = id}
Message(id, save, position) == [id |-> id, save |-> save, position |-> position]
Unused == {id \in SessionIds : /\ sessions[id] = NoRow
                               /\ \A c \in Connections : id \notin {held[c], saving[c].id}}

\* Mutant of Cascade: the messages of a deleted session stay.
CascadeNothing(ids) == messages

\* FOREIGN KEY (session_id) ... ON DELETE CASCADE
Cascade(ids) == {message \in messages : message.id \notin ids}

\* Mutant of Row: a replaced session counts as created anew.
RowCreatedNow(save) ==
  [created_at |-> save.save, updated_at |-> save.save, message_count |-> save.length]

\* The values of INSERT OR REPLACE.
Row(save) ==
  [created_at |-> IF save.id \in Saved THEN sessions[save.id].created_at ELSE save.save,
   updated_at |-> save.save, message_count |-> save.length]

DbInit ==
  /\ sessions = [id \in SessionIds |-> NoRow]
  /\ messages = {}
  /\ \E ids \in [Connections -> SessionIds] :
       /\ \A c, d \in Connections : c # d => ids[c] # ids[d]
       /\ held = ids
  /\ saving = [c \in Connections |-> NoSave]
  /\ saves = 0
  /\ returned = {}
  /\ disturbed = {}

\* save_session of what the session has become.
BeginSave(c, length) ==
  /\ saving[c] = NoSave
  /\ saves < MaxSaves
  /\ saves' = saves + 1
  /\ saving' = [saving EXCEPT ![c] = [next |-> "row", id |-> held[c], save |-> saves + 1,
                                      length |-> length, position |-> 0]]
  /\ UNCHANGED <<sessions, messages, held, returned, disturbed>>

\* INSERT OR REPLACE INTO sessions
ReplaceRow(c) ==
  LET save == saving[c] IN
  /\ save.next = "row"
  /\ sessions' = [sessions EXCEPT ![save.id] = Row(save)]
  /\ messages' = IF save.id \in Saved THEN Cascade({save.id}) ELSE messages
  /\ saving' = [saving EXCEPT ![c].next = "delete"]
  /\ disturbed' = IF \E d \in Connections \ {c} : saving[d].id = save.id /\ saving[d].next # "row"
                  THEN disturbed \cup {save.id} ELSE disturbed \ {save.id}
  /\ UNCHANGED <<held, saves, returned>>

\* DELETE FROM messages
DeleteOld(c) ==
  LET save == saving[c] IN
  /\ save.next = "delete"
  /\ messages' = messages \ Of(save.id)
  /\ saving' = [saving EXCEPT ![c].next = "insert"]
  /\ UNCHANGED <<sessions, held, saves, returned, disturbed>>

\* Mutant of InsertMessage: the positions begin at one.
InsertMessageFromOne(c) ==
  LET save == saving[c] IN
  /\ save.next = "insert"
  /\ save.position < save.length
  /\ save.id \in Saved
  /\ messages' = messages \cup {Message(save.id, save.save, save.position + 1)}
  /\ saving' = [saving EXCEPT ![c].position = @ + 1]
  /\ UNCHANGED <<sessions, held, saves, returned, disturbed>>

\* INSERT INTO messages, of a session that has its row.
InsertMessage(c) ==
  LET save == saving[c] IN
  /\ save.next = "insert"
  /\ save.position < save.length
  /\ save.id \in Saved
  /\ messages' = messages \cup {Message(save.id, save.save, save.position)}
  /\ saving' = [saving EXCEPT ![c].position = @ + 1]
  /\ UNCHANGED <<sessions, held, saves, returned, disturbed>>

\* Mutant of EndSave: the last message is forgotten.
EndSaveEarly(c) ==
  LET save == saving[c] IN
  /\ save.next = "insert"
  /\ save.position + 1 >= save.length
  /\ saving' = [saving EXCEPT ![c] = NoSave]
  /\ returned' = returned \cup {save.save}
  /\ UNCHANGED <<sessions, messages, held, saves, disturbed>>

EndSave(c) ==
  LET save == saving[c] IN
  /\ save.next = "insert"
  /\ save.position = save.length
  /\ saving' = [saving EXCEPT ![c] = NoSave]
  /\ returned' = returned \cup {save.save}
  /\ UNCHANGED <<sessions, messages, held, saves, disturbed>>

\* A statement fails (the database is busy, the disk is full, the session has
\* been deleted), or the process ends: what was written before stays.
AbandonSave(c) ==
  /\ saving[c] # NoSave
  /\ saving' = [saving EXCEPT ![c] = NoSave]
  /\ UNCHANGED <<sessions, messages, held, saves, returned, disturbed>>

\* load_session makes a session of the messages found, with an id of its own.
LoadSession(c, id) ==
  /\ saving[c] = NoSave
  /\ id \in Saved
  /\ \E new \in Unused : held' = [held EXCEPT ![c] = new]
  /\ UNCHANGED <<sessions, messages, saving, saves, returned, disturbed>>

\* A session restored from a file of /save keeps its id, as does any number of
\* copies of it.
RestoreSession(c, id) ==
  /\ saving[c] = NoSave
  /\ id \in Saved
  /\ held' = [held EXCEPT ![c] = id]
  /\ UNCHANGED <<sessions, messages, saving, saves, returned, disturbed>>

\* delete_session, and clear_all.
DeleteSessions(ids) ==
  /\ sessions' = [id \in SessionIds |-> IF id \in ids THEN NoRow ELSE sessions[id]]
  /\ messages' = Cascade(ids)
  /\ UNCHANGED <<held, saving, saves, returned, disturbed>>

DbNext ==
  \/ \E c \in Connections :
       \/ \E length \in 0..MaxLength : BeginSave(c, length)
       \/ ReplaceRow(c)
       \/ DeleteOld(c)
       \/ InsertMessage(c)
       \/ EndSave(c)
       \/ AbandonSave(c)
       \/ \E id \in SessionIds : LoadSession(c, id) \/ RestoreSession(c, id)
  \/ \E id \in Saved : DeleteSessions({id})
  \/ Saved # {} /\ DeleteSessions(SessionIds)

----------------------------------------------------------------------------
(* Properties *)

\* The messages of a session come from the save that wrote its row, in their
\* order and without a gap, wherever that save or an earlier one ended: a
\* session that is loaded is the beginning of one that was saved.
LoadsABeginning ==
  \A id \in Saved \ disturbed :
    /\ \A message \in Of(id) : message.save = sessions[id].updated_at
    /\ {message.position : message \in Of(id)} = 0..Cardinality(Of(id)) - 1

\* A save that returned Ok is loaded in full, until another save or a delete.
ReturnedIsWhole ==
  \A id \in Saved \ disturbed :
    sessions[id].updated_at \in returned => Cardinality(Of(id)) = sessions[id].message_count

\* No message is without its session, however saves and deletes interleave.
NoOrphans == \A message \in messages : message.id \in Saved

\* A session that is there keeps its time of creation.
CreatedOnce ==
  \A id \in Saved : sessions'[id] # NoRow => sessions'[id].created_at = sessions[id].created_at

\* "Number of messages in the session", of a session that nobody is saving.
CountsItsMessages ==
  \A id \in Saved : (\A c \in Connections : saving[c].id # id) =>
    Cardinality(Of(id)) = sessions[id].message_count
=============================================================================
