------------------------ MODULE MCPersistence_proofs ------------------------
(***************************************************************************)
(* Proofs about SessionDb and ModelFiles, for every number of processes,   *)
(* of sessions and of messages in them, and of blocks of a file.           *)
(***************************************************************************)
EXTENDS MCPersistence, DataLemmas

----------------------------------------------------------------------------
(* The session database *)

SaveType == [next : {"row", "delete", "insert"}, id : SessionIds, save : Nat,
             length : Nat, position : Nat]

DbTypes ==
  /\ sessions \in [SessionIds -> [created_at : Nat, updated_at : Nat, message_count : Nat]]
  /\ messages \subseteq [id : SessionIds, save : Nat, position : Nat]
  /\ held \in [Connections -> SessionIds]
  /\ saving \in [Connections -> {NoSave} \cup SaveType]
  /\ saves \in Nat

\* A connection that is in a save, and one that has replaced the row already.
Active(c) == saving[c].next # "none"
Writes(c, id) == saving[c].next \in {"delete", "insert"} /\ saving[c].id = id

\* The number of a save is that of no other one, and only the row that it wrote
\* has it; it is not among those that returned until it does.
SavesAreNumbered ==
  /\ returned \subseteq 1..saves
  /\ \A id \in SessionIds : sessions[id].updated_at <= saves
  /\ \A c \in Connections : Active(c) =>
       /\ saving[c].save \in 1..saves
       /\ saving[c].save \notin returned
       /\ saving[c].next # "insert" => saving[c].position = 0
       /\ \A d \in Connections \ {c} : Active(d) => saving[d].save # saving[c].save
       /\ \A id \in SessionIds :
            sessions[id].updated_at = saving[c].save => Writes(c, id)

\* A session that two saves did not write at once has one writer at a time.
OneWriter ==
  \A id \in SessionIds \ disturbed : \A c, d \in Connections :
    Writes(c, id) /\ Writes(d, id) => c = d

\* The first n messages of the save that wrote the row of a session.
Beginning(id, n) == {Message(id, sessions[id].updated_at, p) : p \in 0..n - 1}

\* What such a session has while it is written, and what it has at any time.
WriterIsAt(id) ==
  \A c \in Connections : Writes(c, id) =>
    /\ saving[c].save = sessions[id].updated_at
    /\ saving[c].length = sessions[id].message_count
    /\ Of(id) = Beginning(id, saving[c].position)

StoredIsBeginning(id) ==
  \E n \in Nat :
    /\ Of(id) = Beginning(id, n)
    /\ sessions[id].updated_at \in returned => n = sessions[id].message_count

\* The inductive invariant. What is loaded is whole because of what a save that
\* is under way has written so far, and because no other has its number.
DbInv ==
  /\ DbTypes
  /\ SavesAreNumbered
  /\ OneWriter
  /\ NoOrphans
  /\ \A id \in Saved \ disturbed : WriterIsAt(id) /\ StoredIsBeginning(id)

\* A beginning is as long as it says.
LEMMA BeginningFacts ==
  ASSUME NEW id, NEW n \in Nat
  PROVE  /\ Cardinality(Beginning(id, n)) = n
         /\ {message.position : message \in Beginning(id, n)} = 0..n - 1
         /\ \A message \in Beginning(id, n) : message.save = sessions[id].updated_at
<1> DEFINE f == [p \in 0..n - 1 |-> Message(id, sessions[id].updated_at, p)]
           B == Beginning(id, n)
<1>1. \A p : Message(id, sessions[id].updated_at, p).position = p
  BY DEF Message
<1>2. f \in Bijection(0..n - 1, B)
  <2>1. f \in [0..n - 1 -> B]
    BY DEF Beginning
  <2>2. DOMAIN f = 0..n - 1 /\ \A p, q \in 0..n - 1 : f[p] = f[q] => p = q
    BY <1>1
  <2>3. \A message \in B : \E p \in 0..n - 1 : f[p] = message
    BY DEF Beginning
  <2> HIDE DEF f, B
  <2> QED
    BY <2>1, <2>2, <2>3 DEF Bijection, Injection, Surjection, IsInjective
<1>3. IsFiniteSet(0..n - 1) /\ Cardinality(0..n - 1) = n
  <2>1. 0 \in Int /\ n - 1 \in Int
    OBVIOUS
  <2>2. /\ IsFiniteSet(0..n - 1)
        /\ Cardinality(0..n - 1) = IF 0 > n - 1 THEN 0 ELSE n - 1 - 0 + 1
    BY <2>1, FS_Interval
  <2> QED
    BY <2>2
<1>4. Cardinality(B) = n
  <2>1. ExistsBijection(0..n - 1, B)
    BY <1>2 DEF ExistsBijection
  <2> QED
    BY <1>3, <2>1, FS_Bijection
<1>5. {message.position : message \in B} = 0..n - 1
  BY <1>1 DEF Beginning
<1>6. \A message \in B : message.save = sessions[id].updated_at
  BY DEF Beginning, Message
<1> QED
  BY <1>4, <1>5, <1>6

\* The invariant says what is loaded.
LEMMA DbInvIsWhole == DbInv => LoadsABeginning /\ ReturnedIsWhole /\ NoOrphans
<1> SUFFICES ASSUME DbInv PROVE LoadsABeginning /\ ReturnedIsWhole
  BY DEF DbInv
<1> SUFFICES ASSUME NEW id \in Saved \ disturbed
             PROVE  /\ \A message \in Of(id) : message.save = sessions[id].updated_at
                    /\ {message.position : message \in Of(id)} = 0..Cardinality(Of(id)) - 1
                    /\ sessions[id].updated_at \in returned =>
                         Cardinality(Of(id)) = sessions[id].message_count
  BY DEF LoadsABeginning, ReturnedIsWhole
<1>1. PICK n \in Nat : /\ Of(id) = Beginning(id, n)
                       /\ sessions[id].updated_at \in returned => n = sessions[id].message_count
  BY DEF DbInv, StoredIsBeginning
<1> QED
  BY <1>1, BeginningFacts
\* The connections other than one, and the sessions other than one, keep what is
\* said of them as long as their saves, rows and messages stay.
LEMMA RestKept ==
  ASSUME NEW id \in SessionIds, WriterIsAt(id), StoredIsBeginning(id),
         sessions'[id] = sessions[id],
         Of(id)' = Of(id),
         sessions[id].updated_at \in returned' => sessions[id].updated_at \in returned,
         \A c \in Connections :
           Writes(c, id)' => /\ Writes(c, id)
                             /\ saving'[c].save = saving[c].save
                             /\ saving'[c].length = saving[c].length
                             /\ saving'[c].position = saving[c].position
  PROVE  WriterIsAt(id)' /\ StoredIsBeginning(id)'
<1>1. \A n : Beginning(id, n)' = Beginning(id, n)
  BY DEF Beginning, Message
<1>2. WriterIsAt(id)'
  BY <1>1 DEF WriterIsAt
<1>3. StoredIsBeginning(id)'
  BY <1>1 DEF StoredIsBeginning
<1> QED
  BY <1>2, <1>3

LEMMA DbInvInit == DbInit => DbInv
<1> SUFFICES ASSUME DbInit PROVE DbInv
  OBVIOUS
<1>1. /\ sessions = [id \in SessionIds |-> NoRow]
      /\ messages = {} /\ saves = 0 /\ returned = {} /\ disturbed = {}
      /\ held \in [Connections -> SessionIds]
      /\ saving = [c \in Connections |-> NoSave]
  BY DEF DbInit
<1>2. DbTypes
  BY <1>1 DEF DbTypes, NoRow
<1>3. \A c \in Connections : ~Active(c) /\ \A id : ~Writes(c, id)
  BY <1>1 DEF Active, Writes, NoSave
<1>4. SavesAreNumbered
  BY <1>1, <1>3 DEF SavesAreNumbered, NoRow
<1>5. Saved = {}
  BY <1>1 DEF Saved
<1> QED
  BY <1>1, <1>2, <1>3, <1>4, <1>5 DEF DbInv, OneWriter, NoOrphans

\* A save begins: it has a new number, and has written nothing.
LEMMA BeginSaveKeeps ==
  ASSUME DbInv, NEW c \in Connections, NEW length \in 0..MaxLength, BeginSave(c, length)
  PROVE  DbInv'
<1> DEFINE new == [next |-> "row", id |-> held[c], save |-> saves + 1,
                   length |-> length, position |-> 0]
<1>1. /\ saves' = saves + 1
      /\ saving' = [saving EXCEPT ![c] = new]
      /\ saving[c] = NoSave
      /\ UNCHANGED <<sessions, messages, held, returned, disturbed>>
  BY DEF BeginSave
<1>2. DbTypes
  BY DEF DbInv
<1>3. new \in SaveType /\ length \in Nat
  BY <1>2, DbAssumption DEF SaveType, DbTypes
<1>4. /\ saving'[c] = new
      /\ \A d \in Connections \ {c} : saving'[d] = saving[d]
  BY <1>1, <1>2 DEF DbTypes
<1>5. DbTypes'
  BY <1>1, <1>2, <1>3 DEF DbTypes
<1>6. \A d \in Connections : \A id : Writes(d, id)' => d # c /\ Writes(d, id)
  BY <1>4 DEF Writes
<1>7. SavesAreNumbered'
  <2>1. returned' \subseteq 1..saves'
    BY <1>1, <1>2 DEF DbInv, SavesAreNumbered, DbTypes
  <2>2. \A id \in SessionIds : sessions'[id].updated_at <= saves' /\ sessions'[id].updated_at # saves'
    BY <1>1, <1>2 DEF DbInv, SavesAreNumbered, DbTypes
  <2>3. saving'[c].save = saves' /\ saves' \in 1..saves' /\ saves' \notin returned'
    BY <1>1, <1>2, <1>4 DEF DbInv, SavesAreNumbered, DbTypes
  <2>4. \A d \in Connections \ {c} : Active(d)' => /\ Active(d)
                                                  /\ saving'[d] = saving[d]
                                                  /\ saving[d].save \in 1..saves
                                                  /\ saving[d].save # saves'
    BY <1>1, <1>2, <1>4 DEF DbInv, SavesAreNumbered, DbTypes, Active
  <2>5. \A d \in Connections \ {c} : \A id : Writes(d, id) => Writes(d, id)'
    BY <1>4 DEF Writes
  <2>6. ASSUME NEW d \in Connections, Active(d)'
        PROVE  /\ saving'[d].save \in 1..saves'
               /\ saving'[d].save \notin returned'
               /\ saving'[d].next # "insert" => saving'[d].position = 0
               /\ \A e \in Connections \ {d} : Active(e)' => saving'[e].save # saving'[d].save
               /\ \A id \in SessionIds :
                    sessions'[id].updated_at = saving'[d].save => Writes(d, id)'
    <3>1. CASE d = c
      BY <1>4, <2>2, <2>3, <2>4, <3>1
    <3>2. CASE d # c
      <4>1. Active(d) /\ saving'[d] = saving[d] /\ saving[d].save \in 1..saves
        BY <2>4, <2>6, <3>2
      <4>2. saving'[d].save \in 1..saves' /\ saving'[d].save # saves'
        BY <1>1, <1>2, <4>1 DEF DbTypes
      <4>3. \A e \in Connections \ {d} : Active(e)' => saving'[e].save # saving'[d].save
        BY <2>3, <2>4, <4>1, <4>2 DEF DbInv, SavesAreNumbered
      <4> QED
        BY <1>1, <2>5, <3>2, <4>1, <4>2, <4>3 DEF DbInv, SavesAreNumbered
    <3> QED
      BY <3>1, <3>2
  <2> QED
    BY <2>1, <2>2, <2>6 DEF SavesAreNumbered
<1>8. OneWriter' /\ NoOrphans'
  BY <1>1, <1>6 DEF DbInv, OneWriter, NoOrphans, Saved
<1>9. ASSUME NEW id \in Saved' \ disturbed'
      PROVE  WriterIsAt(id)' /\ StoredIsBeginning(id)'
  <2>1. id \in SessionIds /\ WriterIsAt(id) /\ StoredIsBeginning(id)
    BY <1>1 DEF DbInv, Saved
  <2>2. Of(id)' = Of(id)
    BY <1>1 DEF Of
  <2>3. \A d \in Connections : Writes(d, id)' => Writes(d, id) /\ saving'[d] = saving[d]
    BY <1>4, <1>6
  <2> QED
    BY <1>1, <2>1, <2>2, <2>3, RestKept
<1> QED
  BY <1>5, <1>7, <1>8, <1>9 DEF DbInv

\* The row is replaced: the session has no message, and this save is its writer.
LEMMA ReplaceRowKeeps ==
  ASSUME DbInv, NEW c \in Connections, ReplaceRow(c)
  PROVE  DbInv'
<1> DEFINE save == saving[c]
           row == Row(save)
           over == \E d \in Connections \ {c} : saving[d].id = save.id /\ saving[d].next # "row"
<1>1. /\ save.next = "row"
      /\ sessions' = [sessions EXCEPT ![save.id] = row]
      /\ messages' = IF save.id \in Saved THEN Cascade({save.id}) ELSE messages
      /\ saving' = [saving EXCEPT ![c].next = "delete"]
      /\ disturbed' = IF over THEN disturbed \cup {save.id} ELSE disturbed \ {save.id}
      /\ UNCHANGED <<held, saves, returned>>
  BY DEF ReplaceRow
<1>2. DbTypes
  BY DEF DbInv
<1>3. save \in SaveType /\ save.id \in SessionIds
  BY <1>1, <1>2 DEF DbTypes, SaveType, NoSave
<1>4. /\ row.updated_at = save.save
      /\ row.message_count = save.length
      /\ row \in [created_at : Nat, updated_at : Nat, message_count : Nat]
  BY <1>2, <1>3 DEF Row, DbTypes, SaveType
<1>5. /\ saving'[c] = [save EXCEPT !.next = "delete"]
      /\ saving'[c] \in SaveType
      /\ saving'[c].next = "delete" /\ saving'[c].id = save.id /\ saving'[c].save = save.save
      /\ saving'[c].length = save.length /\ saving'[c].position = save.position
      /\ \A d \in Connections \ {c} : saving'[d] = saving[d]
  BY <1>1, <1>2, <1>3 DEF DbTypes, SaveType
<1>6. /\ sessions'[save.id] = row
      /\ \A id \in SessionIds \ {save.id} : sessions'[id] = sessions[id]
  BY <1>1, <1>2, <1>3 DEF DbTypes
<1>7. /\ messages' \subseteq messages
      /\ \A id : Of(id)' = IF id = save.id THEN {} ELSE Of(id)
  <2>1. CASE save.id \in Saved
    BY <1>1, <2>1 DEF Cascade, Of
  <2>2. CASE save.id \notin Saved
    BY <1>1, <2>2 DEF Of, DbInv, NoOrphans
  <2> QED
    BY <2>1, <2>2
<1>8. /\ save.save \in 1..saves /\ save.save \notin returned /\ save.position = 0
      /\ \A d \in Connections \ {c} : Active(d) => saving[d].save # save.save
  BY <1>1 DEF DbInv, SavesAreNumbered, Active
<1>9. DbTypes'
  <2>1. sessions' \in [SessionIds -> [created_at : Nat, updated_at : Nat, message_count : Nat]]
    BY <1>1, <1>2, <1>4 DEF DbTypes
  <2>2. saving' \in [Connections -> {NoSave} \cup SaveType]
    BY <1>1, <1>2, <1>5 DEF DbTypes
  <2> QED
    BY <1>1, <1>2, <1>7, <2>1, <2>2 DEF DbTypes
<1> HIDE DEF row, over
<1>10. \A d \in Connections : \A id :
         Writes(d, id)' <=> IF d = c THEN id = save.id ELSE Writes(d, id)
  BY <1>5 DEF Writes
<1>11. SavesAreNumbered'
  <2>1. ASSUME NEW d \in Connections, Active(d)', NEW id \in SessionIds,
               sessions'[id].updated_at = saving'[d].save
        PROVE  Writes(d, id)'
    <3>1. CASE d = c
      <4>1. CASE id = save.id
        BY <1>10, <3>1, <4>1
      <4>2. CASE id # save.id
        <5>1. sessions[id].updated_at = save.save
          BY <1>5, <1>6, <2>1, <3>1, <4>2
        <5>2. Writes(c, id)
          BY <1>1, <5>1 DEF DbInv, SavesAreNumbered, Active
        <5> QED
          BY <1>1, <5>2 DEF Writes
      <4> QED
        BY <4>1, <4>2
    <3>2. CASE d # c
      <4>1. Active(d) /\ saving'[d] = saving[d]
        BY <1>5, <2>1, <3>2 DEF Active
      <4>2. id # save.id
        BY <1>4, <1>6, <1>8, <2>1, <3>2, <4>1
      <4> QED
        BY <1>6, <1>10, <2>1, <3>2, <4>1, <4>2 DEF DbInv, SavesAreNumbered
    <3> QED
      BY <3>1, <3>2
  <2>2. \A id \in SessionIds : sessions'[id].updated_at <= saves
    BY <1>4, <1>6, <1>8, <1>2 DEF DbInv, SavesAreNumbered, DbTypes
  <2>3. ASSUME NEW d \in Connections, Active(d)'
        PROVE  /\ Active(d)
               /\ saving'[d].save = saving[d].save
               /\ saving'[d].next # "insert" => saving'[d].position = 0
    BY <1>1, <1>5, <1>8, <2>3 DEF DbInv, SavesAreNumbered, Active
  <2> QED
    BY <1>1, <2>1, <2>2, <2>3 DEF DbInv, SavesAreNumbered
<1>12. ASSUME NEW id \in SessionIds \ disturbed', NEW d \in Connections, NEW e \in Connections,
              Writes(d, id)', Writes(e, id)'
       PROVE  d = e
  <2>1. CASE id = save.id
    <3>1. ~over
      BY <1>1, <1>12, <2>1
    <3>2. \A k \in Connections \ {c} : ~Writes(k, id)
      BY <2>1, <3>1 DEF over, Writes
    <3> QED
      BY <1>10, <1>12, <3>2
  <2>2. CASE id # save.id
    BY <1>1, <1>10, <1>12, <2>2 DEF DbInv, OneWriter
  <2> QED
    BY <2>1, <2>2
<1>13. NoOrphans'
  <2>1. Saved \subseteq Saved'
    BY <1>2, <1>4, <1>6, <1>8 DEF Saved, NoRow, DbTypes
  <2> QED
    BY <1>7, <2>1 DEF DbInv, NoOrphans
<1>14. ASSUME NEW id \in Saved' \ disturbed'
       PROVE  WriterIsAt(id)' /\ StoredIsBeginning(id)'
  <2>1. CASE id = save.id
    <3>1. Beginning(id, 0)' = {}
      BY DEF Beginning
    <3>2. WriterIsAt(id)'
      <4>1. ASSUME NEW d \in Connections, Writes(d, id)' PROVE d = c
        BY <1>1, <1>3, <1>10, <1>12, <1>14, <2>1, <4>1
      <4> QED
        BY <1>4, <1>5, <1>6, <1>7, <1>8, <2>1, <3>1, <4>1 DEF WriterIsAt
    <3>3. StoredIsBeginning(id)'
      <4>1. Of(id)' = Beginning(id, 0)' /\ 0 \in Nat
        BY <1>7, <2>1, <3>1
      <4>2. sessions'[id].updated_at \notin returned'
        BY <1>1, <1>4, <1>6, <1>8, <2>1
      <4> QED
        BY <4>1, <4>2 DEF StoredIsBeginning
    <3> QED
      BY <3>2, <3>3
  <2>2. CASE id # save.id
    <3>1. id \in SessionIds /\ sessions'[id] = sessions[id]
      BY <1>6, <2>2 DEF Saved
    <3>2. WriterIsAt(id) /\ StoredIsBeginning(id)
      BY <1>1, <2>2, <3>1 DEF DbInv, Saved
    <3>3. \A d \in Connections : Writes(d, id)' => Writes(d, id) /\ saving'[d] = saving[d]
      BY <1>5, <1>10, <2>2
    <3> QED
      BY <1>1, <1>7, <2>2, <3>1, <3>2, <3>3, RestKept
  <2> QED
    BY <2>1, <2>2
<1> QED
  BY <1>9, <1>11, <1>12, <1>13, <1>14 DEF DbInv, OneWriter

\* A writer that goes on stays the one it is.
LEMMA WriterGoesOn ==
  ASSUME DbInv, NEW c \in Connections, NEW new \in SaveType,
         saving[c].next \in {"delete", "insert"},
         saving' = [saving EXCEPT ![c] = new],
         new.next = "insert", new.id = saving[c].id, new.save = saving[c].save,
         UNCHANGED <<sessions, held, saves, returned, disturbed>>
  PROVE  /\ saving' \in [Connections -> {NoSave} \cup SaveType]
         /\ SavesAreNumbered' /\ OneWriter'
         /\ \A d \in Connections : \A id : Writes(d, id)' <=> Writes(d, id)
         /\ saving'[c] = new
         /\ \A d \in Connections \ {c} : saving'[d] = saving[d]
<1>1. /\ saving' \in [Connections -> {NoSave} \cup SaveType]
      /\ saving'[c] = new
      /\ \A d \in Connections \ {c} : saving'[d] = saving[d]
  BY DEF DbInv, DbTypes
<1>2. \A d \in Connections : \A id : Writes(d, id)' <=> Writes(d, id)
  BY <1>1 DEF Writes
<1>3. ASSUME NEW d \in Connections, Active(d)'
      PROVE  /\ Active(d) /\ saving'[d].save = saving[d].save
             /\ saving'[d].next # "insert" => saving'[d].position = 0
  BY <1>1, <1>3 DEF Active, DbInv, SavesAreNumbered
<1>4. SavesAreNumbered'
  BY <1>2, <1>3 DEF DbInv, SavesAreNumbered
<1>5. OneWriter'
  BY <1>2 DEF DbInv, OneWriter
<1> QED
  BY <1>1, <1>2, <1>4, <1>5

\* A save that is over, whether it returned or not, takes its number with it.
LEMMA SaveOver ==
  ASSUME DbInv, NEW c \in Connections, Active(c),
         saving' = [saving EXCEPT ![c] = NoSave],
         returned' = returned \/ returned' = returned \cup {saving[c].save},
         UNCHANGED <<sessions, messages, held, saves, disturbed>>
  PROVE  /\ DbTypes' /\ SavesAreNumbered' /\ OneWriter' /\ NoOrphans'
         /\ \A d \in Connections : \A id : Writes(d, id)' => d # c /\ Writes(d, id)
         /\ \A d \in Connections \ {c} : saving'[d] = saving[d]
<1>1. /\ saving' \in [Connections -> {NoSave} \cup SaveType]
      /\ saving'[c] = NoSave
      /\ \A d \in Connections \ {c} : saving'[d] = saving[d]
  BY DEF DbInv, DbTypes
<1>2. ~Active(c)' /\ \A id : ~Writes(c, id)'
  BY <1>1 DEF Active, Writes, NoSave
<1>3. \A d \in Connections \ {c} : /\ Active(d)' <=> Active(d)
                                   /\ \A id : Writes(d, id)' <=> Writes(d, id)
  BY <1>1 DEF Active, Writes
<1>4. DbTypes'
  BY <1>1 DEF DbInv, DbTypes
<1>5. ASSUME NEW d \in Connections, Active(d)'
      PROVE  /\ d # c /\ Active(d) /\ saving'[d] = saving[d]
             /\ saving[d].save # saving[c].save
  BY <1>1, <1>2, <1>3, <1>5 DEF DbInv, SavesAreNumbered
<1>6. SavesAreNumbered'
  <2>1. returned' \subseteq 1..saves'
    BY DEF DbInv, SavesAreNumbered
  <2>2. ASSUME NEW d \in Connections, Active(d)'
        PROVE  /\ saving'[d].save \in 1..saves'
               /\ saving'[d].save \notin returned'
               /\ saving'[d].next # "insert" => saving'[d].position = 0
               /\ \A e \in Connections \ {d} : Active(e)' => saving'[e].save # saving'[d].save
               /\ \A id \in SessionIds :
                    sessions'[id].updated_at = saving'[d].save => Writes(d, id)'
    BY <1>3, <1>5, <2>2 DEF DbInv, SavesAreNumbered
  <2> QED
    BY <2>1, <2>2 DEF DbInv, SavesAreNumbered
<1>7. OneWriter' /\ NoOrphans'
  BY <1>2, <1>3 DEF DbInv, OneWriter, NoOrphans, Saved
<1> QED
  BY <1>1, <1>2, <1>3, <1>4, <1>6, <1>7

LEMMA DeleteOldKeeps ==
  ASSUME DbInv, NEW c \in Connections, DeleteOld(c)
  PROVE  DbInv'
<1> DEFINE save == saving[c]
           new == [save EXCEPT !.next = "insert"]
<1>1. /\ save.next = "delete"
      /\ messages' = messages \ Of(save.id)
      /\ saving' = [saving EXCEPT ![c] = new]
      /\ UNCHANGED <<sessions, held, saves, returned, disturbed>>
  BY DEF DeleteOld
<1>2. save \in SaveType
  BY <1>1 DEF DbInv, DbTypes, NoSave
<1>3. /\ new \in SaveType /\ new.next = "insert" /\ new.id = save.id
      /\ new.save = save.save /\ new.length = save.length /\ new.position = save.position
  BY <1>2 DEF SaveType
<1> HIDE DEF new
<1>4. /\ saving' \in [Connections -> {NoSave} \cup SaveType]
      /\ SavesAreNumbered' /\ OneWriter'
      /\ \A d \in Connections : \A id : Writes(d, id)' <=> Writes(d, id)
      /\ saving'[c] = new
      /\ \A d \in Connections \ {c} : saving'[d] = saving[d]
  BY <1>1, <1>3, WriterGoesOn
<1>5. messages' \subseteq messages /\ \A id : Of(id)' = IF id = save.id THEN {} ELSE Of(id)
  BY <1>1 DEF Of
<1>6. DbTypes' /\ NoOrphans'
  BY <1>1, <1>4, <1>5 DEF DbInv, DbTypes, NoOrphans, Saved
<1>7. ASSUME NEW id \in Saved' \ disturbed'
      PROVE  WriterIsAt(id)' /\ StoredIsBeginning(id)'
  <2>1. id \in SessionIds /\ WriterIsAt(id) /\ StoredIsBeginning(id)
    BY <1>1, <1>7 DEF DbInv, Saved
  <2>2. Of(id)' = Of(id)
    <3>1. CASE id = save.id
      <4>1. Writes(c, id) /\ saving[c].position = 0
        BY <1>1, <3>1 DEF Writes, DbInv, SavesAreNumbered, Active
      <4>2. Of(id) = Beginning(id, 0)
        BY <2>1, <4>1 DEF WriterIsAt
      <4> QED
        BY <1>5, <3>1, <4>2 DEF Beginning
    <3>2. CASE id # save.id
      BY <1>5, <3>2
    <3> QED
      BY <3>1, <3>2
  <2>3. \A d \in Connections : Writes(d, id)' => /\ Writes(d, id)
                                               /\ saving'[d].save = saving[d].save
                                               /\ saving'[d].length = saving[d].length
                                               /\ saving'[d].position = saving[d].position
    BY <1>3, <1>4
  <2> QED
    BY <1>1, <2>1, <2>2, <2>3, RestKept
<1> QED
  BY <1>4, <1>6, <1>7 DEF DbInv

LEMMA InsertMessageKeeps ==
  ASSUME DbInv, NEW c \in Connections, InsertMessage(c)
  PROVE  DbInv'
<1> DEFINE save == saving[c]
           new == [save EXCEPT !.position = save.position + 1]
           message == Message(save.id, save.save, save.position)
<1>1. /\ save.next = "insert"
      /\ save.id \in Saved
      /\ messages' = messages \cup {message}
      /\ saving' = [saving EXCEPT ![c] = new]
      /\ UNCHANGED <<sessions, held, saves, returned, disturbed>>
  BY DEF InsertMessage
<1>2. save \in SaveType
  BY <1>1 DEF DbInv, DbTypes, NoSave
<1>3. /\ new \in SaveType /\ new.next = "insert" /\ new.id = save.id
      /\ new.save = save.save /\ new.length = save.length /\ new.position = save.position + 1
  BY <1>1, <1>2 DEF SaveType
<1> HIDE DEF new
<1>4. /\ saving' \in [Connections -> {NoSave} \cup SaveType]
      /\ SavesAreNumbered' /\ OneWriter'
      /\ \A d \in Connections : \A id : Writes(d, id)' <=> Writes(d, id)
      /\ saving'[c] = new
      /\ \A d \in Connections \ {c} : saving'[d] = saving[d]
  BY <1>1, <1>3, WriterGoesOn
<1>5. /\ message \in [id : SessionIds, save : Nat, position : Nat]
      /\ message.id = save.id
      /\ \A id : Of(id)' = IF id = save.id THEN Of(id) \cup {message} ELSE Of(id)
  BY <1>1, <1>2 DEF Of, Message, SaveType
<1>6. DbTypes' /\ NoOrphans'
  <2>1. messages' \subseteq [id : SessionIds, save : Nat, position : Nat]
    BY <1>1, <1>5 DEF DbInv, DbTypes
  <2>2. Saved' = Saved
    BY <1>1 DEF Saved
  <2>3. NoOrphans'
    BY <1>1, <1>5, <2>2 DEF DbInv, NoOrphans
  <2> QED
    BY <1>1, <1>4, <2>1, <2>3 DEF DbInv, DbTypes
<1>7. ASSUME NEW id \in Saved' \ disturbed'
      PROVE  WriterIsAt(id)' /\ StoredIsBeginning(id)'
  <2>1. id \in SessionIds /\ WriterIsAt(id) /\ StoredIsBeginning(id)
    BY <1>1, <1>7 DEF DbInv, Saved
  <2>2. CASE id = save.id
    <3>1. Writes(c, id)
      BY <1>1, <2>2 DEF Writes
    <3>2. /\ save.save = sessions[id].updated_at
          /\ save.length = sessions[id].message_count
          /\ Of(id) = Beginning(id, save.position)
      BY <2>1, <3>1 DEF WriterIsAt
    <3>3. save.position \in Nat /\ new.position \in Nat /\ new.position = save.position + 1
      BY <1>2, <1>3 DEF SaveType
    <3>4. Of(id)' = Beginning(id, new.position)
      <4>1. 0..new.position - 1 = (0..save.position - 1) \cup {save.position}
        BY <3>3
      <4>2. Beginning(id, new.position) =
              Beginning(id, save.position) \cup {Message(id, sessions[id].updated_at, save.position)}
        BY <4>1 DEF Beginning
      <4> QED
        BY <1>5, <2>2, <3>2, <4>2
    <3>5. \A n : Beginning(id, n)' = Beginning(id, n)
      BY <1>1 DEF Beginning, Message
    <3>6. \A d \in Connections : Writes(d, id)' => d = c
      BY <1>1, <1>4, <1>7, <2>1, <3>1 DEF DbInv, OneWriter
    <3>7. WriterIsAt(id)'
      BY <1>1, <1>3, <1>4, <3>2, <3>4, <3>5, <3>6 DEF WriterIsAt
    <3>8. StoredIsBeginning(id)'
      <4>1. sessions'[id].updated_at \notin returned'
        BY <1>1, <3>2 DEF DbInv, SavesAreNumbered, Active
      <4> QED
        BY <3>3, <3>4, <3>5, <4>1 DEF StoredIsBeginning
    <3> QED
      BY <3>7, <3>8
  <2>3. CASE id # save.id
    <3>1. \A d \in Connections : Writes(d, id)' => Writes(d, id) /\ d # c
      BY <1>4, <2>3 DEF Writes
    <3> QED
      BY <1>1, <1>4, <1>5, <2>1, <2>3, <3>1, RestKept
  <2> QED
    BY <2>2, <2>3
<1> QED
  BY <1>4, <1>6, <1>7 DEF DbInv

\* A save returns: all its messages are there.
LEMMA EndSaveKeeps ==
  ASSUME DbInv, NEW c \in Connections, EndSave(c)
  PROVE  DbInv'
<1> DEFINE save == saving[c]
<1>1. /\ save.next = "insert"
      /\ save.position = save.length
      /\ saving' = [saving EXCEPT ![c] = NoSave]
      /\ returned' = returned \cup {save.save}
      /\ UNCHANGED <<sessions, messages, held, saves, disturbed>>
  BY DEF EndSave
<1>2. Active(c) /\ save \in SaveType
  BY <1>1 DEF Active, DbInv, DbTypes, NoSave
<1>3. /\ DbTypes' /\ SavesAreNumbered' /\ OneWriter' /\ NoOrphans'
      /\ \A d \in Connections : \A id : Writes(d, id)' => d # c /\ Writes(d, id)
      /\ \A d \in Connections \ {c} : saving'[d] = saving[d]
  BY <1>1, <1>2, SaveOver
<1>4. ASSUME NEW id \in Saved' \ disturbed'
      PROVE  WriterIsAt(id)' /\ StoredIsBeginning(id)'
  <2>1. id \in SessionIds /\ WriterIsAt(id) /\ StoredIsBeginning(id)
    BY <1>1, <1>4 DEF DbInv, Saved
  <2>2. Of(id)' = Of(id) /\ sessions'[id] = sessions[id]
    BY <1>1 DEF Of
  <2>3. CASE sessions[id].updated_at # save.save
    <3>1. sessions[id].updated_at \in returned' => sessions[id].updated_at \in returned
      BY <1>1, <2>3
    <3> QED
      BY <1>3, <2>1, <2>2, <3>1, RestKept
  <2>4. CASE sessions[id].updated_at = save.save
    <3>1. Writes(c, id)
      BY <1>2, <2>1, <2>4 DEF DbInv, SavesAreNumbered
    <3>2. Of(id) = Beginning(id, save.position) /\ save.length = sessions[id].message_count
      BY <2>1, <3>1 DEF WriterIsAt
    <3>3. \A n : Beginning(id, n)' = Beginning(id, n)
      BY <1>1 DEF Beginning, Message
    <3>4. save.position \in Nat
      BY <1>2 DEF SaveType
    <3>5. StoredIsBeginning(id)'
      BY <1>1, <2>2, <3>2, <3>3, <3>4 DEF StoredIsBeginning
    <3>6. \A d \in Connections : ~Writes(d, id)'
      BY <1>1, <1>3, <1>4, <2>1, <3>1 DEF DbInv, OneWriter
    <3> QED
      BY <3>5, <3>6 DEF WriterIsAt
  <2> QED
    BY <2>3, <2>4
<1> QED
  BY <1>3, <1>4 DEF DbInv

\* A save is abandoned: what it has written is a beginning.
LEMMA AbandonSaveKeeps ==
  ASSUME DbInv, NEW c \in Connections, AbandonSave(c)
  PROVE  DbInv'
<1>1. /\ saving[c] # NoSave
      /\ saving' = [saving EXCEPT ![c] = NoSave]
      /\ UNCHANGED <<sessions, messages, held, saves, returned, disturbed>>
  BY DEF AbandonSave
<1>2. Active(c)
  BY <1>1 DEF Active, DbInv, DbTypes, SaveType
<1>3. /\ DbTypes' /\ SavesAreNumbered' /\ OneWriter' /\ NoOrphans'
      /\ \A d \in Connections : \A id : Writes(d, id)' => d # c /\ Writes(d, id)
      /\ \A d \in Connections \ {c} : saving'[d] = saving[d]
  BY <1>1, <1>2, SaveOver
<1>4. ASSUME NEW id \in Saved' \ disturbed'
      PROVE  WriterIsAt(id)' /\ StoredIsBeginning(id)'
  <2>1. id \in SessionIds /\ WriterIsAt(id) /\ StoredIsBeginning(id)
    BY <1>1, <1>4 DEF DbInv, Saved
  <2>2. Of(id)' = Of(id)
    BY <1>1 DEF Of
  <2> QED
    BY <1>1, <1>3, <2>1, <2>2, RestKept
<1> QED
  BY <1>3, <1>4 DEF DbInv

\* Sessions are deleted with their messages.
LEMMA DeleteSessionsKeeps ==
  ASSUME DbInv, NEW ids, DeleteSessions(ids)
  PROVE  DbInv'
<1>1. /\ sessions' = [id \in SessionIds |-> IF id \in ids THEN NoRow ELSE sessions[id]]
      /\ messages' = Cascade(ids)
      /\ UNCHANGED <<held, saving, saves, returned, disturbed>>
  BY DEF DeleteSessions
<1>2. NoRow \in [created_at : Nat, updated_at : Nat, message_count : Nat]
  BY DEF NoRow
<1>3. DbTypes'
  BY <1>1, <1>2 DEF DbInv, DbTypes, Cascade
<1>4. \A d \in Connections : /\ Active(d)' <=> Active(d)
                             /\ \A id : Writes(d, id)' <=> Writes(d, id)
  BY <1>1 DEF Active, Writes
<1>5. \A id \in SessionIds : sessions'[id] = IF id \in ids THEN NoRow ELSE sessions[id]
  BY <1>1
<1>6. SavesAreNumbered'
  <2>1. \A id \in SessionIds : id \in ids => sessions'[id].updated_at = 0
    BY <1>5 DEF NoRow
  <2>2. \A id \in SessionIds : sessions'[id].updated_at <= saves'
    BY <1>1, <1>5, <2>1 DEF DbInv, SavesAreNumbered, DbTypes
  <2>3. ASSUME NEW d \in Connections, Active(d)', NEW id \in SessionIds,
               sessions'[id].updated_at = saving'[d].save
        PROVE  Writes(d, id)'
    <3>1. id \notin ids
      BY <1>1, <1>4, <2>1, <2>3 DEF DbInv, SavesAreNumbered, DbTypes
    <3> QED
      BY <1>1, <1>4, <1>5, <2>3, <3>1 DEF DbInv, SavesAreNumbered
  <2> QED
    BY <1>1, <1>4, <2>2, <2>3 DEF DbInv, SavesAreNumbered
<1>7. OneWriter'
  BY <1>1, <1>4 DEF DbInv, OneWriter
<1>8. NoOrphans'
  BY <1>1, <1>5 DEF DbInv, DbTypes, NoOrphans, Cascade, Saved
<1>9. ASSUME NEW id \in Saved' \ disturbed'
      PROVE  WriterIsAt(id)' /\ StoredIsBeginning(id)'
  <2>1. id \in SessionIds /\ id \notin ids /\ sessions'[id] = sessions[id]
    BY <1>5, <1>9 DEF Saved
  <2>2. WriterIsAt(id) /\ StoredIsBeginning(id)
    BY <1>1, <1>9, <2>1 DEF DbInv, Saved
  <2>3. Of(id)' = Of(id)
    BY <1>1, <2>1 DEF Of, Cascade
  <2> QED
    BY <1>1, <1>4, <2>1, <2>2, <2>3, RestKept
<1> QED
  BY <1>3, <1>6, <1>7, <1>8, <1>9 DEF DbInv

\* Loading changes only which session a connection holds.
LEMMA LoadKeeps ==
  ASSUME DbInv, UNCHANGED <<sessions, messages, saving, saves, returned, disturbed>>,
         held' \in [Connections -> SessionIds]
  PROVE  DbInv'
<1>1. DbTypes'
  BY DEF DbInv, DbTypes
<1>2. SavesAreNumbered' /\ OneWriter' /\ NoOrphans'
  BY DEF DbInv, SavesAreNumbered, OneWriter, NoOrphans, Active, Writes, Saved
<1>3. ASSUME NEW id \in Saved' \ disturbed'
      PROVE  WriterIsAt(id)' /\ StoredIsBeginning(id)'
  <2>1. id \in SessionIds /\ WriterIsAt(id) /\ StoredIsBeginning(id)
    BY <1>3 DEF DbInv, Saved
  <2>2. Of(id)' = Of(id) /\ \A d : Writes(d, id)' <=> Writes(d, id)
    BY DEF Of, Writes
  <2> QED
    BY <2>1, <2>2, RestKept
<1> QED
  BY <1>1, <1>2, <1>3 DEF DbInv

LEMMA DbInvStep == DbInv /\ [DbNext]_dbVars => DbInv'
<1> SUFFICES ASSUME DbInv, [DbNext]_dbVars PROVE DbInv'
  OBVIOUS
<1>1. held \in [Connections -> SessionIds]
  BY DEF DbInv, DbTypes
<1>2. CASE UNCHANGED dbVars
  BY <1>1, <1>2, LoadKeeps DEF dbVars
<1>3. ASSUME NEW c \in Connections, NEW id \in SessionIds, LoadSession(c, id)
      PROVE  DbInv'
  <2>1. PICK new \in Unused : held' = [held EXCEPT ![c] = new]
    BY <1>3 DEF LoadSession
  <2>2. held' \in [Connections -> SessionIds]
    BY <1>1, <2>1 DEF Unused
  <2> QED
    BY <1>3, <2>2, LoadKeeps DEF LoadSession
<1>4. ASSUME NEW c \in Connections, NEW id \in SessionIds, RestoreSession(c, id)
      PROVE  DbInv'
  <2>1. held' \in [Connections -> SessionIds]
    BY <1>1, <1>4 DEF RestoreSession
  <2> QED
    BY <1>4, <2>1, LoadKeeps DEF RestoreSession
<1>5. ASSUME NEW ids, DeleteSessions(ids) PROVE DbInv'
  BY <1>5, DeleteSessionsKeeps
<1> QED
  BY <1>2, <1>3, <1>4, <1>5, BeginSaveKeeps, ReplaceRowKeeps, DeleteOldKeeps,
     InsertMessageKeeps, EndSaveKeeps, AbandonSaveKeeps DEF DbNext

\* Only ReplaceRow and a delete change rows, and the former keeps the time.
LEMMA StepCreatesOnce == DbInv /\ [DbNext]_dbVars => [CreatedOnce]_dbVars
<1> SUFFICES ASSUME DbInv, DbNext, NEW id \in Saved, sessions'[id] # NoRow
             PROVE  sessions'[id].created_at = sessions[id].created_at
  BY DEF CreatedOnce
<1>1. id \in SessionIds
  BY DEF Saved
<1>2. ASSUME NEW c \in Connections, ReplaceRow(c)
      PROVE  sessions'[id].created_at = sessions[id].created_at
  <2>1. /\ saving[c].next = "row"
        /\ sessions' = [sessions EXCEPT ![saving[c].id] = Row(saving[c])]
    BY <1>2 DEF ReplaceRow
  <2>2. CASE saving[c].id = id
    <3>1. sessions'[id] = Row(saving[c])
      BY <1>1, <2>1, <2>2 DEF DbInv, DbTypes
    <3> QED
      BY <2>2, <3>1 DEF Row
  <2>3. CASE saving[c].id # id
    BY <1>1, <2>1, <2>3 DEF DbInv, DbTypes
  <2> QED
    BY <2>2, <2>3
<1>3. ASSUME NEW ids, DeleteSessions(ids)
      PROVE  sessions'[id].created_at = sessions[id].created_at
  BY <1>1, <1>3 DEF DeleteSessions
<1>4. CASE sessions' = sessions
  BY <1>4
<1> QED
  BY <1>2, <1>3, <1>4
  DEF DbNext, BeginSave, DeleteOld, InsertMessage, EndSave, AbandonSave, LoadSession,
      RestoreSession

\* Wherever saves fail, die, meet one another or a delete, a session that is
\* loaded is the beginning of what one save wrote, all of it if that save returned
\* Ok, under its first time of creation, and no message is left without a session.
THEOREM SavesAreAlwaysWhole == PersistenceSpec => SavesAreWhole
<1>1. PersistenceInit => DbInit
  BY DEF PersistenceInit
<1>2. [PersistenceNext]_<<dbVars, filesVars, part>> => [DbNext]_dbVars
  BY DEF PersistenceNext
<1>3. PersistenceSpec => []DbInv
  BY <1>1, <1>2, DbInvInit, DbInvStep, PTL DEF PersistenceSpec
<1>4. PersistenceSpec => [][CreatedOnce]_dbVars
  BY <1>2, <1>3, StepCreatesOnce, PTL DEF PersistenceSpec
<1> QED
  BY <1>3, <1>4, DbInvIsWhole, PTL DEF SavesAreWhole

----------------------------------------------------------------------------
(* The downloads of models *)

\* A file that has only blocks of the model at their places, and holes.
InPlace(content) ==
  /\ content \in Seq(Nat)
  /\ Len(content) <= Blocks
  /\ \A i \in 1..Len(content) : content[i] \in {0, i}

OnnxNames == {"model.onnx", "tokenizer.json"}

\* A download of a GGUF file, and one of the files of an ONNX model: nothing is
\* under its name before a copy begins.
DownloadType ==
  {Idle}
    \cup [name : {Gguf}, kind : {"gguf"}, written : 0..Blocks, known : BOOLEAN, todo : {<<>>}]
    \cup [name : OnnxNames \cup {"none"}, kind : {"strict", "lenient"}, written : 0..Blocks,
          known : BOOLEAN, todo : {<<>>, Onnx, Tail(Onnx)}]

FileType == {NoFile} \cup {content \in Seq(Nat) : InPlace(content)}

FilesTypes ==
  /\ files \in [Names -> FileType]
  /\ download \in [Processes -> DownloadType]

\* The file that a download writes is there, and the next one it has to get; a
\* download that is past the model, and could not leave it out, has it.
HasWhatItWrote(d) ==
  /\ d.kind = "gguf" => Exists(Gguf)
  /\ d.kind \in {"strict", "lenient"} /\ d.name # "none" =>
       d.todo # <<>> /\ d.name = Head(d.todo) /\ Exists(d.name)
  /\ d.kind = "strict" /\ d.todo # Onnx => Exists(Onnx[1])

\* A GGUF file that one process alone writes is what that process has written.
AloneInFile ==
  Gguf \notin shared => \A p \in Processes : download[p].kind = "gguf" =>
    /\ files[Gguf] = [i \in 1..download[p].written |-> i]
    /\ \A q \in Processes \ {p} : download[q].kind # "gguf"

\* The inductive invariant: what a download has done so far, and what is left.
FilesInv ==
  /\ FilesTypes
  /\ \A p \in Processes : HasWhatItWrote(download[p])
  /\ AloneInFile
  /\ ReturnedFileIsWhole
  /\ ReturnedDirHasModel

\* The names, and that they are different.
LEMMA NameFacts ==
  /\ Names = {Gguf, "model.onnx", "tokenizer.json"}
  /\ ToSet(Onnx) = OnnxNames /\ OnnxNames \subseteq Names
  /\ Gguf \notin OnnxNames /\ Gguf # "none" /\ "none" \notin OnnxNames
  /\ Onnx # <<>> /\ Head(Onnx) = "model.onnx" /\ Onnx[1] = "model.onnx"
  /\ Tail(Onnx) # <<>> /\ Head(Tail(Onnx)) = "tokenizer.json"
  /\ Tail(Tail(Onnx)) = <<>> /\ Tail(Onnx) # Onnx
<1>1. ToSet(Onnx) = OnnxNames
  BY DEF ToSet, Onnx, OnnxNames
<1>2. Names = {Gguf, "model.onnx", "tokenizer.json"}
  BY <1>1 DEF Names, OnnxNames
<1>3. /\ Onnx # <<>> /\ Head(Onnx) = "model.onnx" /\ Onnx[1] = "model.onnx"
      /\ Tail(Onnx) # <<>> /\ Head(Tail(Onnx)) = "tokenizer.json"
      /\ Tail(Tail(Onnx)) = <<>> /\ Tail(Onnx) # Onnx
  BY DEF Onnx
<1> QED
  BY <1>1, <1>2, <1>3 DEF Gguf, OnnxNames

\* What is in place is a file, and so is one that has just been created.
LEMMA InPlaceExists ==
  /\ \A content : InPlace(content) => content # NoFile
  /\ InPlace(<<>>)
  /\ InPlace(WholeFile)
<1>1. ASSUME NEW content, InPlace(content), content = NoFile PROVE FALSE
  <2>1. Len(NoFile) = 1 /\ NoFile[1] = -1
    BY DEF NoFile
  <2>2. content[1] \in {0, 1}
    BY <1>1, <2>1 DEF InPlace
  <2> QED
    BY <1>1, <2>1, <2>2
<1>2. InPlace(<<>>)
  <2>1. Len(<<>>) = 0 /\ <<>> \in Seq(Nat) /\ 1..0 = {}
    OBVIOUS
  <2> QED
    BY <2>1, FilesAssumption DEF InPlace
<1>3. InPlace(WholeFile)
  <2>1. WholeFile \in [1..Blocks -> Nat] /\ Blocks \in Nat
    BY FilesAssumption DEF WholeFile
  <2>2. WholeFile \in Seq(Nat) /\ Len(WholeFile) = Blocks
    BY <2>1, FunctionIsSeq
  <2> QED
    BY <2>1, <2>2 DEF InPlace, WholeFile
<1> QED
  BY <1>1, <1>2, <1>3

\* Writing a block at its place keeps the others at theirs; at the end of what is
\* whole so far, it makes that one longer.
LEMMA WithBlockFacts ==
  ASSUME NEW content, InPlace(content), NEW at \in 1..Blocks
  PROVE  /\ InPlace(WithBlock(content, at))
         /\ content = [i \in 1..at - 1 |-> i] => WithBlock(content, at) = [i \in 1..at |-> i]
<1> DEFINE n == Len(content)
           gap == [i \in 1..at - n |-> 0]
           long == IF n >= at THEN content ELSE content \o gap
           m == IF n >= at THEN n ELSE at
<1>1. content \in Seq(Nat) /\ n \in Nat /\ at \in Nat /\ Blocks \in Nat
  BY FilesAssumption DEF InPlace
<1>2. /\ long \in Seq(Nat) /\ Len(long) = m
      /\ \A i \in 1..m : long[i] = IF i <= n THEN content[i] ELSE 0
  <2>1. CASE n >= at
    BY <1>1, <2>1
  <2>2. CASE ~(n >= at)
    <3>1. at - n \in Nat /\ gap \in [1..at - n -> Nat]
      BY <1>1, <2>2
    <3>2. gap \in Seq(Nat) /\ Len(gap) = at - n
      BY <3>1, FunctionIsSeq
    <3>3. \A i \in 1..at - n : gap[i] = 0
      OBVIOUS
    <3> HIDE DEF gap, n
    <3>4. Len(content) = n
      BY DEF n
    <3>5. content \o gap \in Seq(Nat) /\ Len(content \o gap) = at
      BY <1>1, <3>1, <3>2, <3>4
    <3>6. \A i \in 1..at : (content \o gap)[i] = IF i <= n THEN content[i] ELSE gap[i - n]
      <4>1. \A i \in 1..Len(content) + Len(gap) :
              (content \o gap)[i] = IF i <= Len(content) THEN content[i] ELSE gap[i - Len(content)]
        BY <1>1, <3>2, ConcatProperties
      <4> QED
        BY <1>1, <3>1, <3>2, <3>4, <4>1
    <3> QED
      BY <1>1, <2>2, <3>1, <3>3, <3>5, <3>6
  <2> QED
    BY <2>1, <2>2
<1>3. WithBlock(content, at) = [long EXCEPT ![at] = at]
  BY DEF WithBlock
<1> DEFINE new == [long EXCEPT ![at] = at]
<1>4. m \in Nat /\ at <= m /\ m <= Blocks /\ n <= m
  BY <1>1 DEF InPlace
<1> HIDE DEF m, long, n
<1>5. /\ new \in Seq(Nat) /\ Len(new) = m
      /\ \A i \in 1..m : new[i] = IF i = at THEN at ELSE long[i]
  BY <1>1, <1>2, <1>4
<1>6. \A i \in 1..m : new[i] = IF i = at THEN at ELSE IF i <= n THEN content[i] ELSE 0
  BY <1>2, <1>5
<1>7. \A i \in 1..n : content[i] \in {0, i}
  BY DEF InPlace, n
<1> HIDE DEF new
<1>8. InPlace(new)
  BY <1>1, <1>4, <1>5, <1>6, <1>7 DEF InPlace
<1>9. ASSUME content = [i \in 1..at - 1 |-> i]
      PROVE  new = [i \in 1..at |-> i]
  <2>1. n = at - 1
    <3>1. at - 1 \in Nat /\ content \in [1..at - 1 -> Nat]
      BY <1>9
    <3> QED
      BY <1>1, <3>1, FunctionIsSeq DEF n
  <2>2. m = at
    BY <1>1, <2>1 DEF m
  <2>3. \A i \in 1..at : new[i] = i
    BY <1>1, <1>6, <1>9, <2>1, <2>2
  <2>4. DOMAIN new = 1..at
    BY <1>5, <2>2
  <2>5. new = [i \in DOMAIN new |-> new[i]]
    BY <1>5
  <2> QED
    BY <2>3, <2>4, <2>5
<1> QED
  BY <1>3, <1>8, <1>9 DEF new

\* A file is created or written, and the others stay.
LEMMA FileWritten ==
  ASSUME FilesTypes, NEW name \in Names, NEW content, InPlace(content),
         files' = [files EXCEPT ![name] = content]
  PROVE  /\ files' \in [Names -> FileType]
         /\ files'[name] = content /\ Exists(name)'
         /\ \A other \in Names \ {name} : files'[other] = files[other]
         /\ \A other \in Names : Exists(other) => Exists(other)'
<1>1. content \in FileType /\ content # NoFile
  BY InPlaceExists DEF FileType, InPlace
<1> QED
  BY <1>1 DEF FilesTypes, Exists

\* What a download wrote stays while no file goes.
LEMMA WroteStays ==
  ASSUME NEW d \in DownloadType, HasWhatItWrote(d),
         \A name \in Names : Exists(name) => Exists(name)'
  PROVE  HasWhatItWrote(d)'
<1>1. Gguf \in Names /\ Onnx[1] \in Names
  BY NameFacts
<1>2. d.kind \in {"strict", "lenient"} /\ d.name # "none" => d.name \in Names
  BY NameFacts DEF DownloadType, Idle
<1> QED
  BY <1>1, <1>2 DEF HasWhatItWrote

\* The kinds of downloads, as their types tell them apart.
LEMMA DownloadFacts ==
  ASSUME NEW d \in DownloadType
  PROVE  /\ d.name = Gguf <=> d.kind = "gguf"
         /\ d.kind = "gguf" => /\ d.written \in 0..Blocks /\ d.known \in BOOLEAN
                               /\ d = [name |-> Gguf, kind |-> "gguf", written |-> d.written,
                                       known |-> d.known, todo |-> <<>>]
         /\ d.kind \in {"strict", "lenient"} =>
              /\ d.name \in OnnxNames \cup {"none"} /\ d.written \in 0..Blocks
              /\ d.known \in BOOLEAN /\ d.todo \in {<<>>, Onnx, Tail(Onnx)}
              /\ d = [name |-> d.name, kind |-> d.kind, written |-> d.written,
                      known |-> d.known, todo |-> d.todo]
<1>1. CASE d = Idle
  BY <1>1, NameFacts DEF Idle
<1>2. CASE d \in [name : {Gguf}, kind : {"gguf"}, written : 0..Blocks, known : BOOLEAN, todo : {<<>>}]
  BY <1>2
<1>3. CASE d \in [name : OnnxNames \cup {"none"}, kind : {"strict", "lenient"}, written : 0..Blocks,
                  known : BOOLEAN, todo : {<<>>, Onnx, Tail(Onnx)}]
  BY <1>3, NameFacts
<1> QED
  BY <1>1, <1>2, <1>3 DEF DownloadType

\* What a step has to do to keep the first parts of the invariant.
Kept ==
  /\ FilesTypes'
  /\ (\A p \in Processes : HasWhatItWrote(download[p]))'
  /\ AloneInFile'

\* A step of a process that writes no GGUF file afterwards.
LEMMA OnnxStepKeeps ==
  ASSUME FilesInv, NEW p \in Processes, NEW new \in DownloadType,
         download' = [download EXCEPT ![p] = new],
         new.kind # "gguf",
         files' \in [Names -> FileType],
         files'[Gguf] = files[Gguf],
         \A name \in Names : Exists(name) => Exists(name)',
         Gguf \in shared => Gguf \in shared',
         HasWhatItWrote(new)'
  PROVE  Kept
<1>1. /\ download' \in [Processes -> DownloadType]
      /\ download'[p] = new
      /\ \A q \in Processes \ {p} : download'[q] = download[q]
  BY DEF FilesInv, FilesTypes
<1>2. ASSUME NEW q \in Processes PROVE HasWhatItWrote(download[q])'
  <2>1. CASE q = p
    BY <1>1, <2>1 DEF HasWhatItWrote, Exists
  <2>2. CASE q # p
    <3>1. PICK d : d = download[q]
      OBVIOUS
    <3>2. HasWhatItWrote(d)'
      BY <3>1, WroteStays DEF FilesInv, FilesTypes
    <3> QED
      BY <1>1, <2>2, <3>1, <3>2 DEF HasWhatItWrote, Exists
  <2> QED
    BY <2>1, <2>2
<1>3. AloneInFile'
  <2>1. \A q \in Processes : download'[q].kind = "gguf" => q # p /\ download'[q] = download[q]
    BY <1>1
  <2> QED
    BY <2>1 DEF FilesInv, AloneInFile
<1> QED
  BY <1>1, <1>2, <1>3 DEF Kept, FilesTypes

\* A step that reports no success has nothing to answer for.
LEMMA NoSuccess ==
  ASSUME Kept, outcome'.ok = FALSE
  PROVE  FilesInv'
BY DEF Kept, FilesInv, ReturnedFileIsWhole, ReturnedDirHasModel

LEMMA OutcomeFacts ==
  /\ NoOutcome.ok = FALSE
  /\ \A p, ok, announced :
       /\ Ended(p, ok, announced).ok = ok
       /\ Ended(p, ok, announced).kind = download[p].kind
       /\ Ended(p, ok, announced).known = download[p].known
BY DEF NoOutcome, Ended

\* A request is refused, or a file is found missing: nothing has been written.
LEMMA LooksKeep ==
  ASSUME FilesInv, NEW p \in Processes, RequestFails(p) \/ FindMissing(p)
  PROVE  FilesInv'
<1>1. UNCHANGED <<files, download, shared>>
  BY DEF RequestFails, FindMissing
<1>2. outcome'.ok = FALSE
  <2>1. CASE RequestFails(p)
    BY <2>1 DEF RequestFails, NoOutcome
  <2>2. CASE FindMissing(p)
    BY <2>2 DEF FindMissing, NoOutcome
  <2> QED
    BY <2>1, <2>2
<1>3. Kept
  BY <1>1 DEF Kept, FilesInv, FilesTypes, AloneInFile, HasWhatItWrote, Exists
<1> QED
  BY <1>2, <1>3, NoSuccess

\* How a download begins.
LEMMA DownloadsBegin ==
  /\ \A known \in BOOLEAN :
       LET new == [Idle EXCEPT !.name = Gguf, !.kind = "gguf", !.known = known]
       IN  new \in DownloadType /\ new.kind = "gguf" /\ new.written = 0 /\ new.name = Gguf
  /\ \A kind \in {"strict", "lenient"} :
       LET new == [Idle EXCEPT !.kind = kind, !.todo = Onnx]
       IN  new \in DownloadType /\ new.kind = kind /\ new.name = "none" /\ new.todo = Onnx
<1>1. ASSUME NEW known \in BOOLEAN, NEW new,
             new = [Idle EXCEPT !.name = Gguf, !.kind = "gguf", !.known = known]
      PROVE  new \in DownloadType /\ new.kind = "gguf" /\ new.written = 0 /\ new.name = Gguf
  <2>1. new = [name |-> Gguf, kind |-> "gguf", written |-> 0, known |-> known, todo |-> <<>>]
    BY <1>1 DEF Idle
  <2>2. 0 \in 0..Blocks
    BY FilesAssumption
  <2> QED
    BY <2>1, <2>2 DEF DownloadType
<1>2. ASSUME NEW kind \in {"strict", "lenient"}, NEW new,
             new = [Idle EXCEPT !.kind = kind, !.todo = Onnx]
      PROVE  new \in DownloadType /\ new.kind = kind /\ new.name = "none" /\ new.todo = Onnx
  <2>1. new = [name |-> "none", kind |-> kind, written |-> 0, known |-> FALSE, todo |-> Onnx]
    BY <1>2 DEF Idle
  <2>2. 0 \in 0..Blocks /\ FALSE \in BOOLEAN
    BY FilesAssumption
  <2> QED
    BY <2>1, <2>2 DEF DownloadType
<1> QED
  BY <1>1, <1>2

\* The server answers: the file is empty, and whoever else writes it shares it.
LEMMA RequestKeeps ==
  ASSUME FilesInv, NEW p \in Processes, Request(p)
  PROVE  FilesInv'
<1>1. PICK known \in BOOLEAN :
        download' = [download EXCEPT ![p] = [Idle EXCEPT !.name = Gguf, !.kind = "gguf", !.known = known]]
  BY DEF Request
<1> DEFINE new == [Idle EXCEPT !.name = Gguf, !.kind = "gguf", !.known = known]
<1>2. /\ new \in DownloadType /\ new.kind = "gguf" /\ new.written = 0
      /\ new.name = Gguf
  BY DownloadsBegin
<1> HIDE DEF new
<1>3. /\ files' = [files EXCEPT ![Gguf] = <<>>]
      /\ shared' = SharedAfterCreating(p, Gguf)
      /\ outcome'.ok = FALSE
  BY OutcomeFacts DEF Request
<1>4. /\ download' \in [Processes -> DownloadType]
      /\ download'[p] = new
      /\ \A q \in Processes \ {p} : download'[q] = download[q]
  BY <1>1, <1>2 DEF FilesInv, FilesTypes, new
<1>5. /\ files' \in [Names -> FileType]
      /\ files'[Gguf] = <<>> /\ Exists(Gguf)'
      /\ \A name \in Names : Exists(name) => Exists(name)'
  BY <1>3, FileWritten, InPlaceExists, NameFacts DEF FilesInv
<1>6. ASSUME NEW q \in Processes PROVE HasWhatItWrote(download[q])'
  <2>1. CASE q = p
    BY <1>2, <1>4, <1>5, <2>1 DEF HasWhatItWrote
  <2>2. CASE q # p
    <3>1. PICK d : d = download[q]
      OBVIOUS
    <3>2. HasWhatItWrote(d)'
      BY <1>5, <3>1, WroteStays DEF FilesInv, FilesTypes
    <3> QED
      BY <1>4, <2>2, <3>1, <3>2 DEF HasWhatItWrote, Exists
  <2> QED
    BY <2>1, <2>2
<1>7. AloneInFile'
  <2> SUFFICES ASSUME Gguf \notin shared', NEW q \in Processes, download'[q].kind = "gguf"
               PROVE  /\ files'[Gguf] = [i \in 1..download'[q].written |-> i]
                      /\ \A r \in Processes \ {q} : download'[r].kind # "gguf"
    BY DEF AloneInFile
  <2>1. \A r \in Processes \ {p} : download[r].name # Gguf
    BY <1>3 DEF SharedAfterCreating
  <2>2. \A r \in Processes \ {p} : download'[r].kind # "gguf"
    BY <1>4, <2>1, DownloadFacts DEF FilesInv, FilesTypes
  <2>3. q = p
    BY <2>2
  <2>4. <<>> = [i \in 1..0 |-> i]
    OBVIOUS
  <2> QED
    BY <1>2, <1>4, <1>5, <2>2, <2>3, <2>4
<1> QED
  BY <1>3, <1>4, <1>5, <1>6, <1>7, NoSuccess DEF Kept, FilesTypes

\* A block is written under the name of the GGUF file.
LEMMA WriteBlockKeeps ==
  ASSUME FilesInv, NEW p \in Processes, WriteBlock(p)
  PROVE  FilesInv'
<1> DEFINE d == download[p]
           new == [d EXCEPT !.written = d.written + 1]
<1>1. /\ d.kind = "gguf" /\ d.written < Blocks
      /\ download' = [download EXCEPT ![p] = new]
      /\ files' = [files EXCEPT ![Gguf] = WithBlock(files[Gguf], d.written + 1)]
      /\ shared' = shared /\ outcome'.ok = FALSE
  BY OutcomeFacts DEF WriteBlock
<1>2. d \in DownloadType
  BY DEF FilesInv, FilesTypes
<1>3. /\ d.written \in 0..Blocks /\ d.written + 1 \in 1..Blocks /\ d.known \in BOOLEAN
      /\ d = [name |-> Gguf, kind |-> "gguf", written |-> d.written,
              known |-> d.known, todo |-> <<>>]
  BY <1>1, <1>2, FilesAssumption, DownloadFacts
<1>4. /\ new \in DownloadType /\ new.kind = "gguf" /\ new.written = d.written + 1
  <2>1. new = [name |-> Gguf, kind |-> "gguf", written |-> d.written + 1,
               known |-> d.known, todo |-> <<>>]
    BY <1>3
  <2>2. d.written + 1 \in 0..Blocks
    BY <1>3
  <2> QED
    BY <1>3, <2>1, <2>2 DEF DownloadType
<1> HIDE DEF new
<1>5. /\ download' \in [Processes -> DownloadType]
      /\ download'[p] = new
      /\ \A q \in Processes \ {p} : download'[q] = download[q]
  BY <1>1, <1>4 DEF FilesInv, FilesTypes
<1>6. InPlace(files[Gguf])
  BY <1>1, NameFacts DEF FilesInv, FilesTypes, FileType, HasWhatItWrote, Exists
<1>7. /\ InPlace(WithBlock(files[Gguf], d.written + 1))
      /\ files[Gguf] = [i \in 1..d.written |-> i] =>
           WithBlock(files[Gguf], d.written + 1) = [i \in 1..d.written + 1 |-> i]
  <2>1. PICK at : at = d.written + 1
    OBVIOUS
  <2>2. at \in 1..Blocks /\ at - 1 = d.written
    BY <1>3, <2>1
  <2>3. /\ InPlace(WithBlock(files[Gguf], at))
        /\ files[Gguf] = [i \in 1..at - 1 |-> i] => WithBlock(files[Gguf], at) = [i \in 1..at |-> i]
    BY ONLY <1>6, <2>2, WithBlockFacts
  <2> QED
    BY <2>1, <2>2, <2>3
<1>8. /\ files' \in [Names -> FileType]
      /\ files'[Gguf] = WithBlock(files[Gguf], d.written + 1) /\ Exists(Gguf)'
      /\ \A name \in Names : Exists(name) => Exists(name)'
  BY <1>1, <1>7, FileWritten, NameFacts DEF FilesInv
<1>9. ASSUME NEW q \in Processes PROVE HasWhatItWrote(download[q])'
  <2>1. CASE q = p
    BY <1>4, <1>5, <1>8, <2>1 DEF HasWhatItWrote
  <2>2. CASE q # p
    <3>1. PICK e : e = download[q]
      OBVIOUS
    <3>2. HasWhatItWrote(e)'
      BY <1>8, <3>1, WroteStays DEF FilesInv, FilesTypes
    <3> QED
      BY <1>5, <2>2, <3>1, <3>2 DEF HasWhatItWrote, Exists
  <2> QED
    BY <2>1, <2>2
<1>10. AloneInFile'
  <2> SUFFICES ASSUME Gguf \notin shared', NEW q \in Processes, download'[q].kind = "gguf"
               PROVE  /\ files'[Gguf] = [i \in 1..download'[q].written |-> i]
                      /\ \A r \in Processes \ {q} : download'[r].kind # "gguf"
    BY DEF AloneInFile
  <2>1. /\ files[Gguf] = [i \in 1..d.written |-> i]
        /\ \A r \in Processes \ {p} : download[r].kind # "gguf"
    BY <1>1 DEF FilesInv, AloneInFile
  <2>2. q = p /\ \A r \in Processes \ {p} : download'[r].kind # "gguf"
    BY <1>5, <2>1
  <2>3. files'[Gguf] = [i \in 1..d.written + 1 |-> i]
    BY <1>7, <1>8, <2>1
  <2> QED
    BY <1>4, <1>5, <2>2, <2>3
<1> QED
  BY <1>1, <1>5, <1>8, <1>9, <1>10, NoSuccess DEF Kept, FilesTypes

\* A process is done with its download, or dies: it writes nothing more.
LEMMA IdleKeeps ==
  ASSUME FilesInv, NEW p \in Processes, download' = [download EXCEPT ![p] = Idle],
         UNCHANGED <<files, shared>>
  PROVE  Kept
<1>1. Idle \in DownloadType /\ Idle.kind = "none"
  BY DEF DownloadType, Idle
<1>2. HasWhatItWrote(Idle)'
  BY <1>1 DEF HasWhatItWrote
<1>3. \A name : Exists(name) => Exists(name)'
  BY DEF Exists
<1> QED
  BY <1>1, <1>2, <1>3, OnnxStepKeeps DEF FilesInv, FilesTypes

\* A GGUF download that returns has written all blocks of a file it shared with
\* nobody, if it knew how many.
LEMMA CompleteKeeps ==
  ASSUME FilesInv, NEW p \in Processes, Complete(p)
  PROVE  FilesInv'
<1>1. /\ download[p].kind = "gguf"
      /\ download[p].known => download[p].written = Blocks
      /\ outcome' = Ended(p, TRUE, TRUE)
      /\ download' = [download EXCEPT ![p] = Idle]
      /\ UNCHANGED <<files, shared>>
  BY DEF Complete
<1>2. Kept
  BY <1>1, IdleKeeps
<1>3. ReturnedFileIsWhole'
  <2>1. outcome'.known = download[p].known
    BY <1>1 DEF Ended
  <2>2. Gguf \notin shared => files[Gguf] = [i \in 1..download[p].written |-> i]
    BY <1>1 DEF FilesInv, AloneInFile
  <2> QED
    BY <1>1, <2>1, <2>2 DEF ReturnedFileIsWhole, Whole, WholeFile
<1>4. ReturnedDirHasModel'
  <2>1. outcome'.kind = "gguf"
    BY <1>1 DEF Ended
  <2> QED
    BY <2>1 DEF ReturnedDirHasModel
<1> QED
  BY <1>2, <1>3, <1>4 DEF Kept, FilesInv

\* A GGUF download fails, or a process dies: what was written stays.
LEMMA StopKeeps ==
  ASSUME FilesInv, NEW p \in Processes, TransferFails(p) \/ CopyFails(p) \/ Dies(p)
  PROVE  FilesInv'
<1>1. /\ download' = [download EXCEPT ![p] = Idle]
      /\ UNCHANGED <<files, shared>>
  BY DEF TransferFails, CopyFails, Dies
<1>2. outcome'.ok = FALSE
  BY DEF TransferFails, CopyFails, Dies, Ended, NoOutcome
<1> QED
  BY <1>1, <1>2, IdleKeeps, NoSuccess

\* A step of an ONNX download that writes nothing and goes on.
LEMMA OnnxMoves ==
  ASSUME FilesInv, NEW p \in Processes, NEW new \in DownloadType,
         download' = [download EXCEPT ![p] = new],
         new.kind \in {"strict", "lenient"}, HasWhatItWrote(new),
         UNCHANGED <<files, shared>>,
         outcome'.ok = FALSE
  PROVE  FilesInv'
<1>1. HasWhatItWrote(new)' /\ \A name : Exists(name) => Exists(name)'
  BY DEF HasWhatItWrote, Exists
<1>2. files' \in [Names -> FileType] /\ new.kind # "gguf"
  BY DEF FilesInv, FilesTypes
<1> QED
  BY <1>1, <1>2, OnnxStepKeeps, NoSuccess

LEMMA StartOnnxKeeps ==
  ASSUME FilesInv, NEW p \in Processes, StartOnnx(p)
  PROVE  FilesInv'
<1>1. PICK kind \in {"strict", "lenient"} :
        download' = [download EXCEPT ![p] = [Idle EXCEPT !.kind = kind, !.todo = Onnx]]
  BY DEF StartOnnx
<1> DEFINE new == [Idle EXCEPT !.kind = kind, !.todo = Onnx]
<1>2. new \in DownloadType /\ new.kind = kind /\ new.name = "none" /\ new.todo = Onnx
  BY DownloadsBegin
<1> HIDE DEF new
<1>3. HasWhatItWrote(new)
  BY <1>2 DEF HasWhatItWrote
<1>4. UNCHANGED <<files, shared>> /\ outcome'.ok = FALSE
  BY OutcomeFacts DEF StartOnnx
<1> QED
  BY <1>1, <1>2, <1>3, <1>4, OnnxMoves DEF new

\* What is left to get after the next file.
LEMMA NextFile ==
  ASSUME NEW d \in DownloadType, d.kind \in {"strict", "lenient"}, d.todo # <<>>
  PROVE  /\ Head(d.todo) \in OnnxNames
         /\ Tail(d.todo) \in {<<>>, Tail(Onnx)}
         /\ d.todo = Onnx => Head(d.todo) = Onnx[1]
         /\ \A name \in OnnxNames \cup {"none"}, written \in 0..Blocks, todo \in {<<>>, Onnx, Tail(Onnx)} :
              [d EXCEPT !.name = name, !.written = written, !.todo = todo] \in DownloadType
<1>1. d.todo \in {Onnx, Tail(Onnx)}
  BY DownloadFacts
<1>2. ASSUME NEW name \in OnnxNames \cup {"none"}, NEW written \in 0..Blocks,
             NEW todo \in {<<>>, Onnx, Tail(Onnx)}, NEW new,
             new = [d EXCEPT !.name = name, !.written = written, !.todo = todo]
      PROVE  new \in DownloadType
  <2>1. d = [name |-> d.name, kind |-> d.kind, written |-> d.written,
             known |-> d.known, todo |-> d.todo]
    BY DownloadFacts
  <2>2. new = [name |-> name, kind |-> d.kind, written |-> written,
               known |-> d.known, todo |-> todo]
    BY <1>2, <2>1
  <2>3. d.known \in BOOLEAN
    BY DownloadFacts
  <2> QED
    BY <2>2, <2>3 DEF DownloadType
<1>3. /\ Head(d.todo) \in OnnxNames /\ Tail(d.todo) \in {<<>>, Tail(Onnx)}
      /\ d.todo = Onnx => Head(d.todo) = Onnx[1]
  BY <1>1, NameFacts DEF OnnxNames
<1> QED
  BY <1>2, <1>3

\* The next file is there already, or cannot be had and is left out.
LEMMA SkipKeeps ==
  ASSUME FilesInv, NEW p \in Processes,
         \/ SkipCached(p)
         \/ GetFails(p) /\ download[p].kind = "lenient"
  PROVE  FilesInv'
<1>0. PICK d : d = download[p]
  OBVIOUS
<1> DEFINE new == [d EXCEPT !.todo = Tail(d.todo)]
<1>1. /\ d.kind \in {"strict", "lenient"} /\ d.name = "none" /\ d.todo # <<>>
      /\ download' = [download EXCEPT ![p] = new]
      /\ UNCHANGED <<files, shared>>
      /\ d.kind = "strict" => Exists(Head(d.todo))
  BY <1>0 DEF SkipCached, GetFails, AtFile
<1>2. outcome'.ok = FALSE
  BY OutcomeFacts DEF SkipCached, GetFails
<1>3. d \in DownloadType /\ HasWhatItWrote(d)
  BY <1>0 DEF FilesInv, FilesTypes
<1>4. /\ d.written \in 0..Blocks /\ d.todo \in {<<>>, Onnx, Tail(Onnx)}
      /\ d = [name |-> d.name, kind |-> d.kind, written |-> d.written,
              known |-> d.known, todo |-> d.todo]
  BY <1>1, <1>3, DownloadFacts
<1>5. new = [d EXCEPT !.name = d.name, !.written = d.written, !.todo = Tail(d.todo)]
  BY <1>4
<1>6. new \in DownloadType
  <2>1. /\ Tail(d.todo) \in {<<>>, Tail(Onnx)}
        /\ \A name \in OnnxNames \cup {"none"}, written \in 0..Blocks, todo \in {<<>>, Onnx, Tail(Onnx)} :
             [d EXCEPT !.name = name, !.written = written, !.todo = todo] \in DownloadType
    BY <1>1, <1>3, NextFile
  <2>2. d.name \in OnnxNames \cup {"none"} /\ Tail(d.todo) \in {<<>>, Onnx, Tail(Onnx)}
    BY <1>1, <2>1
  <2>3. [d EXCEPT !.name = d.name, !.written = d.written, !.todo = Tail(d.todo)] \in DownloadType
    BY <1>4, <2>1, <2>2
  <2> QED
    BY <1>5, <2>3
<1>7. new.kind = d.kind /\ new.name = "none"
  BY <1>1, <1>4
<1>8. d.kind = "strict" => Exists(Onnx[1])
  BY <1>1, <1>3, NextFile DEF HasWhatItWrote
<1> HIDE DEF new
<1>9. HasWhatItWrote(new)
  BY <1>1, <1>7, <1>8 DEF HasWhatItWrote
<1> QED
  BY <1>1, <1>2, <1>6, <1>7, <1>9, OnnxMoves

\* A strict download gives up with the first file that cannot be had.
LEMMA GiveUpKeeps ==
  ASSUME FilesInv, NEW p \in Processes, GetFails(p), download[p].kind = "strict"
  PROVE  FilesInv'
<1>1. download' = [download EXCEPT ![p] = Idle] /\ UNCHANGED <<files, shared>>
  BY DEF GetFails
<1>2. outcome'.ok = FALSE
  BY DEF GetFails, Ended
<1> QED
  BY <1>1, <1>2, IdleKeeps, NoSuccess

\* A copy creates its file.
LEMMA StartCopyKeeps ==
  ASSUME FilesInv, NEW p \in Processes, StartCopy(p)
  PROVE  FilesInv'
<1>0. PICK d : d = download[p]
  OBVIOUS
<1> DEFINE name == Head(d.todo)
           new == [d EXCEPT !.name = name, !.written = 0]
<1>1. /\ d.kind \in {"strict", "lenient"} /\ d.name = "none" /\ d.todo # <<>>
      /\ download' = [download EXCEPT ![p] = new]
      /\ files' = [files EXCEPT ![name] = <<>>]
      /\ shared' = SharedAfterCreating(p, name)
  BY <1>0 DEF StartCopy, AtFile
<1>2. outcome'.ok = FALSE
  BY OutcomeFacts DEF StartCopy
<1>3. d \in DownloadType /\ HasWhatItWrote(d)
  BY <1>0 DEF FilesInv, FilesTypes
<1>4. /\ d.todo \in {<<>>, Onnx, Tail(Onnx)}
      /\ d = [name |-> d.name, kind |-> d.kind, written |-> d.written,
              known |-> d.known, todo |-> d.todo]
  BY <1>1, <1>3, DownloadFacts
<1>5. /\ name \in OnnxNames /\ name \in Names /\ name # Gguf /\ name # "none"
      /\ 0 \in 0..Blocks
  <2>1. name \in OnnxNames
    BY <1>1, <1>3, NextFile
  <2>2. name \in Names /\ name # Gguf /\ name # "none"
    BY <2>1, NameFacts
  <2> QED
    BY <2>1, <2>2, FilesAssumption
<1> HIDE DEF name
<1>6. new = [d EXCEPT !.name = name, !.written = 0, !.todo = d.todo]
  BY <1>4
<1>7. new \in DownloadType
  <2>1. \A other \in OnnxNames \cup {"none"}, written \in 0..Blocks, todo \in {<<>>, Onnx, Tail(Onnx)} :
          [d EXCEPT !.name = other, !.written = written, !.todo = todo] \in DownloadType
    BY <1>1, <1>3, NextFile
  <2>2. [d EXCEPT !.name = name, !.written = 0, !.todo = d.todo] \in DownloadType
    BY <1>4, <1>5, <2>1
  <2> QED
    BY <1>6, <2>2
<1>8. new.kind = d.kind /\ new.name = name /\ new.todo = d.todo
  BY <1>4
<1>9. /\ files' \in [Names -> FileType]
      /\ Exists(name)'
      /\ files'[Gguf] = files[Gguf]
      /\ \A other \in Names : Exists(other) => Exists(other)'
  BY <1>1, <1>5, FileWritten, InPlaceExists, NameFacts DEF FilesInv
<1>10. Gguf \in shared => Gguf \in shared'
  BY <1>1, <1>5 DEF SharedAfterCreating
<1>11. d.kind = "strict" /\ d.todo # Onnx => Exists(Onnx[1])'
  BY <1>3, <1>9, NameFacts DEF HasWhatItWrote
<1> HIDE DEF new
<1>12. HasWhatItWrote(new)'
  BY <1>1, <1>5, <1>8, <1>9, <1>11 DEF HasWhatItWrote, name
<1>13. new.kind # "gguf"
  BY <1>1, <1>8
<1> QED
  BY <1>1, <1>2, <1>7, <1>9, <1>10, <1>12, <1>13, OnnxStepKeeps, NoSuccess

\* A copy writes its next block.
LEMMA CopyBlockKeeps ==
  ASSUME FilesInv, NEW p \in Processes, CopyBlock(p)
  PROVE  FilesInv'
<1>0. PICK d : d = download[p]
  OBVIOUS
<1> DEFINE new == [d EXCEPT !.written = d.written + 1]
<1>1. /\ d.kind \in {"strict", "lenient"} /\ d.name # "none" /\ d.written < Blocks
      /\ download' = [download EXCEPT ![p] = new]
      /\ files' = [files EXCEPT ![d.name] = WithBlock(files[d.name], d.written + 1)]
      /\ shared' = shared
  BY <1>0 DEF CopyBlock, Copying
<1>2. outcome'.ok = FALSE
  BY OutcomeFacts DEF CopyBlock
<1>3. d \in DownloadType /\ HasWhatItWrote(d)
  BY <1>0 DEF FilesInv, FilesTypes
<1>4. /\ d.name \in OnnxNames \cup {"none"} /\ d.written \in 0..Blocks
      /\ d.todo \in {<<>>, Onnx, Tail(Onnx)} /\ d.todo # <<>>
      /\ d = [name |-> d.name, kind |-> d.kind, written |-> d.written,
              known |-> d.known, todo |-> d.todo]
      /\ Exists(d.name)
  BY <1>1, <1>3, DownloadFacts DEF HasWhatItWrote
<1>5. d.name \in OnnxNames /\ d.name \in Names /\ d.name # Gguf
  BY <1>1, <1>4, NameFacts
<1>6. d.written + 1 \in 0..Blocks /\ d.written + 1 \in 1..Blocks
  BY <1>1, <1>4, FilesAssumption
<1>7. new \in DownloadType
  <2>1. new = [d EXCEPT !.name = d.name, !.written = d.written + 1, !.todo = d.todo]
    BY <1>4
  <2>2. \A name \in OnnxNames \cup {"none"}, written \in 0..Blocks, todo \in {<<>>, Onnx, Tail(Onnx)} :
          [d EXCEPT !.name = name, !.written = written, !.todo = todo] \in DownloadType
    BY <1>1, <1>3, <1>4, NextFile
  <2>3. [d EXCEPT !.name = d.name, !.written = d.written + 1, !.todo = d.todo] \in DownloadType
    BY <1>4, <1>6, <2>2
  <2> QED
    BY <2>1, <2>3
<1>8. new.kind = d.kind /\ new.name = d.name /\ new.todo = d.todo
  BY <1>4
<1>9. InPlace(files[d.name])
  BY <1>4, <1>5 DEF FilesInv, FilesTypes, FileType, Exists
<1>10. InPlace(WithBlock(files[d.name], d.written + 1))
  BY <1>6, <1>9, WithBlockFacts
<1>11. /\ files' \in [Names -> FileType]
       /\ Exists(d.name)'
       /\ files'[Gguf] = files[Gguf]
       /\ \A other \in Names : Exists(other) => Exists(other)'
  <2>1. PICK content : content = WithBlock(files[d.name], d.written + 1)
    OBVIOUS
  <2>2. /\ FilesTypes /\ InPlace(content) /\ d.name \in Names
        /\ files' = [files EXCEPT ![d.name] = content]
    BY <1>1, <1>5, <1>10, <2>1 DEF FilesInv
  <2>3. /\ files' \in [Names -> FileType] /\ Exists(d.name)'
        /\ \A other \in Names \ {d.name} : files'[other] = files[other]
        /\ \A other \in Names : Exists(other) => Exists(other)'
    BY ONLY <2>2, FileWritten
  <2> QED
    BY <1>5, <2>3, NameFacts
<1> HIDE DEF new
<1>12. HasWhatItWrote(new)'
  <2>1. d.kind = "strict" /\ d.todo # Onnx => Exists(Onnx[1])'
    BY <1>3, <1>11, NameFacts DEF HasWhatItWrote
  <2> QED
    BY <1>1, <1>3, <1>8, <1>11, <2>1 DEF HasWhatItWrote
<1>13. new.kind # "gguf"
  BY <1>1, <1>8
<1> QED
  BY <1>1, <1>2, <1>7, <1>11, <1>12, <1>13, OnnxStepKeeps, NoSuccess

\* A copy ends: its file is there, and the next one is up.
LEMMA EndCopyKeeps ==
  ASSUME FilesInv, NEW p \in Processes, EndCopy(p)
  PROVE  FilesInv'
<1>0. PICK d : d = download[p]
  OBVIOUS
<1> DEFINE new == [d EXCEPT !.name = "none", !.todo = Tail(d.todo)]
<1>1. /\ d.kind \in {"strict", "lenient"} /\ d.name # "none"
      /\ download' = [download EXCEPT ![p] = new]
      /\ UNCHANGED <<files, shared>>
  BY <1>0 DEF EndCopy, Copying
<1>2. outcome'.ok = FALSE
  BY OutcomeFacts DEF EndCopy
<1>3. d \in DownloadType /\ HasWhatItWrote(d)
  BY <1>0 DEF FilesInv, FilesTypes
<1>4. /\ d.written \in 0..Blocks /\ d.todo # <<>> /\ d.name = Head(d.todo) /\ Exists(d.name)
      /\ d = [name |-> d.name, kind |-> d.kind, written |-> d.written,
              known |-> d.known, todo |-> d.todo]
  BY <1>1, <1>3, DownloadFacts DEF HasWhatItWrote
<1>5. /\ Tail(d.todo) \in {<<>>, Tail(Onnx)}
      /\ d.todo = Onnx => Head(d.todo) = Onnx[1]
      /\ \A name \in OnnxNames \cup {"none"}, written \in 0..Blocks, todo \in {<<>>, Onnx, Tail(Onnx)} :
           [d EXCEPT !.name = name, !.written = written, !.todo = todo] \in DownloadType
  BY <1>1, <1>3, <1>4, NextFile
<1>6. new \in DownloadType
  <2>1. new = [d EXCEPT !.name = "none", !.written = d.written, !.todo = Tail(d.todo)]
    BY <1>4
  <2>2. "none" \in OnnxNames \cup {"none"} /\ Tail(d.todo) \in {<<>>, Onnx, Tail(Onnx)}
    BY <1>5
  <2>3. [d EXCEPT !.name = "none", !.written = d.written, !.todo = Tail(d.todo)] \in DownloadType
    BY <1>4, <1>5, <2>2
  <2> QED
    BY <2>1, <2>3
<1>7. new.kind = d.kind /\ new.name = "none"
  BY <1>4
<1>8. d.kind = "strict" => Exists(Onnx[1])
  BY <1>3, <1>4, <1>5 DEF HasWhatItWrote
<1> HIDE DEF new
<1>9. HasWhatItWrote(new)
  BY <1>1, <1>7, <1>8 DEF HasWhatItWrote
<1> QED
  BY <1>1, <1>2, <1>6, <1>7, <1>9, OnnxMoves

\* The directory is returned: with the model, or not as a success.
LEMMA EndOnnxKeeps ==
  ASSUME FilesInv, NEW p \in Processes, EndOnnx(p)
  PROVE  FilesInv'
<1>1. /\ download[p].kind \in {"strict", "lenient"} /\ download[p].todo = <<>>
      /\ outcome' = Ended(p, download[p].kind = "strict" \/ Exists(Onnx[1]), TRUE)
      /\ download' = [download EXCEPT ![p] = Idle]
      /\ UNCHANGED <<files, shared>>
  BY DEF EndOnnx
<1>2. Kept
  BY <1>1, IdleKeeps
<1>3. /\ outcome'.kind = download[p].kind
      /\ outcome'.ok = (download[p].kind = "strict" \/ Exists(Onnx[1]))
  BY <1>1 DEF Ended
<1>4. download[p].kind = "strict" => Exists(Onnx[1])
  BY <1>1, NameFacts DEF FilesInv, HasWhatItWrote
<1>5. ReturnedDirHasModel'
  BY <1>1, <1>3, <1>4 DEF ReturnedDirHasModel, Exists
<1>6. ReturnedFileIsWhole'
  BY <1>1, <1>3 DEF ReturnedFileIsWhole
<1> QED
  BY <1>2, <1>5, <1>6 DEF Kept, FilesInv

LEMMA FilesInvInit == FilesInit => FilesInv
<1> SUFFICES ASSUME FilesInit PROVE FilesInv
  OBVIOUS
<1>1. /\ files \in [Names -> {NoFile, WholeFile}]
      /\ download = [p \in Processes |-> Idle]
      /\ outcome = NoOutcome
  BY DEF FilesInit
<1>2. WholeFile \in FileType
  BY InPlaceExists DEF FileType, InPlace
<1>3. Idle \in DownloadType /\ HasWhatItWrote(Idle) /\ Idle.kind = "none"
  BY DEF DownloadType, Idle, HasWhatItWrote
<1>4. FilesTypes /\ \A p \in Processes : HasWhatItWrote(download[p])
  BY <1>1, <1>2, <1>3 DEF FilesTypes, FileType
<1>5. AloneInFile
  BY <1>1, <1>3 DEF AloneInFile
<1>6. outcome.ok = FALSE
  BY <1>1 DEF NoOutcome
<1> QED
  BY <1>4, <1>5, <1>6 DEF FilesInv, ReturnedFileIsWhole, ReturnedDirHasModel

LEMMA FilesInvStep == FilesInv /\ [FilesNext]_filesVars => FilesInv'
<1> SUFFICES ASSUME FilesInv, [FilesNext]_filesVars PROVE FilesInv'
  OBVIOUS
<1>1. CASE UNCHANGED filesVars
  BY <1>1
  DEF filesVars, FilesInv, FilesTypes, HasWhatItWrote, AloneInFile, ReturnedFileIsWhole,
      ReturnedDirHasModel, Exists, Whole
<1>2. ASSUME NEW p \in Processes, GetFails(p) PROVE FilesInv'
  BY <1>2, SkipKeeps, GiveUpKeeps DEF GetFails, AtFile
<1> QED
  BY <1>1, <1>2, LooksKeep, RequestKeeps, WriteBlockKeeps, StopKeeps, CompleteKeeps,
     StartOnnxKeeps, SkipKeeps, StartCopyKeeps, CopyBlockKeeps, EndCopyKeeps, EndOnnxKeeps
  DEF FilesNext

\* The invariant says what is on the disk.
LEMMA FilesInvIsWhole ==
  FilesInv => ReturnedFileIsWhole /\ OnlyBlocksInPlace /\ ReturnedDirHasModel
<1> SUFFICES ASSUME FilesInv PROVE OnlyBlocksInPlace
  BY DEF FilesInv
<1> SUFFICES ASSUME NEW name \in Names, Exists(name)
             PROVE  /\ Len(files[name]) <= Blocks
                    /\ \A i \in DOMAIN files[name] : files[name][i] \in {0, i}
  BY DEF OnlyBlocksInPlace
<1>1. InPlace(files[name])
  BY DEF FilesInv, FilesTypes, FileType, Exists
<1>2. DOMAIN files[name] = 1..Len(files[name])
  BY <1>1 DEF InPlace
<1> QED
  BY <1>1, <1>2 DEF InPlace

\* Only a process at a file it has to get is fetching one.
Fetchers == fetching \subseteq Processes /\ \A p \in fetching : AtFile(p)

LEMMA FetchersInit == FilesInit => Fetchers
BY DEF FilesInit, Fetchers

\* A process that is not at a file, or has just been refused, fetches none.
LEMMA NotFetching ==
  ASSUME Fetchers, NEW p \in Processes
  PROVE  /\ download[p].kind \notin {"strict", "lenient"} => p \notin fetching
         /\ download[p].name # "none" => p \notin fetching
         /\ download[p].todo = <<>> => p \notin fetching
BY DEF Fetchers, AtFile

\* What a step may do to who fetches: one process finds a file missing, or
\* the process that moves does not fetch afterwards, or nothing moves.
LEMMA StepFetches ==
  ASSUME FilesInv, Fetchers, NEW p \in Processes,
         \/ RequestFails(p) \/ Request(p) \/ WriteBlock(p) \/ TransferFails(p) \/ Complete(p)
         \/ StartOnnx(p) \/ SkipCached(p) \/ FindMissing(p) \/ GetFails(p)
         \/ StartCopy(p) \/ CopyBlock(p) \/ EndCopy(p) \/ CopyFails(p) \/ EndOnnx(p)
         \/ Dies(p)
  PROVE  /\ \A q \in Processes \ {p} : download'[q] = download[q]
         /\ \/ UNCHANGED <<download, fetching>>
            \/ FindMissing(p) /\ fetching' = fetching \cup {p}
            \/ fetching' = fetching \ {p}
<1>1. download \in [Processes -> DownloadType]
  BY DEF FilesInv, FilesTypes
<1>2. CASE RequestFails(p) \/ FindMissing(p)
  BY <1>2 DEF RequestFails, FindMissing
<1>3. CASE Request(p) \/ StartOnnx(p)
  <2>1. download[p].kind = "none"
    <3>1. download[p] = Idle
      BY <1>3 DEF Request, StartOnnx, CanStart
    <3>2. Idle.kind = "none"
      BY DEF Idle
    <3> QED
      BY <3>1, <3>2
  <2>2. p \notin fetching
    BY <2>1, NotFetching
  <2>3. \A q \in Processes \ {p} : download'[q] = download[q]
    BY <1>1, <1>3 DEF Request, StartOnnx
  <2> QED
    BY <1>3, <2>2, <2>3 DEF Request, StartOnnx
<1>4. CASE WriteBlock(p) \/ TransferFails(p) \/ Complete(p)
  <2>1. download[p].kind = "gguf"
    BY <1>4 DEF WriteBlock, TransferFails, Complete
  <2>2. p \notin fetching
    BY <2>1, NotFetching
  <2>3. \A q \in Processes \ {p} : download'[q] = download[q]
    BY <1>1, <1>4 DEF WriteBlock, TransferFails, Complete
  <2> QED
    BY <1>4, <2>2, <2>3 DEF WriteBlock, TransferFails, Complete
<1>5. CASE CopyBlock(p) \/ EndCopy(p) \/ CopyFails(p) \/ EndOnnx(p)
  <2>1. download[p].name # "none" \/ download[p].todo = <<>>
    BY <1>5 DEF CopyBlock, EndCopy, CopyFails, EndOnnx, Copying
  <2>2. p \notin fetching
    BY <2>1, NotFetching
  <2>3. \A q \in Processes \ {p} : download'[q] = download[q]
    BY <1>1, <1>5 DEF CopyBlock, EndCopy, CopyFails, EndOnnx
  <2> QED
    BY <1>5, <2>2, <2>3 DEF CopyBlock, EndCopy, CopyFails, EndOnnx
<1>6. CASE SkipCached(p)
  BY <1>1, <1>6 DEF SkipCached
<1>7. CASE GetFails(p) \/ StartCopy(p) \/ Dies(p)
  BY <1>1, <1>7 DEF GetFails, StartCopy, Dies
<1> QED
  BY <1>2, <1>3, <1>4, <1>5, <1>6, <1>7

LEMMA FetchersStep == FilesInv /\ Fetchers /\ [FilesNext]_filesVars => Fetchers'
<1> SUFFICES ASSUME FilesInv, Fetchers, [FilesNext]_filesVars PROVE Fetchers'
  OBVIOUS
<1>1. CASE UNCHANGED filesVars
  BY <1>1 DEF filesVars, Fetchers, AtFile
<1>2. CASE FilesNext
  <2>1. PICK p \in Processes :
          /\ \A q \in Processes \ {p} : download'[q] = download[q]
          /\ \/ UNCHANGED <<download, fetching>>
             \/ FindMissing(p) /\ fetching' = fetching \cup {p}
             \/ fetching' = fetching \ {p}
    BY <1>2, StepFetches DEF FilesNext
  <2>2. FindMissing(p) => AtFile(p) /\ download' = download
    BY DEF FindMissing
  <2> QED
    BY <2>1, <2>2 DEF Fetchers, AtFile
<1> QED
  BY <1>1, <1>2

\* A process is after the file: it writes it, or has found it missing.
WantedBy(p, name) ==
  \/ download[p].name = name
  \/ p \in fetching /\ Head(download[p].todo) = name

\* The process that moves is after no ONNX file that it was not after before,
\* except one that it finds missing.
LEMMA StepWants ==
  ASSUME FilesInv, Fetchers, NEW p \in Processes,
         \/ RequestFails(p) \/ Request(p) \/ WriteBlock(p) \/ TransferFails(p) \/ Complete(p)
         \/ StartOnnx(p) \/ SkipCached(p) \/ FindMissing(p) \/ GetFails(p)
         \/ StartCopy(p) \/ CopyBlock(p) \/ EndCopy(p) \/ CopyFails(p) \/ EndOnnx(p)
         \/ Dies(p),
         NEW name \in OnnxNames, Wanted(name)'
  PROVE  Wanted(name) \/ ~Exists(name)
<1>0. PICK d : d = download[p]
  OBVIOUS
<1>1. /\ download \in [Processes -> DownloadType]
      /\ d \in DownloadType
      /\ name # Gguf /\ name # "none"
  BY <1>0, NameFacts DEF FilesInv, FilesTypes
<1>2. PICK q \in Processes : WantedBy(q, name)'
  BY DEF Wanted, WantedBy
<1>3. CASE q # p
  <2>1. download'[q] = download[q]
    BY <1>3, StepFetches
  <2>2. q \in fetching' => q \in fetching
    BY <1>3, StepFetches
  <2>3. WantedBy(q, name)
    BY <1>2, <2>1, <2>2 DEF WantedBy
  <2> QED
    BY <2>3 DEF Wanted, WantedBy
<1>4. CASE q = p
  <2>1. \/ download'[p].name = name
        \/ p \in fetching' /\ Head(download'[p].todo) = name
    BY <1>2, <1>4 DEF WantedBy
  <2>2. \/ UNCHANGED <<download, fetching>>
        \/ FindMissing(p) /\ fetching' = fetching \cup {p}
        \/ fetching' = fetching \ {p}
    BY StepFetches
  <2>3. CASE UNCHANGED <<download, fetching>>
    BY <2>1, <2>3 DEF Wanted
  <2>4. CASE FindMissing(p)
    BY <2>1, <2>4 DEF Wanted, FindMissing
  <2>5. CASE fetching' = fetching \ {p} /\ ~FindMissing(p)
    <3>1. download'[p].name = name
      BY <2>1, <2>5
    <3>2. download[p].name = name \/ StartCopy(p)
      <4>1. PICK e : e = download'[p]
        OBVIOUS
      <4>2. CASE Request(p) \/ StartOnnx(p)
        <5>1. ASSUME NEW known \in BOOLEAN,
                     download' = [download EXCEPT ![p] = [Idle EXCEPT !.name = Gguf, !.kind = "gguf", !.known = known]]
              PROVE  e.name = Gguf
          BY <1>1, <4>1, <5>1 DEF Idle
        <5>2. ASSUME NEW kind \in {"strict", "lenient"},
                     download' = [download EXCEPT ![p] = [Idle EXCEPT !.kind = kind, !.todo = Onnx]]
              PROVE  e.name = "none"
          BY <1>1, <4>1, <5>2 DEF Idle
        <5> QED
          BY <1>1, <3>1, <4>1, <4>2, <5>1, <5>2 DEF Request, StartOnnx
      <4>3. CASE RequestFails(p)
        BY <3>1, <4>3 DEF RequestFails
      <4>4. CASE \/ TransferFails(p) \/ Complete(p) \/ CopyFails(p) \/ EndOnnx(p) \/ Dies(p)
                 \/ (GetFails(p) /\ d.kind = "strict")
        <5>1. download' = [download EXCEPT ![p] = Idle]
          BY <1>0, <4>4 DEF TransferFails, Complete, CopyFails, EndOnnx, Dies, GetFails
        <5>2. e.name = "none"
          BY <1>1, <4>1, <5>1 DEF Idle
        <5> QED
          BY <1>1, <3>1, <4>1, <5>2
      <4>5. CASE WriteBlock(p) \/ CopyBlock(p)
        <5>1. download' = [download EXCEPT ![p].written = @ + 1]
          BY <4>5 DEF WriteBlock, CopyBlock
        <5>2. d.kind \in {"gguf", "strict", "lenient"}
          BY <1>0, <4>5 DEF WriteBlock, CopyBlock, Copying
        <5>3. d = [name |-> d.name, kind |-> d.kind, written |-> d.written,
                   known |-> d.known, todo |-> d.todo]
          BY <1>1, <5>2, DownloadFacts
        <5>4. download'[p] = [d EXCEPT !.written = d.written + 1]
          BY <1>0, <1>1, <5>1
        <5>5. download'[p].name = d.name
          BY <5>3, <5>4
        <5> QED
          BY <1>0, <3>1, <5>5
      <4>6. CASE SkipCached(p) \/ (GetFails(p) /\ d.kind = "lenient")
        <5>1. download' = [download EXCEPT ![p].todo = Tail(@)]
          BY <1>0, <4>6 DEF SkipCached, GetFails
        <5>2. d.kind \in {"strict", "lenient"}
          BY <1>0, <4>6 DEF SkipCached, GetFails, AtFile
        <5>3. d = [name |-> d.name, kind |-> d.kind, written |-> d.written,
                   known |-> d.known, todo |-> d.todo]
          BY <1>1, <5>2, DownloadFacts
        <5>4. download'[p] = [d EXCEPT !.todo = Tail(d.todo)]
          BY <1>0, <1>1, <5>1
        <5>5. download'[p].name = d.name
          BY <5>3, <5>4
        <5> QED
          BY <1>0, <3>1, <5>5
      <4>7. CASE EndCopy(p)
        <5>1. download' = [download EXCEPT ![p].name = "none", ![p].todo = Tail(@)]
          BY <4>7 DEF EndCopy
        <5>2. d.kind \in {"strict", "lenient"}
          BY <1>0, <4>7 DEF EndCopy, Copying
        <5>3. d = [name |-> d.name, kind |-> d.kind, written |-> d.written,
                   known |-> d.known, todo |-> d.todo]
          BY <1>1, <5>2, DownloadFacts
        <5>4. download'[p] = [d EXCEPT !.name = "none", !.todo = Tail(d.todo)]
          BY <1>0, <1>1, <5>1
        <5>5. download'[p].name = "none"
          BY <5>3, <5>4
        <5> QED
          BY <1>1, <3>1, <5>5
      <4>8. GetFails(p) => d.kind \in {"strict", "lenient"}
        BY <1>0 DEF GetFails, AtFile
      <4>9. CASE GetFails(p)
        BY <4>4, <4>6, <4>8, <4>9
      <4> QED
        BY <2>5, <4>2, <4>3, <4>4, <4>5, <4>6, <4>7, <4>9
    <3>3. CASE StartCopy(p)
      <4>1. /\ d.kind \in {"strict", "lenient"} /\ p \in fetching
            /\ download' = [download EXCEPT ![p].name = Head(d.todo), ![p].written = 0]
        BY <1>0, <3>3 DEF StartCopy, AtFile
      <4>2. d = [name |-> d.name, kind |-> d.kind, written |-> d.written,
                 known |-> d.known, todo |-> d.todo]
        BY <1>1, <4>1, DownloadFacts
      <4>3. download'[p] = [d EXCEPT !.name = Head(d.todo), !.written = 0]
        BY <1>0, <1>1, <4>1
      <4>4. Head(d.todo) = name
        BY <3>1, <4>2, <4>3
      <4> QED
        BY <1>0, <4>1, <4>4 DEF Wanted
    <3> QED
      BY <3>2, <3>3 DEF Wanted
  <2> QED
    BY <2>2, <2>3, <2>4, <2>5
<1> QED
  BY <1>3, <1>4

\* Which files a step may change: the GGUF file, with a process that is at it
\* afterwards, or one of an ONNX model that a process is after.
LEMMA StepWrites ==
  ASSUME FilesInv, NEW p \in Processes,
         Request(p) \/ WriteBlock(p) \/ StartCopy(p) \/ CopyBlock(p)
  PROVE  \/ /\ \A name \in OnnxNames : files'[name] = files[name]
            /\ download'[p].name = Gguf
         \/ \E name \in OnnxNames :
              /\ Wanted(name)
              /\ \A other \in Names \ {name} : files'[other] = files[other]
<1>0. PICK d : d = download[p]
  OBVIOUS
<1>1. /\ d \in DownloadType /\ HasWhatItWrote(d)
      /\ download \in [Processes -> DownloadType]
      /\ files \in [Names -> FileType]
  BY <1>0 DEF FilesInv, FilesTypes
<1>2. CASE Request(p)
  <2>1. PICK known \in BOOLEAN :
          download' = [download EXCEPT ![p] = [Idle EXCEPT !.name = Gguf, !.kind = "gguf", !.known = known]]
    BY <1>2 DEF Request
  <2>2. PICK new : new = [Idle EXCEPT !.name = Gguf, !.kind = "gguf", !.known = known]
    OBVIOUS
  <2>3. new.name = Gguf
    BY <2>2, DownloadsBegin
  <2>4. download'[p].name = Gguf
    BY <1>1, <2>1, <2>2, <2>3
  <2>5. \A name \in OnnxNames : files'[name] = files[name]
    BY <1>1, <1>2, NameFacts DEF Request
  <2> QED
    BY <2>4, <2>5
<1>3. CASE WriteBlock(p)
  <2>1. d.kind = "gguf" /\ d.name = Gguf
    BY <1>0, <1>1, <1>3, DownloadFacts DEF WriteBlock
  <2>2. d = [name |-> Gguf, kind |-> "gguf", written |-> d.written,
             known |-> d.known, todo |-> <<>>]
    BY <1>1, <2>1, DownloadFacts
  <2>3. download' = [download EXCEPT ![p] = [d EXCEPT !.written = d.written + 1]]
    BY <1>0, <1>3 DEF WriteBlock
  <2>4. download'[p].name = Gguf
    BY <1>1, <2>2, <2>3
  <2>5. \A name \in OnnxNames : files'[name] = files[name]
    BY <1>1, <1>3, NameFacts DEF WriteBlock
  <2> QED
    BY <2>4, <2>5
<1>4. CASE StartCopy(p)
  <2> DEFINE name == Head(d.todo)
  <2>1. /\ d.kind \in {"strict", "lenient"} /\ d.todo # <<>>
        /\ p \in fetching /\ files' = [files EXCEPT ![name] = <<>>]
    BY <1>0, <1>4 DEF StartCopy, AtFile
  <2>2. name \in OnnxNames /\ name \in Names
    BY <1>1, <2>1, NextFile, NameFacts
  <2>3. Wanted(name)
    BY <1>0, <2>1 DEF Wanted
  <2> HIDE DEF name
  <2>4. \A other \in Names \ {name} : files'[other] = files[other]
    BY <1>1, <2>1
  <2> QED
    BY <2>2, <2>3, <2>4
<1>5. CASE CopyBlock(p)
  <2>1. /\ d.kind \in {"strict", "lenient"} /\ d.name # "none"
        /\ files' = [files EXCEPT ![d.name] = WithBlock(files[d.name], d.written + 1)]
    BY <1>0, <1>5 DEF CopyBlock, Copying
  <2>2. d.name \in OnnxNames /\ Wanted(d.name)
    BY <1>0, <1>1, <2>1, DownloadFacts DEF Wanted
  <2>3. \A other \in Names \ {d.name} : files'[other] = files[other]
    BY <1>1, <2>1
  <2> QED
    BY <2>2, <2>3
<1> QED
  BY <1>2, <1>3, <1>4, <1>5

\* A step leaves a cached file alone that nobody is after, and a good GGUF file
\* until the server has answered.
LEMMA StepKeepsGoodFiles ==
  FilesInv /\ Fetchers /\ [FilesNext]_filesVars => [CachedFileStays /\ GoodCopySurvivesRefusal]_filesVars
<1> SUFFICES ASSUME FilesInv, Fetchers, FilesNext
             PROVE  CachedFileStays /\ GoodCopySurvivesRefusal
  OBVIOUS
<1>1. OnnxNames = ToSet(Onnx) /\ OnnxNames \subseteq Names /\ Gguf \in Names /\ Gguf \notin OnnxNames
  BY NameFacts
<1>2. ASSUME NEW name \in OnnxNames, Whole(name), ~Wanted(name)
      PROVE  ~Wanted(name)'
  <2>1. Exists(name)
    BY <1>2, InPlaceExists DEF Whole, Exists
  <2> QED
    BY <1>2, <2>1, StepWants DEF FilesNext
<1>3. ASSUME UNCHANGED files
      PROVE  CachedFileStays /\ GoodCopySurvivesRefusal
  BY <1>1, <1>2, <1>3 DEF CachedFileStays, GoodCopySurvivesRefusal, Whole
<1>4. ASSUME NEW p \in Processes,
             Request(p) \/ WriteBlock(p) \/ StartCopy(p) \/ CopyBlock(p)
      PROVE  CachedFileStays /\ GoodCopySurvivesRefusal
  <2>1. CASE /\ \A name \in OnnxNames : files'[name] = files[name]
             /\ download'[p].name = Gguf
    BY <1>1, <1>2, <2>1 DEF CachedFileStays, GoodCopySurvivesRefusal, Whole
  <2>2. ASSUME NEW name \in OnnxNames,
               Wanted(name),
               \A other \in Names \ {name} : files'[other] = files[other]
        PROVE  CachedFileStays /\ GoodCopySurvivesRefusal
    <3>1. files'[Gguf] = files[Gguf]
      BY <1>1, <2>2
    <3>2. \A other \in OnnxNames : ~Wanted(other) => files'[other] = files[other]
      BY <1>1, <2>2
    <3> QED
      BY <1>1, <1>2, <3>1, <3>2 DEF CachedFileStays, GoodCopySurvivesRefusal, Whole
  <2> QED
    BY <1>4, <2>1, <2>2, StepWrites
<1> QED
  BY <1>3, <1>4
  DEF FilesNext, RequestFails, TransferFails, Complete, StartOnnx, SkipCached, FindMissing,
      GetFails, EndCopy, CopyFails, EndOnnx, Dies

\* Wherever downloads fail, die or meet one another, a GGUF file that one process
\* alone fetched to its known length is whole, the directory of an ONNX model that
\* was returned has the model, no file mixes up blocks, and one that was good is
\* neither fetched again, by a process that did not find it missing before it
\* was there, nor given up for a request that was refused.
THEOREM DownloadsAreAlwaysWhole == PersistenceSpec => DownloadsAreWhole
<1>1. PersistenceInit => FilesInit
  BY DEF PersistenceInit
<1>2. [PersistenceNext]_<<dbVars, filesVars, part>> => [FilesNext]_filesVars
  BY DEF PersistenceNext
<1>3. PersistenceSpec => []FilesInv
  BY <1>1, <1>2, FilesInvInit, FilesInvStep, PTL DEF PersistenceSpec
<1>4. PersistenceSpec => []Fetchers
  BY <1>1, <1>2, <1>3, FetchersInit, FetchersStep, PTL DEF PersistenceSpec
<1>5. PersistenceSpec => [][CachedFileStays /\ GoodCopySurvivesRefusal]_filesVars
  BY <1>2, <1>3, <1>4, StepKeepsGoodFiles, PTL DEF PersistenceSpec
<1> QED
  BY <1>3, <1>5, FilesInvIsWhole, PTL DEF DownloadsAreWhole
=============================================================================
