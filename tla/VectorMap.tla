----------------------------- MODULE VectorMap ------------------------------
(***************************************************************************)
(* What the VectorStore trait of chatvcode-vdb promises: a map from chunk  *)
(* ids to vectors of one dimension, with upsert, removal, lookup, ranked   *)
(* search, which never panics, and persistence. InMemoryVectorStore and    *)
(* CompactVectorStore are checked to implement it.                         *)
(*                                                                         *)
(* Every method takes &mut self or &self, so calls do not overlap; only    *)
(* add is more than one step, as it stores the vectors of its batch one by *)
(* one and may stop at a bad one.                                          *)
(***************************************************************************)
EXTENDS Integers, Sequences, FiniteSets

CONSTANTS
  Ids,          \* chunk ids
  Absent,       \* what find returns for an unknown id
  Batches,      \* the arguments of add: sequences of vectors
  Queries,      \* the arguments of search: [data, top_k, min_score]
  Score(_, _)   \* cosine_similarity, of which only the order matters

VARIABLES
  content,      \* the data stored for each id
  dimension,    \* the dimension of the store, 0 until the first vector
  left,         \* what add has still to store of its batch
  answer,       \* what the last call returned
  file          \* what the last save wrote

vars == <<content, dimension, left, answer, file>>

Answer(kind, count, data, ids) ==
  [kind |-> kind, count |-> count, data |-> data, ids |-> ids]
Ok == Answer("ok", 0, <<>>, <<>>)
Err == Answer("err", 0, <<>>, <<>>)
Busy == Answer("busy", 0, <<>>, <<>>)
Idle == answer # Busy

Stored == {id \in Ids : content[id] # Absent}
NoFile == [readable |-> FALSE, dimension |-> 0, content |-> [id \in Ids |-> Absent]]

Init ==
  /\ content = [id \in Ids |-> Absent]
  /\ dimension \in Nat
  /\ left = <<>>
  /\ answer = Ok
  /\ file = NoFile

BeginAdd(batch) ==
  /\ Idle
  /\ left' = batch
  /\ answer' = Busy
  /\ UNCHANGED <<content, dimension, file>>

\* The next vector fits and replaces what was stored under its id.
Upsert ==
  /\ left # <<>>
  /\ Head(left).dimension = Len(Head(left).data)
  /\ dimension \in {0, Head(left).dimension}
  /\ left' = Tail(left)
  /\ dimension' = Head(left).dimension
  /\ content' = [content EXCEPT ![Head(left).id] = Head(left).data]
  /\ UNCHANGED <<answer, file>>

\* The next vector does not fit: the call fails, what it stored stays stored.
Reject ==
  /\ left # <<>>
  /\ \/ Head(left).dimension # Len(Head(left).data)
     \/ dimension \notin {0, Head(left).dimension}
  /\ dimension' = IF dimension = 0 THEN Head(left).dimension ELSE dimension
  /\ left' = <<>>
  /\ answer' = Err
  /\ UNCHANGED <<content, file>>

EndAdd ==
  /\ ~Idle
  /\ left = <<>>
  /\ answer' = Ok
  /\ UNCHANGED <<content, dimension, left, file>>

\* remove counts the ids that were there.
Remove(ids) ==
  /\ Idle
  /\ answer'.kind = "removed"
  /\ content' = [id \in Ids |-> IF id \in ids THEN Absent ELSE content[id]]
  /\ answer' = Answer("removed", Cardinality(Stored \cap ids), <<>>, <<>>)
  /\ UNCHANGED <<dimension, left, file>>

Clear ==
  /\ Idle
  /\ dimension' = 0
  /\ answer' = Ok
  /\ content' = [id \in Ids |-> Absent]
  /\ UNCHANGED <<left, file>>

Find(id) ==
  /\ Idle
  /\ answer' = IF id \in Stored THEN Answer("found", 0, content[id], <<>>)
                                ELSE Answer("none", 0, <<>>, <<>>)
  /\ UNCHANGED <<content, dimension, left, file>>

\* ids are the best top_k of the stored vectors that score enough, best first.
IsRanking(q, ids) ==
  LET score(id) == Score(q.data, content[id])
      enough == {id \in Stored : score(id) >= q.min_score}
      chosen == {ids[i] : i \in DOMAIN ids}
  IN /\ chosen \subseteq enough
     /\ Cardinality(chosen) = Len(ids)
     /\ Len(ids) = q.top_k \/ (Len(ids) < q.top_k /\ chosen = enough)
     /\ \A i, j \in DOMAIN ids : i < j => score(ids[i]) >= score(ids[j])
     /\ \A id \in enough \ chosen : \A i \in DOMAIN ids : score(ids[i]) >= score(id)

IsZero(data) == \A i \in DOMAIN data : data[i] = 0

Search(q) ==
  /\ Idle
  /\ IF Stored = {} \/ q.top_k = 0
     THEN answer' = Answer("ranked", 0, <<>>, <<>>)
     ELSE IF Len(q.data) # dimension
     THEN answer' = Err
     ELSE IF IsZero(q.data)
     THEN answer' = Answer("ranked", 0, <<>>, <<>>)
     ELSE /\ answer' = Answer("ranked", 0, <<>>, answer'.ids)
          /\ IsRanking(q, answer'.ids)
  /\ UNCHANGED <<content, dimension, left, file>>

Save ==
  /\ Idle
  /\ \/ /\ file' = [readable |-> TRUE, dimension |-> dimension, content |-> content]
        /\ answer' = Ok
     \/ file' \in {file, NoFile} /\ answer' = Err
  /\ UNCHANGED <<content, dimension, left>>

Load ==
  /\ Idle
  /\ IF file.readable
     THEN content' = file.content /\ dimension' = file.dimension /\ answer' = Ok
     ELSE answer' = Err /\ UNCHANGED <<content, dimension>>
  /\ UNCHANGED <<left, file>>

Next ==
  \/ \E batch \in Batches : BeginAdd(batch)
  \/ Upsert
  \/ Reject
  \/ EndAdd
  \/ \E ids \in SUBSET Ids : Remove(ids)
  \/ Clear
  \/ \E id \in Ids : Find(id)
  \/ \E q \in Queries : Search(q)
  \/ Save
  \/ Load

Spec == Init /\ [][Next]_vars
=============================================================================
