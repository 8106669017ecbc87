------------------------ MODULE InMemoryVectorStore -------------------------
(***************************************************************************)
(* InMemoryVectorStore of chatvcode-vdb: an array of vectors and an index  *)
(* from chunk ids to positions in it (here from 1; 0 means no entry).      *)
(*                                                                         *)
(* One iteration of the loops of add and remove is one step, so that the   *)
(* states in which the array and the index disagree are states here too.   *)
(* What is stored, as an outside observer would describe it, is VectorMap. *)
(***************************************************************************)
EXTENDS Integers, Sequences, FiniteSets, SequencesExt

CONSTANTS
  Ids,          \* chunk ids
  Absent,       \* what find returns for an unknown id
  Batches,      \* the arguments of add: sequences of vectors
  Queries,      \* the arguments of search: [data, top_k, min_score]
  Score(_, _)   \* cosine_similarity, of which only the order matters

\* An EmbeddingVector; its fields are public, so dimension need not be Len(data).
\* None is empty: an embedding has the dimension of its model.  The code would
\* store an empty one before the dimension is known, and load would then take for
\* its numbers what follows it in the file.
Vector == [id : Ids, dimension : Nat \ {0}, data : Seq(Int)]

ASSUME StoreAssumption ==
  /\ Batches \subseteq Seq(Vector)
  /\ Absent \notin Seq(Int)

VARIABLES
  vectors,      \* the array
  index,        \* position of each id in the array
  dimension,    \* the dimension of the store, 0 until the first vector
  left,         \* what add has still to store of its batch
  todo,         \* positions that remove has still to take out of the array
  removed,      \* how many it has taken out
  answer,       \* what the last call returned
  file          \* what the last save wrote: the array of another moment

vars == <<vectors, index, dimension, left, todo, removed, answer, file>>

----------------------------------------------------------------------------
Answer(kind, count, data, ids) ==
  [kind |-> kind, count |-> count, data |-> data, ids |-> ids]
Ok == Answer("ok", 0, <<>>, <<>>)
Err == Answer("err", 0, <<>>, <<>>)
\* The assertion of cosine_similarity, on vectors of two lengths.
Panicked == Answer("panicked", 0, <<>>, <<>>)
Busy == Answer("busy", 0, <<>>, <<>>)
Removing == Answer("removing", 0, <<>>, <<>>)
Idle == answer \notin {Busy, Removing}

NoIndex == [id \in Ids |-> 0]
NoFile == [readable |-> FALSE, dimension |-> 0, vectors |-> <<>>]

\* The index that inserting every position in turn makes of an array.
IndexOf(vs) ==
  [id \in Ids |->
     IF \E i \in DOMAIN vs : vs[i].id = id
     THEN CHOOSE i \in DOMAIN vs : vs[i].id = id /\ \A j \in DOMAIN vs : vs[j].id = id => j <= i
     ELSE 0]

----------------------------------------------------------------------------
Init ==
  /\ vectors = <<>>
  /\ index = NoIndex
  /\ dimension = 0
  /\ left = <<>>
  /\ todo = {}
  /\ removed = 0
  /\ answer = Ok
  /\ file = NoFile

BeginAdd(batch) ==
  /\ Idle
  /\ left' = batch
  /\ answer' = Busy
  /\ UNCHANGED <<vectors, index, dimension, todo, removed, file>>

\* Mutant of Fits: the dimension of the store is not looked at.
FitsItself(vector) == Len(vector.data) = vector.dimension

\* Does the next vector of the batch pass the two checks of add?
Fits(vector) ==
  /\ dimension = 0 \/ vector.dimension = dimension
  /\ Len(vector.data) = vector.dimension

Entry(vector) == [id |-> vector.id, data |-> vector.data]

\* Overwrite in place, or push and index.
AddVector ==
  LET vector == Head(left) IN
  /\ left # <<>>
  /\ Fits(vector)
  /\ IF index[vector.id] # 0
     THEN /\ vectors' = [vectors EXCEPT ![index[vector.id]] = Entry(vector)]
          /\ UNCHANGED index
     ELSE /\ vectors' = Append(vectors, Entry(vector))
          /\ index' = [index EXCEPT ![vector.id] = Len(vectors) + 1]
  /\ dimension' = vector.dimension
  /\ left' = Tail(left)
  /\ UNCHANGED <<todo, removed, answer, file>>

\* The call fails in the middle; a first vector has already set the dimension.
RejectVector ==
  /\ left # <<>>
  /\ ~Fits(Head(left))
  /\ dimension' = IF dimension = 0 THEN Head(left).dimension ELSE dimension
  /\ left' = <<>>
  /\ answer' = Err
  /\ UNCHANGED <<vectors, index, todo, removed, file>>

EndAdd ==
  /\ answer = Busy
  /\ left = <<>>
  /\ answer' = Ok
  /\ UNCHANGED <<vectors, index, dimension, left, todo, removed, file>>

\* Mutant of BeginRemove: unknown ids are not filtered out.
BeginRemoveUnfiltered(ids) ==
  /\ Idle
  /\ index' = [id \in Ids |-> IF id \in ids THEN 0 ELSE index[id]]
  /\ todo' = {index[id] : id \in ids}
  /\ removed' = 0
  /\ answer' = Removing
  /\ UNCHANGED <<vectors, dimension, left, file>>

\* The ids leave the index, their positions are kept to be removed.
BeginRemove(ids) ==
  /\ Idle
  /\ index' = [id \in Ids |-> IF id \in ids THEN 0 ELSE index[id]]
  /\ todo' = {index[id] : id \in ids} \ {0}
  /\ removed' = 0
  /\ answer' = Removing
  /\ UNCHANGED <<vectors, dimension, left, file>>

\* Mutant of NextPosition: the positions are not reversed.
FirstPosition == CHOOSE p \in todo : \A q \in todo : p <= q

\* The positions are sorted and reversed: the last one goes first.
NextPosition == CHOOSE p \in todo : \A q \in todo : q <= p

RemoveVector ==
  /\ todo # {}
  /\ todo' = todo \ {NextPosition}
  /\ IF NextPosition <= Len(vectors)
     THEN vectors' = RemoveAt(vectors, NextPosition) /\ removed' = removed + 1
     ELSE UNCHANGED <<vectors, removed>>
  /\ UNCHANGED <<index, dimension, left, answer, file>>

\* Mutant of EndRemove: the index is not rebuilt.
EndRemoveStale ==
  /\ answer = Removing
  /\ todo = {}
  /\ answer' = Answer("removed", removed, <<>>, <<>>)
  /\ removed' = 0
  /\ UNCHANGED <<vectors, index, dimension, left, todo, file>>

\* The index is rebuilt from what is left of the array.
EndRemove ==
  /\ answer = Removing
  /\ todo = {}
  /\ index' = IndexOf(vectors)
  /\ answer' = Answer("removed", removed, <<>>, <<>>)
  /\ removed' = 0
  /\ UNCHANGED <<vectors, dimension, left, todo, file>>

Clear ==
  /\ Idle
  /\ vectors' = <<>>
  /\ index' = NoIndex
  /\ dimension' = 0
  /\ answer' = Ok
  /\ UNCHANGED <<left, todo, removed, file>>

Find(id) ==
  /\ Idle
  /\ answer' = IF index[id] # 0 THEN Answer("found", 0, vectors[index[id]].data, <<>>)
                                ELSE Answer("none", 0, <<>>, <<>>)
  /\ UNCHANGED <<vectors, index, dimension, left, todo, removed, file>>

IsZero(data) == \A i \in DOMAIN data : data[i] = 0

Enough(q) == {i \in DOMAIN vectors : Score(q.data, vectors[i].data) >= q.min_score}

\* What the stable sort by descending score puts before i.
Ahead(q, i) ==
  LET score(j) == Score(q.data, vectors[j].data)
  IN {j \in Enough(q) : score(j) > score(i) \/ (score(j) = score(i) /\ j < i)}

\* The positions that score enough, sorted, and cut after top_k.
Ranking(q) ==
  LET found == Cardinality(Enough(q))
      size == IF found < q.top_k THEN found ELSE q.top_k
      at(n) == CHOOSE i \in Enough(q) : Cardinality(Ahead(q, i)) = n - 1
  IN [n \in 1..size |-> vectors[at(n)].id]

Search(q) ==
  /\ Idle
  /\ answer' = IF vectors = <<>> \/ q.top_k = 0 THEN Answer("ranked", 0, <<>>, <<>>)
               ELSE IF Len(q.data) # dimension THEN Err
               ELSE IF IsZero(q.data) THEN Answer("ranked", 0, <<>>, <<>>)
               ELSE IF \E i \in DOMAIN vectors : Len(vectors[i].data) # dimension THEN Panicked
               ELSE Answer("ranked", 0, <<>>, Ranking(q))
  /\ UNCHANGED <<vectors, index, dimension, left, todo, removed, file>>

\* save writes the header and the array; when it fails the old file is still
\* there or is cut short, and a file cut short does not load.
Save ==
  /\ Idle
  /\ \/ /\ file' = [readable |-> TRUE, dimension |-> dimension, vectors |-> vectors]
        /\ answer' = Ok
     \/ file' \in {file, NoFile} /\ answer' = Err
  /\ UNCHANGED <<vectors, index, dimension, left, todo, removed>>

\* load reads as many numbers for each vector as the header says: those that save
\* wrote, as all have the dimension of the store.
Load ==
  /\ Idle
  /\ IF file.readable
     THEN /\ vectors' = file.vectors
          /\ index' = IndexOf(file.vectors)
          /\ dimension' = file.dimension
          /\ answer' = Ok
     ELSE answer' = Err /\ UNCHANGED <<vectors, index, dimension>>
  /\ UNCHANGED <<left, todo, removed, file>>

Next ==
  \/ \E batch \in Batches : BeginAdd(batch)
  \/ AddVector
  \/ RejectVector
  \/ EndAdd
  \/ \E ids \in SUBSET Ids : BeginRemove(ids)
  \/ RemoveVector
  \/ EndRemove
  \/ Clear
  \/ \E id \in Ids : Find(id)
  \/ \E q \in Queries : Search(q)
  \/ Save
  \/ Load

Spec == Init /\ [][Next]_vars

----------------------------------------------------------------------------
(* Properties *)

EntryType == [id : Ids, data : Seq(Int)]

TypeOK ==
  /\ vectors \in Seq(EntryType)
  /\ index \in [Ids -> Nat]
  /\ dimension \in Nat
  /\ left \in Seq(Vector)
  /\ todo \subseteq Nat \ {0}
  /\ removed \in Nat
  /\ file \in [readable : BOOLEAN, dimension : Nat, vectors : Seq(EntryType)]

\* No id is stored twice, whatever the order of upserts and removals, and
\* outside of remove the index has exactly the position of each.
IndexMatchesVectors ==
  /\ \A i, j \in DOMAIN vectors : vectors[i].id = vectors[j].id => i = j
  /\ answer # Removing => index = IndexOf(vectors)

\* "the expected dimension of all vectors in this store" (dimension()), also
\* after batches that failed half way, removals and loads, so that no search meets
\* the assertion of cosine_similarity; 0 is "not yet set".
OneDimension == \A i \in DOMAIN vectors : Len(vectors[i].data) = dimension

\* The array read as a map; what remove has in todo has already left it.
DataIn(vs, gone) ==
  [id \in Ids |->
     IF \E i \in DOMAIN vs \ gone : vs[i].id = id
     THEN vs[CHOOSE i \in DOMAIN vs \ gone : vs[i].id = id].data
     ELSE Absent]

Map == INSTANCE VectorMap WITH
  content <- DataIn(vectors, todo),
  answer <- IF answer = Removing THEN Answer("removed", removed + Cardinality(todo), <<>>, <<>>)
            ELSE answer,
  file <- [readable |-> file.readable, dimension |-> file.dimension,
           content |-> DataIn(file.vectors, {})]
=============================================================================
