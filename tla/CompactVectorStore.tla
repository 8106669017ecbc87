------------------------- MODULE CompactVectorStore -------------------------
(***************************************************************************)
(* CompactVectorStore of chatvcode-vdb: all numbers in one flat buffer,    *)
(* with the offset of each vector in it. Offsets count from 0, as in the   *)
(* code; positions in the arrays count from 1, and 0 means no position.    *)
(*                                                                         *)
(* It implements the same trait as InMemoryVectorStore, and writes the     *)
(* same file format: VectorMap describes both.                             *)
(***************************************************************************)
EXTENDS Integers, Sequences, FiniteSets, SequencesExt

CONSTANTS
  Ids,          \* chunk ids
  Absent,       \* what find returns for an unknown id
  Batches,      \* the arguments of add: sequences of vectors
  Queries,      \* the arguments of search: [data, top_k, min_score]
  Capacities,   \* the dimensions given to with_capacity; new gives 0
  Score(_, _)   \* cosine_similarity, of which only the order matters

Vector == [id : Ids, dimension : Nat, data : Seq(Int)]

\* What the arguments are assumed to be: no vector is empty, as one stored before
\* the dimension is known would later be read as the numbers behind it.
CompactAssumption ==
  /\ Batches \subseteq Seq({v \in Vector : v.dimension > 0})
  /\ Capacities \subseteq Nat
  /\ Absent \notin Seq(Int)

VARIABLES
  chunk_ids,    \* the id at each position
  vectors,      \* the flat buffer
  offsets,      \* where the vector at each position starts in it
  dimension,    \* the dimension of the store, 0 until it is known
  index,        \* position of each id
  left,         \* what add has still to store of its batch
  answer,       \* what the last call returned
  file          \* what the last save wrote

vars == <<chunk_ids, vectors, offsets, dimension, index, left, answer, file>>

----------------------------------------------------------------------------
Answer(kind, count, data, ids) ==
  [kind |-> kind, count |-> count, data |-> data, ids |-> ids]
Ok == Answer("ok", 0, <<>>, <<>>)
Err == Answer("err", 0, <<>>, <<>>)
Busy == Answer("busy", 0, <<>>, <<>>)
Idle == answer # Busy

NoFile == [readable |-> FALSE, dimension |-> 0, ids |-> <<>>, data |-> <<>>]

GetVector(i) == SubSeq(vectors, offsets[i] + 1, offsets[i] + dimension)

\* The index that inserting every position in turn makes.
IndexOf(ids) ==
  [id \in Ids |->
     IF \E i \in DOMAIN ids : ids[i] = id
     THEN CHOOSE i \in DOMAIN ids : ids[i] = id /\ \A j \in DOMAIN ids : ids[j] = id => j <= i
     ELSE 0]

\* Mutant of Overwritten: one number too early.
OverwrittenEarly(start, data) ==
  [i \in DOMAIN vectors |->
     IF i \in start..(start + Len(data) - 1) THEN data[i - start + 1] ELSE vectors[i]]

\* The buffer with the numbers from start on overwritten (copy_from_slice).
Overwritten(start, data) ==
  [i \in DOMAIN vectors |->
     IF i \in (start + 1)..(start + Len(data)) THEN data[i - start] ELSE vectors[i]]

----------------------------------------------------------------------------
Init ==
  /\ chunk_ids = <<>>
  /\ vectors = <<>>
  /\ offsets = <<>>
  /\ dimension \in {0} \cup Capacities
  /\ index = [id \in Ids |-> 0]
  /\ left = <<>>
  /\ answer = Ok
  /\ file = NoFile

BeginAdd(batch) ==
  /\ Idle
  /\ left' = batch
  /\ answer' = Busy
  /\ UNCHANGED <<chunk_ids, vectors, offsets, dimension, index, file>>

\* Does the next vector of the batch pass the two checks of add?
Fits(vector) ==
  /\ dimension = 0 \/ vector.dimension = dimension
  /\ Len(vector.data) = vector.dimension

\* Overwrite in the buffer, or extend it.
AddVector ==
  LET vector == Head(left) IN
  /\ left # <<>>
  /\ Fits(vector)
  /\ IF index[vector.id] # 0
     THEN /\ vectors' = Overwritten(offsets[index[vector.id]], vector.data)
          /\ UNCHANGED <<chunk_ids, offsets, index>>
     ELSE /\ offsets' = Append(offsets, Len(vectors))
          /\ vectors' = vectors \o vector.data
          /\ chunk_ids' = Append(chunk_ids, vector.id)
          /\ index' = [index EXCEPT ![vector.id] = Len(chunk_ids) + 1]
  /\ dimension' = vector.dimension
  /\ left' = Tail(left)
  /\ UNCHANGED <<answer, file>>

\* The call fails in the middle; a first vector has already set the dimension.
RejectVector ==
  /\ left # <<>>
  /\ ~Fits(Head(left))
  /\ dimension' = IF dimension = 0 THEN Head(left).dimension ELSE dimension
  /\ left' = <<>>
  /\ answer' = Err
  /\ UNCHANGED <<chunk_ids, vectors, offsets, index, file>>

EndAdd ==
  /\ answer = Busy
  /\ left = <<>>
  /\ answer' = Ok
  /\ UNCHANGED <<chunk_ids, vectors, offsets, dimension, index, left, file>>

\* Mutant of Packed: positions counted from 0.
PackedEarly(n) == [i \in 1..n |-> (i - 2) * dimension]

\* The offsets of n vectors laid out one after the other.
Packed(n) == [i \in 1..n |-> (i - 1) * dimension]

\* keep_indices: the positions of what stays, in their order.
Kept(ids) ==
  LET kept[n \in 0..Len(chunk_ids)] ==
        IF n = 0 THEN <<>>
        ELSE IF chunk_ids[n] \in ids THEN kept[n - 1] ELSE Append(kept[n - 1], n)
  IN kept[Len(chunk_ids)]

\* Everything is copied without the vectors removed.
RemoveVectors(ids) ==
  LET keep == Kept(ids)
      kept == [n \in DOMAIN keep |-> chunk_ids[keep[n]]]
  IN
  /\ Idle
  /\ vectors' = FlattenSeq([n \in DOMAIN keep |-> GetVector(keep[n])])
  /\ chunk_ids' = kept
  /\ offsets' = Packed(Len(keep))
  /\ index' = IndexOf(kept)
  /\ answer' = Answer("removed", Len(chunk_ids) - Len(keep), <<>>, <<>>)
  /\ UNCHANGED <<dimension, left, file>>

\* Mutant of Clear: the buffer is kept.
ClearIds ==
  /\ Idle
  /\ chunk_ids' = <<>>
  /\ offsets' = <<>>
  /\ index' = IndexOf(<<>>)
  /\ dimension' = 0
  /\ answer' = Ok
  /\ UNCHANGED <<vectors, left, file>>

Clear ==
  /\ Idle
  /\ chunk_ids' = <<>>
  /\ vectors' = <<>>
  /\ offsets' = <<>>
  /\ index' = IndexOf(<<>>)
  /\ dimension' = 0
  /\ answer' = Ok
  /\ UNCHANGED <<left, file>>

Find(id) ==
  /\ Idle
  /\ answer' = IF index[id] # 0 THEN Answer("found", 0, GetVector(index[id]), <<>>)
                                ELSE Answer("none", 0, <<>>, <<>>)
  /\ UNCHANGED <<chunk_ids, vectors, offsets, dimension, index, left, file>>

IsZero(data) == \A i \in DOMAIN data : data[i] = 0

Enough(q) == {i \in DOMAIN chunk_ids : Score(q.data, GetVector(i)) >= q.min_score}

\* What the stable sort by descending score puts before i.
Ahead(q, i) ==
  LET score(j) == Score(q.data, GetVector(j))
  IN {j \in Enough(q) : score(j) > score(i) \/ (score(j) = score(i) /\ j < i)}

\* The positions that score enough, sorted, and cut after top_k.
Ranking(q) ==
  LET found == Cardinality(Enough(q))
      size == IF found < q.top_k THEN found ELSE q.top_k
      at(n) == CHOOSE i \in Enough(q) : Cardinality(Ahead(q, i)) = n - 1
  IN [n \in 1..size |-> chunk_ids[at(n)]]

Search(q) ==
  /\ Idle
  /\ answer' = IF chunk_ids = <<>> \/ q.top_k = 0 THEN Answer("ranked", 0, <<>>, <<>>)
               ELSE IF Len(q.data) # dimension THEN Err
               ELSE IF IsZero(q.data) THEN Answer("ranked", 0, <<>>, <<>>)
               ELSE Answer("ranked", 0, <<>>, Ranking(q))
  /\ UNCHANGED <<chunk_ids, vectors, offsets, dimension, index, left, file>>

\* A save that fails leaves the old file or one cut short, which does not load.
Save ==
  /\ Idle
  /\ \/ /\ file' = [readable |-> TRUE, dimension |-> dimension, ids |-> chunk_ids,
                    data |-> [i \in DOMAIN chunk_ids |-> GetVector(i)]]
        /\ answer' = Ok
     \/ file' \in {file, NoFile} /\ answer' = Err
  /\ UNCHANGED <<chunk_ids, vectors, offsets, dimension, index, left>>

\* The file is read back vector by vector: each starts where the buffer ends.
Load ==
  /\ Idle
  /\ IF file.readable
     THEN /\ chunk_ids' = file.ids
          /\ vectors' = FlattenSeq(file.data)
          /\ offsets' = [i \in DOMAIN file.ids |-> Len(FlattenSeq(SubSeq(file.data, 1, i - 1)))]
          /\ dimension' = file.dimension
          /\ index' = IndexOf(file.ids)
          /\ answer' = Ok
     ELSE answer' = Err /\ UNCHANGED <<chunk_ids, vectors, offsets, dimension, index>>
  /\ UNCHANGED <<left, file>>

Next ==
  \/ \E batch \in Batches : BeginAdd(batch)
  \/ AddVector
  \/ RejectVector
  \/ EndAdd
  \/ \E ids \in SUBSET Ids : RemoveVectors(ids)
  \/ Clear
  \/ \E id \in Ids : Find(id)
  \/ \E q \in Queries : Search(q)
  \/ Save
  \/ Load

Spec == Init /\ [][Next]_vars

----------------------------------------------------------------------------
(* Properties *)

TypeOK ==
  /\ chunk_ids \in Seq(Ids)
  /\ vectors \in Seq(Int)
  /\ offsets \in Seq(Nat)
  /\ dimension \in Nat
  /\ index \in [Ids -> Nat]
  /\ left \in Seq(Vector)

\* The vectors tile the buffer: none overlaps another, runs over the end or
\* leaves a gap, whatever was overwritten, removed, cleared and loaded before;
\* and the index finds each.
BufferIsTiled ==
  /\ Len(offsets) = Len(chunk_ids)
  /\ \A i \in DOMAIN offsets : offsets[i] = (i - 1) * dimension
  /\ Len(vectors) = Len(chunk_ids) * dimension
  /\ index = IndexOf(chunk_ids)

\* The arrays read as a map.
DataIn(ids, data) ==
  [id \in Ids |-> IF \E i \in DOMAIN ids : ids[i] = id THEN data[IndexOf(ids)[id]] ELSE Absent]

Map == INSTANCE VectorMap WITH
  content <- DataIn(chunk_ids, [i \in DOMAIN chunk_ids |-> GetVector(i)]),
  file <- [readable |-> file.readable, dimension |-> file.dimension,
           content |-> DataIn(file.ids, file.data)]
=============================================================================
