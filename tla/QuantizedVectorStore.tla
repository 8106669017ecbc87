------------------------ MODULE QuantizedVectorStore -------------------------
(***************************************************************************)
(* QuantizedVectorStore of chatvcode-vdb: every number is kept in one of   *)
(* 256 steps.  The scale is that of the first batch; what is added later   *)
(* is squeezed into it.                                                    *)
(*                                                                         *)
(* Numbers are integers here, and a step is (max - min) / 255 exactly.     *)
(***************************************************************************)
EXTENDS Integers, Sequences, FiniteSets, Functions

CONSTANTS
  Ids, Absent,
  Batches   \* the arguments of add: sequences of [id, dimension, data]

\* What the arguments are assumed to be: add returns at once for none, and does not
\* look at the length of the data, which is the dimension in what
\* EmbeddingVector::new makes.
QuantizedAssumption ==
  Batches \subseteq {batch \in Seq([id : Ids, dimension : Nat \ {0}, data : Seq(Int)]) :
                      batch # <<>> /\ \A i \in DOMAIN batch : Len(batch[i].data) = batch[i].dimension}

VARIABLES
  chunk_ids, quantized_vectors, params, dimension,
  index,     \* position of each id, 0 if there is none
  left,      \* what add has still to store of its batch
  raw        \* the numbers last added under each id (history)

vars == <<chunk_ids, quantized_vectors, params, dimension, index, left, raw>>

----------------------------------------------------------------------------
Clamped(q) == IF q < 0 THEN 0 ELSE IF q > 255 THEN 255 ELSE q

\* f32::round of a fraction: a half goes away from zero.
Rounded(n, d) == IF n >= 0 THEN (2 * n + d) \div (2 * d) ELSE -((d - 2 * n) \div (2 * d))

\* QuantizationParams::compute.  The step is range / 255.
Computed(batch) ==
  LET values == UNION {Range(batch[i].data) : i \in DOMAIN batch}
      least == CHOOSE x \in values : \A y \in values : x <= y
      most == CHOOSE x \in values : \A y \in values : y <= x
      min == IF least = most THEN -1 ELSE least
      max == IF least = most THEN 1 ELSE most
  IN [min |-> min, max |-> max, zero_point |-> Clamped(Rounded(-min * 255, max - min))]

Range255(p) == p.max - p.min
Quantized(p, x) == Clamped(Rounded(x * 255 + p.zero_point * Range255(p), Range255(p)))

\* dequantize, times 255.
Dequantized(p, q) == (q - p.zero_point) * Range255(p)

Slice(i) == SubSeq(quantized_vectors, (i - 1) * dimension + 1, i * dimension)

----------------------------------------------------------------------------
Init ==
  /\ chunk_ids = <<>>
  /\ quantized_vectors = <<>>
  /\ params = [min |-> 0, max |-> 1, zero_point |-> 0]
  /\ dimension = 0
  /\ index = [id \in Ids |-> 0]
  /\ left = <<>>
  /\ raw = [id \in Ids |-> Absent]

\* Mutant of BeginAdd: every batch sets the scale.
BeginAddRescaling(batch) ==
  /\ left = <<>>
  /\ left' = batch
  /\ params' = Computed(batch)
  /\ dimension' = IF chunk_ids = <<>> THEN batch[1].dimension ELSE dimension
  /\ UNCHANGED <<chunk_ids, quantized_vectors, index, raw>>

\* The first batch, and one after a failed first one, sets scale and dimension.
BeginAdd(batch) ==
  /\ left = <<>>
  /\ left' = batch
  /\ IF chunk_ids = <<>>
     THEN params' = Computed(batch) /\ dimension' = batch[1].dimension
     ELSE UNCHANGED <<params, dimension>>
  /\ UNCHANGED <<chunk_ids, quantized_vectors, index, raw>>

AddVector ==
  LET vector == Head(left)
      quantized == [i \in DOMAIN vector.data |-> Quantized(params, vector.data[i])]
      start == (index[vector.id] - 1) * dimension
  IN
  /\ left # <<>>
  /\ vector.dimension = dimension
  /\ IF index[vector.id] # 0
     THEN /\ quantized_vectors' = [i \in DOMAIN quantized_vectors |->
               IF i \in start + 1..start + dimension THEN quantized[i - start] ELSE quantized_vectors[i]]
          /\ UNCHANGED <<chunk_ids, index>>
     ELSE /\ quantized_vectors' = quantized_vectors \o quantized
          /\ chunk_ids' = Append(chunk_ids, vector.id)
          /\ index' = [index EXCEPT ![vector.id] = Len(chunk_ids) + 1]
  /\ raw' = [raw EXCEPT ![vector.id] = vector.data]
  /\ left' = Tail(left)
  /\ UNCHANGED <<params, dimension>>

\* A vector of another dimension ends the call; what it stored stays.
RejectVector ==
  /\ left # <<>>
  /\ Head(left).dimension # dimension
  /\ left' = <<>>
  /\ UNCHANGED <<chunk_ids, quantized_vectors, params, dimension, index, raw>>

\* Mutant of Clear: the buffer is kept.
ClearIds ==
  /\ left = <<>>
  /\ chunk_ids' = <<>>
  /\ dimension' = 0
  /\ index' = [id \in Ids |-> 0]
  /\ raw' = [id \in Ids |-> Absent]
  /\ UNCHANGED <<quantized_vectors, params, left>>

\* The scale stays until the next add.
Clear ==
  /\ left = <<>>
  /\ chunk_ids' = <<>>
  /\ quantized_vectors' = <<>>
  /\ dimension' = 0
  /\ index' = [id \in Ids |-> 0]
  /\ raw' = [id \in Ids |-> Absent]
  /\ UNCHANGED <<params, left>>

\* save, and load in another process: everything is in the file but the index.
Reopen ==
  /\ left = <<>>
  /\ index' = [id \in Ids |-> IF \E i \in DOMAIN chunk_ids : chunk_ids[i] = id
                              THEN CHOOSE i \in DOMAIN chunk_ids : chunk_ids[i] = id ELSE 0]
  /\ UNCHANGED <<chunk_ids, quantized_vectors, params, dimension, left, raw>>

Next ==
  \/ \E batch \in Batches : BeginAdd(batch)
  \/ AddVector
  \/ RejectVector
  \/ Clear
  \/ Reopen

----------------------------------------------------------------------------
(* Properties *)

\* The quantized vectors tile the buffer, after any replacements, failed batches
\* and clears.
IsTiled == Len(quantized_vectors) = Len(chunk_ids) * dimension

\* find gives back every number within one step, as long as it was in the range
\* of the batch that set the scale and that range has 0 in it: no later batch
\* changes the scale under the vectors that are stored.
FindIsNear ==
  params.min <= 0 /\ params.max >= 0 =>
    \A id \in Ids : index[id] # 0 => \A i \in 1..dimension :
      raw[id][i] \in params.min..params.max =>
        LET error == raw[id][i] * 255 - Dequantized(params, Slice(index[id])[i])
        IN error \in -Range255(params)..Range255(params)
=============================================================================
