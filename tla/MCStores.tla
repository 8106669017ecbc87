------------------------------ MODULE MCStores ------------------------------
(***************************************************************************)
(* The vector stores and the cache of searches for TLC.  They do not call  *)
(* one another, so a behaviour is one of a single one of them, its part;   *)
(* the variables of InMemoryVectorStore are its own, the other stores      *)
(* share theirs.                                                           *)
(***************************************************************************)
EXTENDS InMemoryVectorStore, TLC

CONSTANTS
  Dims,                \* the dimensions that arguments are made of
  CompactBatches, Capacities,
  HnswIds,             \* Ids and one more: with 2M + 2 vectors HNSW cuts links
  HnswBatches, M, EfConstruction, EfSearch, MaxLevel,
  QuantizedBatches,
  Callers, Capacity, MaxVersions, MaxClears

VARIABLES
  part,
  chunk_ids, buffer, offsets, positions, dims, pending, reply, saved,
  nodes, entry_point,
  params, raw,
  cache, calls, version, clears, cleared_at

----------------------------------------------------------------------------
(* The arguments: vectors of the numbers 1 and 2, and malformed ones. *)

\* One vector of each dimension, and a second one of dimension 1.
DataOf(sizes) == {[i \in 1..d |-> 1] : d \in sizes} \cup {[i \in 1..d |-> 2] : d \in sizes \cap {1}}

WellFormed(ids, sizes) ==
  {[id |-> id, dimension |-> Len(data), data |-> data] : id \in ids, data \in DataOf(sizes)}

Malformed(ids, sizes) ==
  {[id |-> id, dimension |-> d, data |-> <<>>] : id \in ids, d \in sizes}

\* Single vectors, and batches of two that fail at the second: a longer batch
\* that succeeds leaves what its vectors added one by one leave.
BatchesOf(ids, sizes) ==
  LET good == WellFormed(ids, sizes)
      mixed == {vw \in good \X good : vw[1].dimension < vw[2].dimension /\ vw[1].id # vw[2].id}
  IN {<<v>> : v \in good \cup Malformed(ids, sizes)} \cup mixed

\* The dot product, as a stand-in for the cosine.
Dot(q, data) == FoldLeftDomain(LAMBDA sum, i : sum + q[i] * data[i], 0, data)

MCBatches == BatchesOf(Ids, Dims)
MCQueries ==
  {[data |-> <<2>>, top_k |-> 1, min_score |-> -1], [data |-> <<2>>, top_k |-> 2, min_score |-> 3],
   [data |-> <<1>>, top_k |-> 0, min_score |-> -1], [data |-> <<0>>, top_k |-> 2, min_score |-> -1]}
MCScore(q, data) == Dot(q, data)

\* Ranges with 0 in them and without, a single number, and numbers outside.
MCQuantizedBatches ==
  LET vector(id, data) == [id |-> id, dimension |-> Len(data), data |-> data]
  IN {<<vector(id, data)>> : id \in Ids, data \in {<<-1, 2>>, <<0, 3>>, <<1, 1>>, <<5>>}}
     \cup {<<vector(p[1], <<-3, 1>>), vector(p[2], d)>> :
             p \in {q \in Ids \X Ids : q[1] # q[2]}, d \in {<<0, 4>>, <<2>>}}

MCCompactBatches == BatchesOf(Ids, Dims)
MCHnswBatches == BatchesOf(HnswIds, {1})

----------------------------------------------------------------------------
(* The parts *)

Compact == INSTANCE CompactVectorStore WITH
  Batches <- CompactBatches, vectors <- buffer, index <- positions, dimension <- dims,
  left <- pending, answer <- reply, file <- saved
Hnsw == INSTANCE HnswVectorStore WITH
  Ids <- HnswIds, Batches <- HnswBatches,
  index <- positions, dimension <- dims, left <- pending, answer <- reply
Quantized == INSTANCE QuantizedVectorStore WITH
  Batches <- QuantizedBatches, quantized_vectors <- buffer,
  index <- positions, dimension <- dims, left <- pending
Cached == INSTANCE SearchCache WITH Keys <- Ids

ASSUME MCAssumption ==
  /\ Compact!CompactAssumption /\ Hnsw!HnswAssumption
  /\ Quantized!QuantizedAssumption /\ Cached!CacheAssumption

cacheVars == <<cache, calls, version, clears, cleared_at>>

otherVars == <<chunk_ids, buffer, offsets, positions, dims, pending, reply, saved, nodes,
               entry_point, params, raw, cache, calls, version, clears, cleared_at>>

storesVars == <<vars, part, otherVars>>

\* What each part leaves unused.
NoBuffer == chunk_ids = <<>> /\ buffer = <<>>
NoIndexed == positions = <<>> /\ dims = <<>> /\ pending = <<>>
NoReply == reply = <<>>
NoSaved == offsets = <<>> /\ saved = <<>>
NoGraph == nodes = <<>> /\ entry_point = <<>>
NoScale == params = <<>> /\ raw = <<>>
NoCache == cache = <<>> /\ calls = <<>> /\ version = <<>> /\ clears = <<>> /\ cleared_at = <<>>

StoresInit ==
  /\ Init
  /\ \/ /\ part = "in_memory"
        /\ NoBuffer /\ NoIndexed /\ NoReply /\ NoSaved /\ NoGraph /\ NoScale /\ NoCache
     \/ part = "compact" /\ Compact!Init /\ NoGraph /\ NoScale /\ NoCache
     \/ part = "hnsw" /\ Hnsw!Init /\ NoBuffer /\ NoSaved /\ NoScale /\ NoCache
     \/ part = "quantized" /\ Quantized!Init /\ NoReply /\ NoSaved /\ NoGraph /\ NoCache
     \/ /\ part = "cache" /\ Cached!CacheInit
        /\ NoBuffer /\ NoIndexed /\ NoReply /\ NoSaved /\ NoGraph /\ NoScale

StoresNext ==
  \/ /\ part = "in_memory" /\ Next
     /\ UNCHANGED <<part, otherVars>>
  \/ /\ part = "compact" /\ Compact!Next
     /\ UNCHANGED <<part, vars, nodes, entry_point, params, raw, cacheVars>>
  \/ /\ part = "hnsw" /\ Hnsw!Next
     /\ UNCHANGED <<part, vars, chunk_ids, buffer, offsets, saved, params, raw, cacheVars>>
  \/ /\ part = "quantized" /\ Quantized!Next
     /\ UNCHANGED <<part, vars, offsets, reply, saved, nodes, entry_point, cacheVars>>
  \/ /\ part = "cache" /\ Cached!CacheNext
     /\ UNCHANGED <<part, vars, chunk_ids, buffer, offsets, positions, dims, pending, reply,
                    saved, nodes, entry_point, params, raw>>

StoresSpec == StoresInit /\ [][StoresNext]_storesVars

Symmetry == Permutations(Ids)

\* Of an answer no action reads more than whether the call goes on: states that
\* differ in the answer of a finished call are one, and what the properties say of
\* a step is still checked of every answer.
StoresView ==
  <<part, vectors, index, dimension, left, todo, removed, file, IF Idle THEN Ok ELSE answer,
    chunk_ids, buffer, offsets, positions, dims, pending, part \in {"compact", "hnsw"} /\ reply = Busy, saved,
    nodes, entry_point, params, raw, cacheVars>>

----------------------------------------------------------------------------
(* The properties of the parts, each of its own behaviours *)

\* InMemoryVectorStore implements the trait: every call answers what a map would.
InMemoryImplementsMap ==
  /\ Map!Init
  /\ [][part = "in_memory" => [Map!Next]_(Map!vars)]_storesVars

\* CompactVectorStore: the types of its arrays.
CompactTypeOK == part = "compact" => Compact!TypeOK

\* CompactVectorStore: the vectors tile the buffer and the index finds each.
BufferIsTiled == part = "compact" => Compact!BufferIsTiled

\* CompactVectorStore implements the trait: every call answers what a map would.
CompactImplementsMap ==
  /\ part = "compact" => Compact!Map!Init
  /\ [][part = "compact" => [Compact!Map!Next]_(Compact!Map!vars)]_storesVars

\* HnswVectorStore: no link leads out of the array, to its own node or to one
\* that another link of the list leads to, and no list grows beyond its limit.
GraphIsSound == part = "hnsw" => Hnsw!GraphIsSound

\* HnswVectorStore, up to the size at which links are cut, answers what a map
\* would: the approximate search is exact, also with vectors that were replaced
\* and so sit at the links of their old data.
HnswImplementsMap ==
  /\ part = "hnsw" => Hnsw!Map!Init
  /\ [][part = "hnsw" /\ Len(nodes) <= 2 * M + 1 => [Hnsw!Map!Next]_(Hnsw!Map!vars)]_storesVars

\* QuantizedVectorStore: the quantized vectors tile the buffer.
QuantizedIsTiled == part = "quantized" => Quantized!IsTiled

\* QuantizedVectorStore: what was in the range of the scale comes back within
\* one step of it, whatever was added since.
QuantizedIsNear == part = "quantized" => Quantized!FindIsNear

\* SearchCache: one entry for each key, and no more than its capacity.
CacheIsBounded == part = "cache" => Cached!CacheIsBounded

\* SearchCache: after a clear, only a search that was under way puts an old result.
StaleOnlyFromStragglers == part = "cache" => Cached!StaleOnlyFromStragglers

\* The trait is kept by every store: each call answers what a map would.
StoresAnswerLikeMaps == InMemoryImplementsMap /\ CompactImplementsMap /\ HnswImplementsMap

\* What each store is built of fits together after any calls, failed batches,
\* removals and loads: arrays of one length, one dimension, a buffer without gaps,
\* a scale that is that of the numbers it was taken from, a graph without loose or
\* doubled links.
LayoutIsSound ==
  /\ part = "in_memory" => TypeOK /\ OneDimension
  /\ CompactTypeOK /\ BufferIsTiled
  /\ QuantizedIsTiled /\ QuantizedIsNear /\ GraphIsSound

\* Whatever callers do between the two times the cache is locked, it stays within
\* its capacity, and a result older than a clear comes from a search that was
\* under way.
CacheSurvivesRaces == CacheIsBounded /\ StaleOnlyFromStragglers
=============================================================================
