----------------------------- MODULE SearchCache -----------------------------
(***************************************************************************)
(* SearchCache and cached_search of chatvcode-vdb.  The lock is taken for  *)
(* get and again for put, and not for the search in between: other threads *)
(* may search, put, clear or replace the index meanwhile.                  *)
(*                                                                         *)
(* A result is known by the version of the index it was searched in.  A    *)
(* key stands for query, top_k and min_score together.                     *)
(***************************************************************************)
EXTENDS Integers, Sequences, Functions

CONSTANTS
  Callers, Keys,
  Capacity,      \* of the LruCache, at least 1
  MaxVersions,   \* bound on the versions of the index
  MaxClears      \* bound on the calls of clear

\* What the parameters are assumed to be.
CacheAssumption == Capacity \in Nat \ {0} /\ {MaxVersions, MaxClears} \subseteq Nat

VARIABLES
  cache,      \* [key, version, clears, put], the most recently used first; clears
              \* and put count the clears before the search and before the put
  calls,      \* the cached_search a caller is in
  version,    \* version of the index
  clears,     \* calls of clear so far
  cleared_at  \* version of the index at the last of them

cacheVars == <<cache, calls, version, clears, cleared_at>>

----------------------------------------------------------------------------
NoCall == [pc |-> "none", key |-> "none", version |-> 0, clears |-> 0]
Entry(call) == [key |-> call.key, version |-> call.version, clears |-> call.clears, put |-> clears]
Cached(key) == \E i \in DOMAIN cache : cache[i].key = key

\* LruCache finds the entry of a key, and moves or replaces that one.
Place(key) == CHOOSE i \in DOMAIN cache : cache[i].key = key
Without(key) ==
  LET place == Place(key)
  IN IF Cached(key) THEN SubSeq(cache, 1, place - 1) \o SubSeq(cache, place + 1, Len(cache)) ELSE cache

CacheInit ==
  /\ cache = <<>>
  /\ calls = [c \in Callers |-> NoCall]
  /\ version = 1
  /\ clears = 0
  /\ cleared_at = 1

\* A hit returns at once, and makes its entry the most recent.
Hit(c, key) ==
  /\ calls[c] = NoCall
  /\ Cached(key)
  /\ cache' = <<cache[Place(key)]>> \o Without(key)
  /\ UNCHANGED <<calls, version, clears, cleared_at>>

Miss(c, key) ==
  /\ calls[c] = NoCall
  /\ ~Cached(key)
  /\ calls' = [calls EXCEPT ![c] = [NoCall EXCEPT !.pc = "missed", !.key = key]]
  /\ UNCHANGED <<cache, version, clears, cleared_at>>

\* search_fn, of the index as it is now.
SearchFn(c) ==
  /\ calls[c].pc = "missed"
  /\ calls' = [calls EXCEPT ![c].pc = "searched", ![c].version = version, ![c].clears = clears]
  /\ UNCHANGED <<cache, version, clears, cleared_at>>

\* search_fn fails: nothing is put.
SearchFnFails(c) ==
  /\ calls[c].pc = "missed"
  /\ calls' = [calls EXCEPT ![c] = NoCall]
  /\ UNCHANGED <<cache, version, clears, cleared_at>>

\* Mutant of Put: the oldest entry is not pushed out.
PutUnbounded(c) ==
  /\ calls[c].pc = "searched"
  /\ cache' = <<Entry(calls[c])>> \o Without(calls[c].key)
  /\ calls' = [calls EXCEPT ![c] = NoCall]
  /\ UNCHANGED <<version, clears, cleared_at>>

\* The result is put, whatever is cached by now, and the least recent entry goes.
Put(c) ==
  /\ calls[c].pc = "searched"
  /\ LET entries == <<Entry(calls[c])>> \o Without(calls[c].key)
     IN cache' = SubSeq(entries, 1, IF Len(entries) < Capacity THEN Len(entries) ELSE Capacity)
  /\ calls' = [calls EXCEPT ![c] = NoCall]
  /\ UNCHANGED <<version, clears, cleared_at>>

\* Mutant of ClearCache: the most recent entry is forgotten.
ClearCacheButFirst ==
  /\ clears < MaxClears
  /\ cache' = SubSeq(cache, 1, IF cache = <<>> THEN 0 ELSE 1)
  /\ clears' = clears + 1
  /\ cleared_at' = version
  /\ UNCHANGED <<calls, version>>

ClearCache ==
  /\ clears < MaxClears
  /\ cache' = <<>>
  /\ clears' = clears + 1
  /\ cleared_at' = version
  /\ UNCHANGED <<calls, version>>

\* The index is replaced, and the cache knows nothing of it.
ReplaceIndex ==
  /\ version < MaxVersions
  /\ version' = version + 1
  /\ UNCHANGED <<cache, calls, clears, cleared_at>>

CacheNext ==
  \/ \E c \in Callers :
       \/ \E key \in Keys : Hit(c, key) \/ Miss(c, key)
       \/ SearchFn(c) \/ SearchFnFails(c) \/ Put(c)
  \/ ClearCache
  \/ ReplaceIndex

----------------------------------------------------------------------------
(* Properties *)

\* One entry per key and no more than the capacity, though two callers that
\* missed the same key both put it.
CacheIsBounded == Len(cache) <= Capacity /\ IsInjective([i \in DOMAIN cache |-> cache[i].key])

\* An entry older than the last clear comes from a search that began before it
\* and put its result after it: a clear after a replaced index is final only
\* when no search is under way.
StaleOnlyFromStragglers ==
  \A i \in DOMAIN cache : cache[i].version < cleared_at => cache[i].clears < clears /\ cache[i].put = clears
=============================================================================
