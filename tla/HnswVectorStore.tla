--------------------------- MODULE HnswVectorStore ---------------------------
(***************************************************************************)
(* HnswVectorStore of chatvcode-vdb: the approximate store.  Every vector  *)
(* is a node of a layered graph; add links it to the nearest nodes that a  *)
(* greedy walk finds, and search walks the same links.  The store implements *)
(* no trait but promises what VectorMap does, without removal, as long as  *)
(* no link had to be cut: in layer 0 up to 2M + 1 vectors.                 *)
(*                                                                         *)
(* Nodes count from 1; layers from 0 as in the code, so links[l + 1] are   *)
(* the neighbours in layer l.  The layer of a node is drawn at random.     *)
(*                                                                         *)
(* The file has M and EfSearch, not EfConstruction: load makes the store   *)
(* with the default.  A store made with another one, which would change    *)
(* when it is loaded, is left out: only tests make it.                     *)
(***************************************************************************)
EXTENDS Integers, Sequences, FiniteSets, Functions

CONSTANTS
  Ids, Absent, Batches, Queries, Score(_, _),
  M,                \* links of a node in the upper layers; twice that in layer 0
  EfConstruction,   \* width of the walk when a node is added: the default, as load sets it
  EfSearch,         \* least width of the walk of a search
  MaxLevel          \* bound on the layer drawn

\* What the parameters are assumed to be: no vector is empty, as one stored before
\* the dimension is known could not be compared with those behind it.
HnswAssumption ==
  /\ {M, EfConstruction, EfSearch} \subseteq Nat \ {0} /\ MaxLevel \in Nat
  /\ Batches \subseteq Seq([id : Ids, dimension : Nat \ {0}, data : Seq(Int)])
  /\ Absent \notin Seq(Int)

VARIABLES
  nodes,         \* [id, data, links]
  index,         \* node of each id, 0 if there is none
  dimension,
  entry_point,   \* the node where every walk begins
  left,          \* what add has still to store of its batch
  answer         \* what the last call returned

vars == <<nodes, index, dimension, entry_point, left, answer>>

----------------------------------------------------------------------------
Answer(kind, count, data, ids) ==
  [kind |-> kind, count |-> count, data |-> data, ids |-> ids]
Ok == Answer("ok", 0, <<>>, <<>>)
Err == Answer("err", 0, <<>>, <<>>)
Busy == Answer("busy", 0, <<>>, <<>>)
Idle == answer # Busy

LeastOf(a, b) == IF a < b THEN a ELSE b

\* Mutant of MaxLinks: the same limit in every layer.
MaxLinksEverywhere(layer) == M

MaxLinks(layer) == IF layer = 0 THEN 2 * M ELSE M

LayersOf(ns, n) == Len(ns[n].links)
LinksAt(ns, n, layer) == IF layer < LayersOf(ns, n) THEN ns[n].links[layer + 1] ELSE <<>>

\* A stable sort of nodes by descending score against data.
Sorted(ns, data, found) ==
  LET score(i) == Score(data, ns[found[i]].data)
      ahead(i) == {j \in DOMAIN found : score(j) > score(i) \/ (score(j) = score(i) /\ j < i)}
  IN [n \in DOMAIN found |-> found[CHOOSE i \in DOMAIN found : Cardinality(ahead(i)) = n - 1]]

\* select_neighbors_simple: the m best of the candidates.
Nearest(ns, data, found, m) == SubSeq(Sorted(ns, data, found), 1, LeastOf(m, Len(found)))

\* One unvisited neighbour: kept if there is room or it beats the worst kept.
Visit(ns, data, ef, walk, n) ==
  LET score(x) == Score(data, ns[x].data)
      beats == \E i \in DOMAIN walk.results : score(n) > score(walk.results[i])
  IN IF n \in walk.visited THEN walk
     ELSE IF Len(walk.results) < ef \/ beats
     THEN [candidates |-> walk.candidates \cup {n},
           results |-> IF Len(walk.results) < ef THEN Append(walk.results, n)
                       ELSE Nearest(ns, data, Append(walk.results, n), ef),
           visited |-> walk.visited \cup {n}]
     ELSE [walk EXCEPT !.visited = @ \cup {n}]

\* All neighbours in a list, in its order.
VisitAll(ns, data, ef, walk, list) ==
  LET after[i \in 0..Len(list)] ==
        IF i = 0 THEN walk ELSE Visit(ns, data, ef, after[i - 1], list[i])
  IN after[Len(list)]

\* The loop of search_layer: the best candidate is expanded; the walk ends when it
\* is worse than all that is kept.
Turn(ns, data, ef, layer, walk) ==
  LET score(x) == Score(data, ns[x].data)
      current == CHOOSE c \in walk.candidates : \A d \in walk.candidates :
                   score(c) > score(d) \/ (score(c) = score(d) /\ c >= d)
      worse == \A i \in DOMAIN walk.results : score(current) < score(walk.results[i])
  IN IF walk.candidates = {} THEN walk
     ELSE IF worse /\ Len(walk.results) >= ef THEN [walk EXCEPT !.candidates = {}]
     ELSE VisitAll(ns, data, ef, [walk EXCEPT !.candidates = @ \ {current}], LinksAt(ns, current, layer))

\* No node becomes a candidate twice, so there are no more turns than nodes.
Walk(ns, data, ef, layer, entry) ==
  LET after[n \in 0..Len(ns)] ==
        IF n = 0 THEN [candidates |-> {entry}, results |-> <<entry>>, visited |-> {entry}]
        ELSE Turn(ns, data, ef, layer, after[n - 1])
  IN after[Len(ns)]

SearchLayer(ns, data, entry, ef, layer) == Sorted(ns, data, Walk(ns, data, ef, layer, entry).results)

\* From the entry point down to a layer, one best node per layer.
Descend(ns, data, entry, from, to) ==
  LET best[n \in 0..from + 1] ==
        IF n = 0 THEN entry ELSE SearchLayer(ns, data, best[n - 1], 1, from + 1 - n)[1]
  IN IF from < to THEN entry ELSE best[from + 1 - to]

\* Mutant of LinkBack: a list that becomes too long is left so.
LinkBackUncut(ns, new, data, layer, n) ==
  IF layer >= LayersOf(ns, n) THEN ns ELSE [ns EXCEPT ![n].links[layer + 1] = Append(@, new)]

\* A neighbour links back to the new node, if it reaches the layer and does not
\* yet, and cuts its list to the nearest if it becomes too long.  The new node is
\* not stored yet.
LinkBack(ns, new, data, layer, n) ==
  LET all == Append(LinksAt(ns, n, layer), new)
      known == Append(ns, [id |-> Absent, data |-> data, links |-> <<>>])
  IN IF layer >= LayersOf(ns, n) \/ new \in Range(LinksAt(ns, n, layer)) THEN ns
     ELSE [ns EXCEPT ![n].links[layer + 1] =
             IF Len(all) > MaxLinks(layer) THEN Nearest(known, ns[n].data, all, MaxLinks(layer)) ELSE all]

\* All of the nodes chosen link back.
LinkAllBack(ns, new, data, layer, chosen) ==
  LET after[i \in 0..Len(chosen)] ==
        IF i = 0 THEN ns ELSE LinkBack(after[i - 1], new, data, layer, chosen[i])
  IN after[Len(chosen)]

\* The links of the new node in one layer.
LinkedIn(layer, data, entry, linked) ==
  LET ns == linked.nodes
      chosen == Nearest(ns, data, SearchLayer(ns, data, entry, EfConstruction, layer), MaxLinks(layer))
  IN [nodes |-> LinkAllBack(ns, Len(ns) + 1, data, layer, chosen),
      links |-> [linked.links EXCEPT ![layer + 1] = chosen]]

\* The links made in the layers from top down to 0, starting at entry in each.
Linked(ns, data, entry, top, own) ==
  LET after[n \in 0..top + 1] ==
        IF n = 0 THEN [nodes |-> ns, links |-> own] ELSE LinkedIn(top + 1 - n, data, entry, after[n - 1])
  IN after[top + 1]

\* A new node in the layers 0 to level.
Inserted(vector, level) ==
  LET none == [i \in 1..level + 1 |-> <<>>]
      start == Descend(nodes, vector.data, entry_point, LayersOf(nodes, entry_point) - 1, level)
      linked == IF entry_point = 0 THEN [nodes |-> nodes, links |-> none]
                ELSE Linked(nodes, vector.data, start, LeastOf(level, Len(nodes) - 1), none)
  IN Append(linked.nodes, [id |-> vector.id, data |-> vector.data, links |-> linked.links])

----------------------------------------------------------------------------
Init ==
  /\ nodes = <<>>
  /\ index = [id \in Ids |-> 0]
  /\ dimension = 0
  /\ entry_point = 0
  /\ left = <<>>
  /\ answer = Ok

BeginAdd(batch) ==
  /\ Idle
  /\ left' = batch
  /\ answer' = Busy
  /\ UNCHANGED <<nodes, index, dimension, entry_point>>

Fits(vector) ==
  /\ dimension = 0 \/ vector.dimension = dimension
  /\ Len(vector.data) = vector.dimension

\* A vector whose id is known takes the place, and the links, of the old one.
Replace ==
  LET vector == Head(left) IN
  /\ left # <<>> /\ Fits(vector)
  /\ index[vector.id] # 0
  /\ nodes' = [nodes EXCEPT ![index[vector.id]].data = vector.data]
  /\ dimension' = vector.dimension
  /\ left' = Tail(left)
  /\ UNCHANGED <<index, entry_point, answer>>

\* Any other becomes a new node, and the entry point.
Insert ==
  LET vector == Head(left) IN
  /\ left # <<>> /\ Fits(vector)
  /\ index[vector.id] = 0
  /\ \E level \in 0..LeastOf(MaxLevel, Len(nodes)) : nodes' = Inserted(vector, level)
  /\ index' = [index EXCEPT ![vector.id] = Len(nodes) + 1]
  /\ entry_point' = Len(nodes) + 1
  /\ dimension' = vector.dimension
  /\ left' = Tail(left)
  /\ UNCHANGED answer

\* The call fails in the middle; a first vector has already set the dimension.
RejectVector ==
  /\ left # <<>> /\ ~Fits(Head(left))
  /\ dimension' = IF dimension = 0 THEN Head(left).dimension ELSE dimension
  /\ left' = <<>>
  /\ answer' = Err
  /\ UNCHANGED <<nodes, index, entry_point>>

EndAdd ==
  /\ ~Idle /\ left = <<>>
  /\ answer' = Ok
  /\ UNCHANGED <<nodes, index, dimension, entry_point, left>>

Clear ==
  /\ Idle
  /\ nodes' = <<>>
  /\ index' = [id \in Ids |-> 0]
  /\ dimension' = 0
  /\ entry_point' = 0
  /\ answer' = Ok
  /\ UNCHANGED left

Find(id) ==
  /\ Idle
  /\ answer' = IF index[id] # 0 THEN Answer("found", 0, nodes[index[id]].data, <<>>)
                                ELSE Answer("none", 0, <<>>, <<>>)
  /\ UNCHANGED <<nodes, index, dimension, entry_point, left>>

IsZero(data) == \A i \in DOMAIN data : data[i] = 0

\* What the walk through layer 0 finds, filtered and cut: it is sorted, so what
\* scores enough comes first.
Results(q) ==
  LET start == Descend(nodes, q.data, entry_point, LayersOf(nodes, entry_point) - 1, 1)
      width == IF EfSearch > q.top_k THEN EfSearch ELSE q.top_k
      found == SearchLayer(nodes, q.data, start, width, 0)
      enough == {i \in DOMAIN found : Score(q.data, nodes[found[i]].data) >= q.min_score}
  IN [i \in 1..LeastOf(q.top_k, Cardinality(enough)) |-> nodes[found[i]].id]

Search(q) ==
  /\ Idle
  /\ answer' = IF nodes = <<>> \/ q.top_k = 0 THEN Answer("ranked", 0, <<>>, <<>>)
               ELSE IF Len(q.data) # dimension THEN Err
               ELSE IF IsZero(q.data) THEN Answer("ranked", 0, <<>>, <<>>)
               ELSE Answer("ranked", 0, <<>>, Results(q))
  /\ UNCHANGED <<nodes, index, dimension, entry_point, left>>

\* save, and load in another process: the file has the nodes with their links, and
\* the width of the walk of add is the default again.
Reopen ==
  /\ Idle
  /\ index' = [id \in Ids |-> IF \E n \in DOMAIN nodes : nodes[n].id = id
                              THEN CHOOSE n \in DOMAIN nodes : nodes[n].id = id ELSE 0]
  /\ UNCHANGED <<nodes, dimension, entry_point, left, answer>>

Next ==
  \/ \E batch \in Batches : BeginAdd(batch)
  \/ Replace
  \/ Insert
  \/ RejectVector
  \/ EndAdd
  \/ Clear
  \/ \E id \in Ids : Find(id)
  \/ \E q \in Queries : Search(q)
  \/ Reopen

----------------------------------------------------------------------------
(* Properties *)

\* Every link leads to another node of its layer or of a lower one, none twice,
\* and no list is longer than its layer allows, so that a walk neither runs out
\* of the array nor degrades to a scan; the entry point is a node.
GraphIsSound ==
  /\ (entry_point = 0) <=> (nodes = <<>>)
  /\ entry_point \in 0..Len(nodes)
  /\ \A n \in DOMAIN nodes : \A layer \in 0..LayersOf(nodes, n) - 1 :
       LET list == LinksAt(nodes, n, layer) IN
       /\ Range(list) \subseteq DOMAIN nodes \ {n}
       /\ IsInjective(list)
       /\ Len(list) <= MaxLinks(layer)

Map == INSTANCE VectorMap WITH
  content <- [id \in Ids |-> IF index[id] # 0 THEN nodes[index[id]].data ELSE Absent],
  file <- [readable |-> FALSE, dimension |-> 0, content |-> [id \in Ids |-> Absent]]
=============================================================================
