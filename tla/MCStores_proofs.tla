--------------------------- MODULE MCStores_proofs ---------------------------
(***************************************************************************)
(* Proofs about the vector stores and the cache of searches, as MCStores   *)
(* puts them together: for any ids, arguments, capacities and widths.      *)
(*                                                                         *)
(* Each part has an invariant of its own, which its own steps keep; the    *)
(* steps of the other parts leave its variables alone or are not its.      *)
(***************************************************************************)
EXTENDS MCStores, DataLemmas

(***************************************************************************)
(* InMemoryVectorStore, alone                                              *)
(***************************************************************************)

\* No id is in the array twice.
Distinct(vs) == \A i, j \in DOMAIN vs : vs[i].id = vs[j].id => i = j

\* ix has the position of each id of the array.
Indexes(ix, vs) ==
  /\ ix \in [Ids -> Nat]
  /\ \A i \in DOMAIN vs : ix[vs[i].id] = i
  /\ \A id \in Ids : ix[id] # 0 => ix[id] \in DOMAIN vs /\ vs[ix[id]].id = id

\* The vectors have one dimension, which is set as soon as there is one.
Even(vs, d) == \A i \in DOMAIN vs : Len(vs[i].data) = d /\ d # 0

\* Where a call is: add has the rest of its batch, remove its positions, which
\* are in the array.
Calls ==
  /\ left # <<>> => answer = Busy
  /\ answer # Removing => todo = {} /\ Indexes(index, vectors)
  /\ todo \subseteq DOMAIN vectors

\* The inductive invariant: what is loaded is as good as what is stored.
StoreInv ==
  /\ TypeOK
  /\ Calls
  /\ Distinct(vectors) /\ Distinct(file.vectors)
  /\ Even(vectors, dimension) /\ Even(file.vectors, file.dimension)

----------------------------------------------------------------------------
LEMMA Assumptions == Batches \subseteq Seq(Vector) /\ Absent \notin Seq(Int)
BY StoreAssumption

LEMMA Kinds ==
  /\ Busy # Removing /\ Ok # Busy /\ Ok # Removing /\ Err # Busy /\ Err # Removing
  /\ Panicked # Removing
BY DEF Busy, Removing, Ok, Err, Panicked, Answer

LEMMA ArrayFacts ==
  ASSUME NEW vs \in Seq(EntryType)
  PROVE  /\ Len(vs) \in Nat /\ DOMAIN vs = 1..Len(vs)
         /\ \A i \in DOMAIN vs : vs[i] \in EntryType /\ vs[i].id \in Ids /\ vs[i].data \in Seq(Int)
<1>1. Len(vs) \in Nat /\ DOMAIN vs = 1..Len(vs) /\ \A i \in 1..Len(vs) : vs[i] \in EntryType
  BY LenProperties, ElementOfSeq
<1>2. \A e \in EntryType : e.id \in Ids /\ e.data \in Seq(Int)
  BY DEF EntryType
<1> HIDE DEF EntryType
<1> QED
  BY <1>1, <1>2

\* Inserting every position in turn indexes an array without doubles, and there
\* is no other index of it.
LEMMA IndexOfIndexes ==
  ASSUME NEW vs \in Seq(EntryType), Distinct(vs)
  PROVE  Indexes(IndexOf(vs), vs)
<1>1. DOMAIN vs \subseteq Nat \ {0} /\ \A i \in DOMAIN vs : vs[i].id \in Ids
  BY ArrayFacts
<1>2. ASSUME NEW id \in Ids
      PROVE  /\ IndexOf(vs)[id] \in Nat
             /\ \A i \in DOMAIN vs : vs[i].id = id => IndexOf(vs)[id] = i
             /\ IndexOf(vs)[id] # 0 => IndexOf(vs)[id] \in DOMAIN vs /\ vs[IndexOf(vs)[id]].id = id
  <2> DEFINE last(i) == i \in DOMAIN vs /\ vs[i].id = id /\ \A j \in DOMAIN vs : vs[j].id = id => j <= i
  <2>1. CASE \E i \in DOMAIN vs : vs[i].id = id
    <3>1. PICK i \in DOMAIN vs : vs[i].id = id
      BY <2>1
    <3>2. i \in Nat /\ \A j \in DOMAIN vs : vs[j].id = id => j = i
      BY <1>1, <3>1 DEF Distinct
    <3>3. \A k \in DOMAIN vs :
            (vs[k].id = id /\ \A j \in DOMAIN vs : vs[j].id = id => j <= k) <=> k = i
      BY <3>1, <3>2
    <3>4. IndexOf(vs)[id] = i
      BY <2>1, <3>3 DEF IndexOf
    <3> QED
      BY <3>1, <3>2, <3>4
  <2>2. CASE ~\E i \in DOMAIN vs : vs[i].id = id
    BY <2>2 DEF IndexOf
  <2> QED
    BY <2>1, <2>2
<1>3. IndexOf(vs) \in [Ids -> Nat]
  BY <1>2 DEF IndexOf
<1> QED
  BY <1>1, <1>2, <1>3 DEF Indexes

LEMMA IndexIsUnique ==
  ASSUME NEW vs, NEW a, NEW b, Indexes(a, vs), Indexes(b, vs)
  PROVE  a = b
<1>1. a \in [Ids -> Nat] /\ b \in [Ids -> Nat]
  BY DEF Indexes
<1>2. \A id \in Ids : a[id] = b[id]
  BY DEF Indexes
<1> QED
  BY <1>1, <1>2

LEMMA IndexedMeansDistinct ==
  ASSUME NEW vs, NEW a, Indexes(a, vs)
  PROVE  Distinct(vs)
BY DEF Indexes, Distinct

\* Overwriting an entry with one of the same id.
LEMMA OverwriteFacts ==
  ASSUME NEW vs \in Seq(EntryType), NEW a, Indexes(a, vs),
         NEW e \in EntryType, NEW i, i = a[e.id], i # 0
  PROVE  /\ [vs EXCEPT ![i] = e] \in Seq(EntryType)
         /\ DOMAIN [vs EXCEPT ![i] = e] = DOMAIN vs
         /\ Indexes(a, [vs EXCEPT ![i] = e])
         /\ i \in DOMAIN vs /\ vs[i].id = e.id
         /\ \A j \in DOMAIN vs : [vs EXCEPT ![i] = e][j] = IF j = i THEN e ELSE vs[j]
<1>1. i \in DOMAIN vs /\ vs[i].id = e.id
  BY DEF Indexes, EntryType
<1> DEFINE new == [vs EXCEPT ![i] = e]
<1>2. /\ new \in Seq(EntryType) /\ DOMAIN new = DOMAIN vs
      /\ \A j \in DOMAIN vs : new[j] = IF j = i THEN e ELSE vs[j]
  BY <1>1
<1> HIDE DEF new
<1>3. Indexes(a, new)
  BY <1>1, <1>2 DEF Indexes
<1> QED
  BY <1>1, <1>2, <1>3 DEF new

\* Pushing an entry with an id that the array does not have.
LEMMA PushedFacts ==
  ASSUME NEW vs \in Seq(EntryType), NEW a, Indexes(a, vs),
         NEW e \in EntryType, a[e.id] = 0
  PROVE  LET new == Append(vs, e)
             b == [a EXCEPT ![e.id] = Len(vs) + 1]
         IN /\ new \in Seq(EntryType) /\ DOMAIN new = 1..Len(vs) + 1
            /\ Indexes(b, new)
            /\ new[Len(vs) + 1] = e /\ \A i \in DOMAIN vs : new[i] = vs[i]
<1> DEFINE new == Append(vs, e)
           b == [a EXCEPT ![e.id] = Len(vs) + 1]
<1>1. /\ Len(vs) \in Nat /\ DOMAIN vs = 1..Len(vs) /\ e.id \in Ids
      /\ \A i \in DOMAIN vs : vs[i].id \in Ids /\ vs[i].id # e.id
  <2>1. \A i \in DOMAIN vs : a[vs[i].id] = i /\ i # 0
    BY ArrayFacts DEF Indexes
  <2> QED
    BY <2>1, ArrayFacts DEF EntryType
<1>2. /\ new \in Seq(EntryType) /\ Len(new) = Len(vs) + 1
      /\ new[Len(vs) + 1] = e /\ \A i \in 1..Len(vs) : new[i] = vs[i]
  BY AppendProperties
<1>3. DOMAIN new = 1..Len(vs) + 1
  BY <1>1, <1>2
<1>4. b \in [Ids -> Nat] /\ b[e.id] = Len(vs) + 1 /\ \A id \in Ids : id # e.id => b[id] = a[id]
  BY <1>1 DEF Indexes
<1> HIDE DEF new, b
<1>5. \A i \in DOMAIN new : b[new[i].id] = i
  <2>1. ASSUME NEW i \in 1..Len(vs) PROVE b[new[i].id] = i
    BY <1>1, <1>2, <1>4 DEF Indexes
  <2> QED
    BY <1>1, <1>2, <1>3, <1>4, <2>1
<1>6. ASSUME NEW id \in Ids, b[id] # 0 PROVE b[id] \in DOMAIN new /\ new[b[id]].id = id
  <2>1. CASE id = e.id
    BY <1>1, <1>2, <1>3, <1>4, <2>1
  <2>2. CASE id # e.id
    <3>1. b[id] = a[id] /\ a[id] \in DOMAIN vs /\ vs[a[id]].id = id
      BY <1>4, <1>6, <2>2 DEF Indexes
    <3> QED
      BY <1>1, <1>2, <1>3, <3>1
  <2> QED
    BY <2>1, <2>2
<1>7. Indexes(b, new)
  BY <1>4, <1>5, <1>6 DEF Indexes
<1> QED
  BY <1>1, <1>2, <1>3, <1>7 DEF new, b

\* What is left of an array without the entry at p.
LEMMA RemovedFacts ==
  ASSUME NEW vs \in Seq(EntryType), NEW p \in DOMAIN vs
  PROVE  /\ RemoveAt(vs, p) \in Seq(EntryType)
         /\ DOMAIN RemoveAt(vs, p) = 1..Len(vs) - 1
         /\ \A j \in 1..Len(vs) - 1 :
              RemoveAt(vs, p)[j] = vs[IF j < p THEN j ELSE j + 1]
<1>1. p \in 1..Len(vs) /\ Len(vs) \in Nat
  BY ArrayFacts
<1>2. /\ RemoveAt(vs, p) \in Seq(EntryType)
      /\ Len(RemoveAt(vs, p)) = Len(vs) - 1
      /\ \A j \in 1..Len(vs) - 1 :
           RemoveAt(vs, p)[j] = IF j < p THEN vs[j] ELSE vs[j + 1]
  BY <1>1, RemoveAtFacts
<1>3. DOMAIN RemoveAt(vs, p) = 1..Len(RemoveAt(vs, p))
  BY <1>2, LenProperties
<1> QED
  BY <1>2, <1>3

LEMMA RemovedDistinct ==
  ASSUME NEW vs \in Seq(EntryType), NEW p \in DOMAIN vs, Distinct(vs)
  PROVE  Distinct(RemoveAt(vs, p))
<1>1. DOMAIN vs = 1..Len(vs) /\ Len(vs) \in Nat /\ p \in 1..Len(vs)
  BY ArrayFacts
<1>2. \A i, j \in 1..Len(vs) - 1 :
        /\ (IF i < p THEN i ELSE i + 1) \in DOMAIN vs
        /\ (IF i < p THEN i ELSE i + 1) = (IF j < p THEN j ELSE j + 1) => i = j
  BY <1>1
<1> DEFINE new == RemoveAt(vs, p)
<1>3. /\ DOMAIN new = 1..Len(vs) - 1
      /\ \A j \in 1..Len(vs) - 1 : new[j] = vs[IF j < p THEN j ELSE j + 1]
  BY RemovedFacts
<1> HIDE DEF new
<1>4. ASSUME NEW i \in 1..Len(vs) - 1, NEW j \in 1..Len(vs) - 1, new[i].id = new[j].id
      PROVE  i = j
  <2> DEFINE a == IF i < p THEN i ELSE i + 1
             b == IF j < p THEN j ELSE j + 1
  <2>1. a \in DOMAIN vs /\ b \in DOMAIN vs /\ (a = b => i = j)
    BY <1>2
  <2>2. new[i] = vs[a] /\ new[j] = vs[b]
    BY <1>3
  <2> HIDE DEF a, b
  <2> QED
    BY <1>4, <2>1, <2>2 DEF Distinct
<1> QED
  BY <1>3, <1>4 DEF new, Distinct

\* remove takes the last of its positions.
LEMMA NextPositionFacts ==
  ASSUME vectors \in Seq(EntryType), todo \subseteq DOMAIN vectors, todo # {}
  PROVE  /\ NextPosition \in todo /\ NextPosition \in 1..Len(vectors)
         /\ \A q \in todo : q <= NextPosition
<1>1. Len(vectors) \in Nat /\ DOMAIN vectors = 1..Len(vectors)
  BY ArrayFacts
<1>2. \E p \in todo : \A q \in todo : q <= p
  BY <1>1, LargestExists
<1>3. NextPosition \in todo /\ \A q \in todo : q <= NextPosition
  BY <1>2 DEF NextPosition
<1> QED
  BY <1>1, <1>3

\* The first vector of a batch.
LEMMA HeadFacts ==
  ASSUME left \in Seq(Vector), left # <<>>
  PROVE  /\ Head(left) \in Vector /\ Tail(left) \in Seq(Vector)
         /\ Head(left).id \in Ids /\ Head(left).dimension \in Nat \ {0} /\ Head(left).data \in Seq(Int)
         /\ Entry(Head(left)) \in EntryType
         /\ Entry(Head(left)).id = Head(left).id /\ Entry(Head(left)).data = Head(left).data
<1>1. Head(left) \in Vector /\ Tail(left) \in Seq(Vector)
  BY HeadTailProperties
<1> QED
  BY <1>1 DEF Vector, Entry, EntryType

----------------------------------------------------------------------------
(* The invariant *)

LEMMA InvInit == Init => StoreInv
<1> SUFFICES ASSUME Init PROVE StoreInv
  OBVIOUS
<1>1. <<>> \in Seq(EntryType) /\ <<>> \in Seq(Vector) /\ DOMAIN <<>> = {}
  OBVIOUS
<1>2. TypeOK
  BY <1>1 DEF Init, TypeOK, NoIndex, NoFile
<1>3. Calls
  BY <1>1, Kinds DEF Init, Calls, Indexes, NoIndex
<1>4. Distinct(<<>>) /\ Even(<<>>, 0)
  BY <1>1 DEF Distinct, Even
<1> QED
  BY <1>2, <1>3, <1>4 DEF StoreInv, Init, NoFile

LEMMA InvBeginAdd ==
  ASSUME StoreInv, NEW batch \in Batches, BeginAdd(batch)
  PROVE  StoreInv'
<1>1. batch \in Seq(Vector) /\ answer # Removing
  BY Assumptions DEF BeginAdd, Idle
<1>2. TypeOK'
  BY <1>1 DEF StoreInv, TypeOK, BeginAdd
<1>3. Calls'
  BY <1>1, Kinds DEF StoreInv, Calls, BeginAdd
<1> QED
  BY <1>2, <1>3 DEF StoreInv, BeginAdd

LEMMA InvAddVector ==
  ASSUME StoreInv, AddVector
  PROVE  StoreInv'
<1> DEFINE e == Entry(Head(left))
           i == index[e.id]
<1>1. /\ vectors \in Seq(EntryType) /\ left \in Seq(Vector) /\ left # <<>>
      /\ answer = Busy /\ answer' = Busy /\ Indexes(index, vectors) /\ todo = {}
  BY Kinds DEF AddVector, StoreInv, TypeOK, Calls
<1>2. /\ Tail(left) \in Seq(Vector) /\ e \in EntryType
      /\ e.id = Head(left).id /\ e.id \in Ids /\ Head(left).dimension \in Nat \ {0}
      /\ e.data = Head(left).data
  BY <1>1, HeadFacts
<1>3. /\ dimension' = Head(left).dimension /\ dimension' \in Nat \ {0}
      /\ dimension = 0 \/ dimension = dimension'
      /\ Len(e.data) = dimension'
  BY <1>2 DEF AddVector, Fits
<1>4. vectors' \in Seq(EntryType) /\ Indexes(index', vectors') /\ Even(vectors', dimension')
  <2>1. CASE i # 0
    <3>1. vectors' = [vectors EXCEPT ![i] = e] /\ index' = index
      BY <1>2, <2>1 DEF AddVector
    <3> HIDE DEF e
    <3> HIDE DEF i
    <3>2. /\ vectors' \in Seq(EntryType) /\ DOMAIN vectors' = DOMAIN vectors
          /\ Indexes(index, vectors') /\ i \in DOMAIN vectors
          /\ \A j \in DOMAIN vectors : vectors'[j] = IF j = i THEN e ELSE vectors[j]
      <4>1. i = index[e.id]
        BY DEF i
      <4>2. vectors \in Seq(EntryType) /\ Indexes(index, vectors) /\ e \in EntryType /\ i # 0
        BY <1>1, <1>2, <2>1
      <4>3. /\ [vectors EXCEPT ![i] = e] \in Seq(EntryType)
            /\ DOMAIN [vectors EXCEPT ![i] = e] = DOMAIN vectors
            /\ Indexes(index, [vectors EXCEPT ![i] = e])
            /\ i \in DOMAIN vectors
            /\ \A j \in DOMAIN vectors :
                 [vectors EXCEPT ![i] = e][j] = IF j = i THEN e ELSE vectors[j]
        BY <4>1, <4>2, OverwriteFacts
      <4> QED
        BY <3>1, <4>3
    <3> QED
      BY <1>3, <3>1, <3>2 DEF StoreInv, Even
  <2>2. CASE i = 0
    <3>1. /\ vectors' = Append(vectors, e)
          /\ index' = [index EXCEPT ![e.id] = Len(vectors) + 1]
      BY <1>2, <2>2 DEF AddVector
    <3>2. /\ vectors' \in Seq(EntryType) /\ DOMAIN vectors' = 1..Len(vectors) + 1
          /\ Indexes(index', vectors') /\ vectors'[Len(vectors) + 1] = e
          /\ \A j \in DOMAIN vectors : vectors'[j] = vectors[j]
      <4> HIDE DEF e
      <4>1. index[e.id] = 0 /\ e \in EntryType
        BY <1>2, <2>2
      <4> QED
        BY <1>1, <3>1, <4>1, PushedFacts
    <3>3. \A j \in DOMAIN vectors' : j \in DOMAIN vectors \/ j = Len(vectors) + 1
      BY <1>1, <3>2, ArrayFacts
    <3> HIDE DEF e, i
    <3> QED
      BY <1>3, <3>1, <3>2, <3>3 DEF StoreInv, Even
  <2> QED
    BY <2>1, <2>2
<1>5. index' \in [Ids -> Nat] /\ Distinct(vectors')
  BY <1>4, IndexedMeansDistinct DEF Indexes
<1>6. TypeOK'
  BY <1>2, <1>3, <1>4, <1>5 DEF AddVector, StoreInv, TypeOK
<1>7. Calls'
  BY <1>1, <1>4, Kinds DEF AddVector, Calls
<1> QED
  BY <1>4, <1>5, <1>6, <1>7 DEF AddVector, StoreInv

LEMMA InvRejectVector ==
  ASSUME StoreInv, RejectVector
  PROVE  StoreInv'
<1>1. /\ left \in Seq(Vector) /\ left # <<>> /\ dimension \in Nat
      /\ answer # Removing /\ answer' # Removing
  BY Kinds DEF RejectVector, StoreInv, TypeOK, Calls
<1>2. dimension' \in Nat /\ (dimension = 0 \/ dimension' = dimension)
  BY <1>1, HeadFacts DEF RejectVector
<1>3. TypeOK'
  BY <1>2 DEF RejectVector, StoreInv, TypeOK
<1>4. Calls'
  BY <1>1 DEF RejectVector, StoreInv, Calls
<1>5. Even(vectors, dimension')
  BY <1>2 DEF StoreInv, Even
<1> QED
  BY <1>3, <1>4, <1>5 DEF RejectVector, StoreInv

\* The steps that change no array.
LEMMA InvAnswered ==
  ASSUME StoreInv, answer # Removing, answer' # Removing,
         left = <<>> \/ answer' = Busy,
         UNCHANGED <<vectors, index, dimension, left, todo, removed, file>>
  PROVE  StoreInv'
<1>1. TypeOK'
  BY DEF StoreInv, TypeOK
<1>2. Calls'
  BY DEF StoreInv, Calls
<1> QED
  BY <1>1, <1>2 DEF StoreInv

\* An idle store is not adding.
LEMMA IdleFacts ==
  ASSUME StoreInv, Idle
  PROVE  /\ answer # Busy /\ answer # Removing /\ left = <<>> /\ todo = {}
         /\ Indexes(index, vectors)
BY DEF StoreInv, Calls, Idle

LEMMA InvBeginRemove ==
  ASSUME StoreInv, NEW ids \in SUBSET Ids, BeginRemove(ids)
  PROVE  StoreInv'
<1>1. left = <<>> /\ Indexes(index, vectors) /\ vectors \in Seq(EntryType)
  BY IdleFacts DEF BeginRemove, StoreInv, TypeOK
<1>2. index' \in [Ids -> Nat]
  BY <1>1 DEF BeginRemove, Indexes
<1>3. todo' \subseteq DOMAIN vectors /\ todo' \subseteq Nat \ {0}
  BY <1>1, ArrayFacts DEF BeginRemove, Indexes
<1>4. TypeOK'
  BY <1>2, <1>3 DEF BeginRemove, StoreInv, TypeOK
<1>5. Calls'
  BY <1>1, <1>3 DEF BeginRemove, Calls
<1> QED
  BY <1>4, <1>5 DEF BeginRemove, StoreInv

\* One removal: the positions still to be removed stay where they are.
LEMMA RemoveVectorFacts ==
  ASSUME StoreInv, RemoveVector
  PROVE  /\ answer = Removing /\ vectors \in Seq(EntryType)
         /\ NextPosition \in todo /\ NextPosition \in 1..Len(vectors)
         /\ Len(vectors) \in Nat /\ DOMAIN vectors = 1..Len(vectors)
         /\ \A q \in todo' : q < NextPosition
         /\ todo' = todo \ {NextPosition}
         /\ vectors' = RemoveAt(vectors, NextPosition) /\ removed' = removed + 1
         /\ UNCHANGED <<index, dimension, left, answer, file>>
<1>1. /\ vectors \in Seq(EntryType) /\ todo \subseteq DOMAIN vectors /\ todo # {}
      /\ answer = Removing
  BY DEF StoreInv, TypeOK, Calls, RemoveVector
<1>2. Len(vectors) \in Nat /\ DOMAIN vectors = 1..Len(vectors)
  BY <1>1, ArrayFacts
<1>3. /\ NextPosition \in todo /\ NextPosition \in 1..Len(vectors)
      /\ \A q \in todo : q <= NextPosition
  BY <1>1, NextPositionFacts
<1>4. \A q \in todo \ {NextPosition} : q < NextPosition
  BY <1>1, <1>2, <1>3
<1> QED
  BY <1>1, <1>2, <1>3, <1>4 DEF RemoveVector

LEMMA InvRemoveVector ==
  ASSUME StoreInv, RemoveVector
  PROVE  StoreInv'
<1> DEFINE p == NextPosition
<1>1. /\ vectors' = RemoveAt(vectors, p) /\ vectors \in Seq(EntryType) /\ p \in DOMAIN vectors
      /\ Len(vectors) \in Nat /\ p \in 1..Len(vectors) /\ DOMAIN vectors = 1..Len(vectors)
      /\ todo' = todo \ {p} /\ \A q \in todo' : q < p
      /\ removed' = removed + 1 /\ answer = Removing
      /\ UNCHANGED <<index, dimension, left, answer, file>>
  BY RemoveVectorFacts
<1> HIDE DEF p
<1>2. /\ vectors' \in Seq(EntryType) /\ DOMAIN vectors' = 1..Len(vectors) - 1
      /\ \A j \in 1..Len(vectors) - 1 : vectors'[j] = vectors[IF j < p THEN j ELSE j + 1]
  BY <1>1, RemovedFacts
<1>3. Distinct(vectors')
  BY <1>1, RemovedDistinct DEF StoreInv
<1>4. Even(vectors', dimension')
  <2>1. \A j \in 1..Len(vectors) - 1 : (IF j < p THEN j ELSE j + 1) \in DOMAIN vectors
    BY <1>1
  <2>2. \A j \in DOMAIN vectors' : \E i \in DOMAIN vectors : vectors'[j] = vectors[i]
    BY <1>2, <2>1
  <2>3. \A i \in DOMAIN vectors : Len(vectors[i].data) = dimension /\ dimension # 0
    BY DEF StoreInv, Even
  <2>4. dimension' = dimension
    BY <1>1
  <2> QED
    BY <2>2, <2>3, <2>4 DEF Even
<1>5. todo' \subseteq DOMAIN vectors'
  <2>1. ASSUME NEW q \in todo' PROVE q \in 1..Len(vectors) - 1
    <3>1. q \in 1..Len(vectors) /\ q < p
      BY <1>1 DEF StoreInv, Calls
    <3> QED
      BY <1>1, <3>1
  <2> QED
    BY <1>2, <2>1
<1>6. TypeOK'
  <2>1. removed' \in Nat /\ todo' \subseteq Nat \ {0}
    <3>1. removed \in Nat /\ todo \subseteq Nat \ {0}
      BY DEF StoreInv, TypeOK
    <3>2. todo' \subseteq todo /\ removed' = removed + 1
      BY <1>1
    <3> QED
      BY <3>1, <3>2
  <2> QED
    BY <1>1, <1>2, <2>1 DEF StoreInv, TypeOK
<1>7. Calls'
  BY <1>1, <1>5 DEF StoreInv, Calls
<1> QED
  BY <1>1, <1>3, <1>4, <1>6, <1>7 DEF StoreInv

LEMMA InvEndRemove ==
  ASSUME StoreInv, EndRemove
  PROVE  StoreInv'
<1>1. /\ answer = Removing /\ answer' # Removing /\ todo' = {} /\ left = <<>>
      /\ index' = IndexOf(vectors) /\ vectors \in Seq(EntryType)
  BY Kinds DEF EndRemove, StoreInv, TypeOK, Calls, Removing, Answer
<1>2. Indexes(index', vectors)
  BY <1>1, IndexOfIndexes DEF StoreInv
<1>3. TypeOK'
  BY <1>2 DEF EndRemove, StoreInv, TypeOK, Indexes
<1>4. Calls'
  BY <1>1, <1>2 DEF EndRemove, Calls
<1> QED
  BY <1>3, <1>4 DEF EndRemove, StoreInv

LEMMA InvClear ==
  ASSUME StoreInv, Clear
  PROVE  StoreInv'
<1>1. <<>> \in Seq(EntryType) /\ DOMAIN <<>> = {}
  OBVIOUS
<1>2. left = <<>> /\ todo = {}
  BY IdleFacts DEF Clear
<1>3. Indexes(NoIndex, <<>>)
  BY <1>1 DEF Indexes, NoIndex
<1>4. TypeOK'
  BY <1>1, <1>3 DEF Clear, StoreInv, TypeOK, Indexes
<1>5. Calls'
  BY <1>2, <1>3, Kinds DEF Clear, Calls
<1>6. Distinct(<<>>) /\ Even(<<>>, 0)
  BY <1>1 DEF Distinct, Even
<1> QED
  BY <1>4, <1>5, <1>6 DEF Clear, StoreInv

LEMMA InvSave ==
  ASSUME StoreInv, Save
  PROVE  StoreInv'
<1>1. left = <<>> /\ answer # Removing /\ answer' # Removing
  BY IdleFacts, Kinds DEF Save
<1>2. /\ file'.readable \in BOOLEAN /\ file'.dimension \in Nat /\ file'.vectors \in Seq(EntryType)
      /\ file' \in [readable : BOOLEAN, dimension : Nat, vectors : Seq(EntryType)]
      /\ Distinct(file'.vectors) /\ Even(file'.vectors, file'.dimension)
  <2>1. CASE file' = [readable |-> TRUE, dimension |-> dimension, vectors |-> vectors]
    BY <2>1 DEF StoreInv, TypeOK
  <2>2. CASE file' = file
    BY <2>2 DEF StoreInv, TypeOK
  <2>3. CASE file' = NoFile
    <3>1. <<>> \in Seq(EntryType) /\ DOMAIN <<>> = {}
      OBVIOUS
    <3>2. Distinct(<<>>) /\ Even(<<>>, 0)
      BY <3>1 DEF Distinct, Even
    <3> QED
      BY <2>3, <3>1, <3>2 DEF NoFile
  <2> QED
    BY <2>1, <2>2, <2>3 DEF Save
<1>3. TypeOK'
  BY <1>2 DEF Save, StoreInv, TypeOK
<1>4. Calls'
  BY <1>1 DEF Save, StoreInv, Calls
<1> QED
  BY <1>2, <1>3, <1>4 DEF Save, StoreInv

LEMMA InvLoad ==
  ASSUME StoreInv, Load
  PROVE  StoreInv'
<1>1. left = <<>> /\ todo = {} /\ answer # Removing /\ answer' # Removing
  BY IdleFacts, Kinds DEF Load
<1>2. CASE file.readable
  <2>1. /\ file.vectors \in Seq(EntryType) /\ file.dimension \in Nat
        /\ vectors' = file.vectors /\ dimension' = file.dimension
        /\ Indexes(index', vectors')
    BY <1>2, IndexOfIndexes DEF Load, StoreInv, TypeOK
  <2>2. TypeOK'
    BY <2>1 DEF Load, StoreInv, TypeOK, Indexes
  <2>3. Calls'
    BY <1>1, <2>1 DEF Load, Calls
  <2> QED
    BY <2>1, <2>2, <2>3 DEF Load, StoreInv
<1>3. CASE ~file.readable
  BY <1>1, <1>3, InvAnswered DEF Load
<1> QED
  BY <1>2, <1>3

LEMMA InvNext == StoreInv /\ [Next]_vars => StoreInv'
<1> SUFFICES ASSUME StoreInv, [Next]_vars PROVE StoreInv'
  OBVIOUS
<1>1. CASE AddVector
  BY <1>1, InvAddVector
<1>2. CASE RejectVector
  BY <1>2, InvRejectVector
<1>3. CASE EndAdd
  BY <1>3, InvAnswered, Kinds DEF EndAdd
<1>4. CASE RemoveVector
  BY <1>4, InvRemoveVector
<1>5. CASE EndRemove
  BY <1>5, InvEndRemove
<1>6. CASE Clear
  BY <1>6, InvClear
<1>7. ASSUME NEW id \in Ids, Find(id) PROVE StoreInv'
  <2>1. answer' # Removing
    BY <1>7 DEF Find, Removing, Answer
  <2> QED
    BY <1>7, <2>1, IdleFacts, InvAnswered DEF Find
<1>8. ASSUME NEW q \in Queries, Search(q) PROVE StoreInv'
  <2>1. answer' # Removing
    BY <1>8, Kinds DEF Search, Removing, Answer, Err
  <2> QED
    BY <1>8, <2>1, IdleFacts, InvAnswered DEF Search
<1>9. CASE Save
  BY <1>9, InvSave
<1>10. CASE Load
  BY <1>10, InvLoad
<1>11. CASE UNCHANGED vars
  BY <1>11 DEF vars, StoreInv, TypeOK, Calls
<1> QED
  BY <1>1, <1>2, <1>3, <1>4, <1>5, <1>6, <1>7, <1>8, <1>9, <1>10, <1>11,
     InvBeginAdd, InvBeginRemove DEF Next

LEMMA Invariance == Spec => []StoreInv
BY InvInit, InvNext, PTL DEF Spec

----------------------------------------------------------------------------
(* The theorems *)

LEMMA InvMeansIndexMatches == StoreInv => IndexMatchesVectors
<1> SUFFICES ASSUME StoreInv PROVE IndexMatchesVectors
  OBVIOUS
<1>1. Distinct(vectors) /\ vectors \in Seq(EntryType)
  BY DEF StoreInv, TypeOK
<1>2. answer # Removing => index = IndexOf(vectors)
  BY <1>1, IndexOfIndexes, IndexIsUnique DEF StoreInv, Calls
<1> QED
  BY <1>1, <1>2 DEF IndexMatchesVectors, Distinct

\* No id is stored twice, and outside of remove the index has exactly the
\* position of each, for any batches, ids and order of the calls, and whatever
\* was half added, half saved or loaded (InMemoryVectorStore).
THEOREM StoreIndexMatches == Spec => []IndexMatchesVectors
BY Invariance, InvMeansIndexMatches, PTL

\* All vectors have the dimension of the store, except empty ones added before
\* that was set (add, remove, clear, load).
THEOREM StoreHasOneDimension == Spec => []OneDimension
<1>1. StoreInv => OneDimension
  BY DEF StoreInv, Even, OneDimension
<1> QED
  BY Invariance, <1>1, PTL

----------------------------------------------------------------------------
(* InMemoryVectorStore implements VectorMap *)

\* The numbers that a search compares: the scores of data of the query's length,
\* as cosine_similarity takes no others.
Comparable ==
  \A q \in Queries :
    /\ q.top_k \in Nat /\ q.min_score \in Int
    /\ \A data \in Seq(Int) : Len(data) = Len(q.data) => Score(q.data, data) \in Int

\* What the refinement mapping substitutes.
Content == DataIn(vectors, todo)
Shown == IF answer = Removing THEN Answer("removed", removed + Cardinality(todo), <<>>, <<>>)
         ELSE answer
FileContent == [readable |-> file.readable, dimension |-> file.dimension,
                content |-> DataIn(file.vectors, {})]

LEMMA MappedVars ==
  /\ Map!vars = <<Content, dimension, left, Shown, FileContent>>
  /\ Map!Idle <=> Shown # Busy
BY DEF Map!vars, Map!Idle, Map!Busy, Map!Answer, Content, Shown, FileContent, Busy, Answer

LEMMA SameCardinality == \A S : Map!Cardinality(S) = Cardinality(S)
BY Zenon DEF Map!Cardinality, Cardinality

\* The array read as a map: the data of each entry that is not gone.
LEMMA DataInFacts ==
  ASSUME NEW vs \in Seq(EntryType), Distinct(vs), NEW gone
  PROVE  /\ DataIn(vs, gone) = [id \in Ids |-> DataIn(vs, gone)[id]]
         /\ \A i \in DOMAIN vs \ gone : DataIn(vs, gone)[vs[i].id] = vs[i].data
         /\ \A id \in Ids : (\A i \in DOMAIN vs \ gone : vs[i].id # id) => DataIn(vs, gone)[id] = Absent
<1>1. DataIn(vs, gone) = [id \in Ids |-> DataIn(vs, gone)[id]]
  BY DEF DataIn
<1>2. ASSUME NEW i \in DOMAIN vs \ gone PROVE DataIn(vs, gone)[vs[i].id] = vs[i].data
  <2>1. vs[i].id \in Ids /\ \A j \in DOMAIN vs \ gone : vs[j].id = vs[i].id => j = i
    BY ArrayFacts DEF Distinct
  <2>2. i = CHOOSE j \in DOMAIN vs \ gone : vs[j].id = vs[i].id
    BY <2>1
  <2> QED
    BY <2>1, <2>2 DEF DataIn
<1>3. \A id \in Ids : (\A i \in DOMAIN vs \ gone : vs[i].id # id) => DataIn(vs, gone)[id] = Absent
  BY DEF DataIn
<1> QED
  BY <1>1, <1>2, <1>3

\* Two arrays with the same entries left are the same map.
LEMMA SameData ==
  ASSUME NEW vs \in Seq(EntryType), Distinct(vs), NEW gone,
         NEW ws \in Seq(EntryType), Distinct(ws), NEW lost,
         \A i \in DOMAIN vs \ gone : \E j \in DOMAIN ws \ lost : ws[j] = vs[i],
         \A j \in DOMAIN ws \ lost : \E i \in DOMAIN vs \ gone : vs[i] = ws[j]
  PROVE  DataIn(vs, gone) = DataIn(ws, lost)
<1>1. ASSUME NEW id \in Ids PROVE DataIn(vs, gone)[id] = DataIn(ws, lost)[id]
  <2>1. CASE \E i \in DOMAIN vs \ gone : vs[i].id = id
    <3>1. PICK i \in DOMAIN vs \ gone : vs[i].id = id
      BY <2>1
    <3>2. PICK j \in DOMAIN ws \ lost : ws[j] = vs[i]
      BY <3>1
    <3>3. DataIn(vs, gone)[id] = vs[i].data
      <4>1. \A k \in DOMAIN vs \ gone : DataIn(vs, gone)[vs[k].id] = vs[k].data
        BY ONLY vs \in Seq(EntryType), Distinct(vs), DataInFacts
      <4> QED
        BY <3>1, <4>1
    <3>4. DataIn(ws, lost)[id] = ws[j].data
      <4>1. \A k \in DOMAIN ws \ lost : DataIn(ws, lost)[ws[k].id] = ws[k].data
        BY ONLY ws \in Seq(EntryType), Distinct(ws), DataInFacts
      <4> QED
        BY <3>1, <3>2, <4>1
    <3> QED
      BY <3>2, <3>3, <3>4
  <2>2. CASE \A i \in DOMAIN vs \ gone : vs[i].id # id
    <3>1. \A j \in DOMAIN ws \ lost : ws[j].id # id
      BY <2>2
    <3> QED
      BY <2>2, <3>1, DataInFacts
  <2> QED
    BY <2>1, <2>2
<1>2. /\ DataIn(vs, gone) = [id \in Ids |-> DataIn(vs, gone)[id]]
      /\ DataIn(ws, lost) = [id \in Ids |-> DataIn(ws, lost)[id]]
  BY DataInFacts
<1> QED
  BY <1>1, <1>2

\* An id is stored when an entry that is not gone has it.
LEMMA StoredIds ==
  ASSUME vectors \in Seq(EntryType), Distinct(vectors)
  PROVE  /\ \A i \in DOMAIN vectors \ todo :
              vectors[i].id \in Ids /\ Content[vectors[i].id] = vectors[i].data
         /\ \A i \in DOMAIN vectors \ todo : vectors[i].id \in Map!Stored
         /\ \A id \in Map!Stored : \E i \in DOMAIN vectors \ todo : vectors[i].id = id
<1>1. \A i \in DOMAIN vectors : vectors[i].id \in Ids /\ vectors[i].data \in Seq(Int)
  BY ArrayFacts
<1>2. \A i \in DOMAIN vectors \ todo : Content[vectors[i].id] = vectors[i].data
  BY DataInFacts DEF Content
<1>3. \A id \in Ids : (\A i \in DOMAIN vectors \ todo : vectors[i].id # id) => Content[id] = Absent
  BY DataInFacts DEF Content
<1>4. Map!Stored = {id \in Ids : Content[id] # Absent}
  BY DEF Map!Stored, Content
<1> QED
  BY <1>1, <1>2, <1>3, <1>4, Assumptions

LEMMA RefineInit == Init => Map!Init
<1> SUFFICES ASSUME Init PROVE Map!Init
  OBVIOUS
<1>1. answer = Ok /\ Ok # Removing
  BY Kinds DEF Init
<1>2. DOMAIN <<>> = {}
  OBVIOUS
<1>3. DataIn(<<>>, {}) = [id \in Ids |-> Absent]
  BY <1>2 DEF DataIn
<1> QED
  BY <1>1, <1>3 DEF Init, Map!Init, Map!Ok, Map!Answer, Map!NoFile, NoFile, Ok, Answer

LEMMA RefineBeginAdd ==
  ASSUME StoreInv, NEW batch \in Batches, BeginAdd(batch)
  PROVE  Map!BeginAdd(batch)
<1>1. answer # Busy /\ answer # Removing /\ answer' = Busy /\ Busy # Removing
  BY Kinds DEF BeginAdd, Idle
<1>2. UNCHANGED <<Content, dimension, FileContent>>
  BY DEF BeginAdd, Content, FileContent
<1>3. Shown = answer /\ Shown' = Busy
  BY <1>1 DEF Shown
<1> QED
  BY <1>1, <1>2, <1>3, MappedVars
  DEF BeginAdd, Map!BeginAdd, Content, FileContent, Shown, Map!Busy, Map!Answer, Busy, Answer

LEMMA RefineAddVector ==
  ASSUME StoreInv, StoreInv', AddVector
  PROVE  Map!Upsert
<1> DEFINE e == Entry(Head(left))
           i == index[e.id]
<1>1. /\ vectors \in Seq(EntryType) /\ left \in Seq(Vector) /\ left # <<>>
      /\ vectors' \in Seq(EntryType) /\ Distinct(vectors) /\ Distinct(vectors')
      /\ answer = Busy /\ answer' = Busy /\ Indexes(index, vectors)
      /\ todo = {} /\ todo' = {} /\ UNCHANGED FileContent
  BY Kinds DEF AddVector, StoreInv, TypeOK, Calls, FileContent
<1>2. /\ e \in EntryType /\ e.id = Head(left).id /\ e.id \in Ids /\ e.data = Head(left).data
  BY <1>1, HeadFacts
<1>3. /\ \E j \in DOMAIN vectors' : vectors'[j] = e
      /\ \A j \in DOMAIN vectors' : vectors'[j] = e \/ \E k \in DOMAIN vectors : vectors[k] = vectors'[j]
      /\ \A k \in DOMAIN vectors :
           vectors[k].id # e.id => \E j \in DOMAIN vectors' : vectors'[j] = vectors[k]
  <2>1. CASE i # 0
    <3>1. vectors' = [vectors EXCEPT ![i] = e]
      BY <1>2, <2>1 DEF AddVector
    <3> HIDE DEF e
    <3>2. i = index[e.id]
      OBVIOUS
    <3> HIDE DEF i
    <3>3. vectors \in Seq(EntryType) /\ Indexes(index, vectors) /\ e \in EntryType /\ i # 0
      BY <1>1, <1>2, <2>1
    <3>4. /\ [vectors EXCEPT ![i] = e] \in Seq(EntryType)
          /\ DOMAIN [vectors EXCEPT ![i] = e] = DOMAIN vectors
          /\ Indexes(index, [vectors EXCEPT ![i] = e])
          /\ i \in DOMAIN vectors /\ vectors[i].id = e.id
          /\ \A j \in DOMAIN vectors : [vectors EXCEPT ![i] = e][j] = IF j = i THEN e ELSE vectors[j]
      BY <3>2, <3>3, OverwriteFacts
    <3> QED
      BY <3>1, <3>4
  <2>2. CASE i = 0
    <3>1. vectors' = Append(vectors, e)
      BY <1>2, <2>2 DEF AddVector
    <3>2. /\ DOMAIN vectors' = 1..Len(vectors) + 1 /\ vectors'[Len(vectors) + 1] = e
          /\ \A j \in DOMAIN vectors : vectors'[j] = vectors[j]
      BY <1>1, <1>2, <2>2, <3>1, PushedFacts
    <3> HIDE DEF e, i
    <3>3. Len(vectors) \in Nat /\ DOMAIN vectors = 1..Len(vectors)
      BY <1>1, ArrayFacts
    <3> QED
      BY <3>2, <3>3
  <2> QED
    BY <2>1, <2>2
<1>4. ASSUME NEW id \in Ids PROVE Content'[id] = IF id = e.id THEN e.data ELSE Content[id]
  <2> HIDE DEF e
  <2>1. CASE id = e.id
    <3>1. PICK j \in DOMAIN vectors' : vectors'[j] = e
      BY <1>3
    <3>2. DataIn(vectors', todo')[vectors'[j].id] = vectors'[j].data
      BY <1>1, DataInFacts
    <3> QED
      BY <2>1, <3>1, <3>2 DEF Content
  <2>2. CASE id # e.id /\ \E k \in DOMAIN vectors : vectors[k].id = id
    <3>1. PICK k \in DOMAIN vectors : vectors[k].id = id
      BY <2>2
    <3>2. PICK j \in DOMAIN vectors' : vectors'[j] = vectors[k]
      BY <1>3, <2>2, <3>1
    <3>3. DataIn(vectors', todo')[vectors'[j].id] = vectors'[j].data
      BY <1>1, DataInFacts
    <3>4. DataIn(vectors, todo)[vectors[k].id] = vectors[k].data
      BY <1>1, DataInFacts
    <3> QED
      BY <2>2, <3>1, <3>2, <3>3, <3>4 DEF Content
  <2>3. CASE id # e.id /\ \A k \in DOMAIN vectors : vectors[k].id # id
    <3>1. \A j \in DOMAIN vectors' \ todo' : vectors'[j].id # id
      BY <1>3, <2>3
    <3>2. DataIn(vectors', todo')[id] = Absent
      BY <1>1, <3>1, DataInFacts
    <3>3. DataIn(vectors, todo)[id] = Absent
      BY <1>1, <2>3, DataInFacts
    <3> QED
      BY <2>3, <3>2, <3>3 DEF Content
  <2> QED
    BY <2>1, <2>2, <2>3
<1>5. Content' = [Content EXCEPT ![Head(left).id] = Head(left).data]
  <2>1. Content = [id \in Ids |-> Content[id]] /\ Content' = [id \in Ids |-> Content'[id]]
    BY DEF Content, DataIn
  <2> QED
    BY <1>2, <1>4, <2>1
<1>6. /\ Head(left).dimension = Len(Head(left).data)
      /\ dimension \in {0, Head(left).dimension}
      /\ dimension' = Head(left).dimension /\ left' = Tail(left)
  BY DEF AddVector, Fits
<1>7. UNCHANGED Shown
  BY <1>1, Kinds DEF Shown
<1> QED
  BY <1>1, <1>5, <1>6, <1>7 DEF Map!Upsert, Content, Shown, FileContent

LEMMA RefineRejectVector ==
  ASSUME StoreInv, RejectVector
  PROVE  Map!Reject
<1>1. answer # Removing /\ answer' = Err /\ Err # Removing
  BY Kinds DEF RejectVector, StoreInv, Calls
<1>2. UNCHANGED <<Content, FileContent>> /\ Shown' = Err
  BY <1>1 DEF RejectVector, Content, FileContent, Shown
<1> QED
  BY <1>2 DEF RejectVector, Fits, Map!Reject, Content, FileContent, Shown, Map!Err, Map!Answer, Err, Answer

LEMMA RefineEndAdd ==
  ASSUME StoreInv, EndAdd
  PROVE  Map!EndAdd
<1>1. UNCHANGED <<Content, FileContent>> /\ Shown = Busy /\ Shown' = Ok
  BY Kinds DEF EndAdd, Content, FileContent, Shown
<1> QED
  BY <1>1, MappedVars DEF EndAdd, Map!EndAdd, Content, FileContent, Shown, Map!Ok, Map!Answer, Ok, Answer

\* The ids removed and the positions taken out are as many.
LEMMA RemovedCount ==
  ASSUME StoreInv, NEW ids \in SUBSET Ids, BeginRemove(ids)
  PROVE  /\ Cardinality(todo') = Cardinality(Map!Stored \cap ids)
         /\ Cardinality(todo') \in Nat
<1>1. /\ todo = {} /\ Indexes(index, vectors) /\ vectors \in Seq(EntryType) /\ Distinct(vectors)
      /\ todo' = {index[id] : id \in ids} \ {0}
  BY IdleFacts DEF BeginRemove, StoreInv, TypeOK
<1>2. /\ \A id \in Map!Stored : id \in Ids /\ \E i \in DOMAIN vectors : vectors[i].id = id
      /\ \A i \in DOMAIN vectors : vectors[i].id \in Map!Stored
  BY <1>1, StoredIds DEF Map!Stored
<1>3. /\ Len(vectors) \in Nat /\ DOMAIN vectors = 1..Len(vectors)
      /\ todo' \subseteq 1..Len(vectors)
  BY <1>1, ArrayFacts DEF Indexes
<1>4. IsFiniteSet(todo') /\ Cardinality(todo') \in Nat
  <2>1. IsFiniteSet(1..Len(vectors))
    BY <1>3, FS_Interval
  <2>2. IsFiniteSet(todo')
    BY <1>3, <2>1, FS_Subset
  <2> QED
    BY <2>2, FS_CardinalityType
<1> DEFINE S == Map!Stored \cap ids
           f == [p \in todo' |-> vectors[p].id]
<1>5. \A p \in todo' : p \in DOMAIN vectors /\ vectors[p].id \in S /\ index[vectors[p].id] = p
  BY <1>1, <1>2, <1>3 DEF Indexes
<1>6. \A id \in S : index[id] \in todo' /\ vectors[index[id]].id = id
  BY <1>1, <1>2, <1>3 DEF Indexes
<1> HIDE DEF S
<1>7. f \in [todo' -> S] /\ (\A a, b \in todo' : f[a] = f[b] => a = b) /\ (\A id \in S : \E p \in todo' : f[p] = id)
  BY <1>5, <1>6
<1>8. f \in Bijection(todo', S)
  BY <1>7, Fun_IsBij
<1>9. Cardinality(S) = Cardinality(todo')
  BY <1>4, <1>8, FS_Bijection DEF ExistsBijection
<1> QED
  BY <1>4, <1>9 DEF S

LEMMA RefineBeginRemove ==
  ASSUME StoreInv, NEW ids \in SUBSET Ids, BeginRemove(ids)
  PROVE  Map!Remove(ids)
<1>1. /\ answer # Busy /\ answer # Removing /\ todo = {} /\ Indexes(index, vectors)
      /\ vectors \in Seq(EntryType) /\ Distinct(vectors)
      /\ answer' = Removing /\ removed' = 0
      /\ todo' = {index[id] : id \in ids} \ {0}
      /\ UNCHANGED <<vectors, dimension, left, file>>
  BY IdleFacts DEF BeginRemove, StoreInv, TypeOK
<1>2. Shown = answer /\ Shown' = Answer("removed", Cardinality(Map!Stored \cap ids), <<>>, <<>>)
  BY <1>1, RemovedCount DEF Shown
<1>3. \A i \in DOMAIN vectors : i \in todo' <=> vectors[i].id \in ids
  <2>1. \A i \in DOMAIN vectors : index[vectors[i].id] = i /\ i # 0
    BY <1>1, ArrayFacts DEF Indexes
  <2>2. \A id \in ids : index[id] # 0 => vectors[index[id]].id = id
    BY <1>1 DEF Indexes
  <2> QED
    BY <1>1, <2>1, <2>2
<1>4. ASSUME NEW id \in Ids PROVE Content'[id] = IF id \in ids THEN Absent ELSE Content[id]
  <2>1. CASE \E i \in DOMAIN vectors : vectors[i].id = id
    <3>1. PICK i \in DOMAIN vectors : vectors[i].id = id
      BY <2>1
    <3>2. CASE id \in ids
      <4>1. \A j \in DOMAIN vectors \ todo' : vectors[j].id # id
        BY <1>3, <3>2
      <4>2. DataIn(vectors, todo')[id] = Absent
        BY <1>1, <4>1, DataInFacts
      <4> QED
        BY <1>1, <3>2, <4>2 DEF Content
    <3>3. CASE id \notin ids
      <4>1. i \in DOMAIN vectors \ todo' /\ i \in DOMAIN vectors \ todo
        BY <1>1, <1>3, <3>1, <3>3
      <4>2. DataIn(vectors, todo')[vectors[i].id] = vectors[i].data
        BY <1>1, <4>1, DataInFacts
      <4>3. DataIn(vectors, todo)[vectors[i].id] = vectors[i].data
        BY <1>1, <4>1, DataInFacts
      <4> QED
        BY <1>1, <3>1, <3>3, <4>2, <4>3 DEF Content
    <3> QED
      BY <3>2, <3>3
  <2>2. CASE \A i \in DOMAIN vectors : vectors[i].id # id
    <3>1. DataIn(vectors, todo')[id] = Absent /\ DataIn(vectors, todo)[id] = Absent
      BY <1>1, <2>2, DataInFacts
    <3> QED
      BY <1>1, <3>1 DEF Content
  <2> QED
    BY <2>1, <2>2
<1>5. Content' = [id \in Ids |-> IF id \in ids THEN Absent ELSE Content[id]]
  <2>1. Content' = [id \in Ids |-> Content'[id]]
    BY DEF Content, DataIn
  <2> QED
    BY <1>4, <2>1
<1>6. UNCHANGED FileContent
  BY <1>1 DEF FileContent
<1>7. Shown # Busy /\ Shown'.kind = "removed"
  BY <1>1, <1>2 DEF Answer
<1>8. Map!Remove(ids) <=>
        /\ Map!Idle
        /\ Shown'.kind = "removed"
        /\ Content' = [id \in Ids |-> IF id \in ids THEN Absent ELSE Content[id]]
        /\ Shown' = Answer("removed", Cardinality(Map!Stored \cap ids), <<>>, <<>>)
        /\ UNCHANGED <<dimension, left, FileContent>>
  BY SameCardinality DEF Map!Remove, Map!Answer, Answer, Content, Shown, FileContent
<1> QED
  BY <1>1, <1>2, <1>5, <1>6, <1>7, <1>8, MappedVars

\* The steps that the map does not see.
LEMMA RefineRemoveVector ==
  ASSUME StoreInv, StoreInv', RemoveVector
  PROVE  UNCHANGED Map!vars
<1> DEFINE p == NextPosition
           old(j) == IF j < p THEN j ELSE j + 1
<1>1. /\ vectors' = RemoveAt(vectors, p) /\ vectors \in Seq(EntryType) /\ vectors' \in Seq(EntryType)
      /\ Len(vectors) \in Nat /\ p \in 1..Len(vectors) /\ DOMAIN vectors = 1..Len(vectors)
      /\ p \in todo /\ todo' = todo \ {p} /\ \A q \in todo' : q < p
      /\ removed \in Nat /\ removed' = removed + 1 /\ answer = Removing
      /\ Distinct(vectors) /\ Distinct(vectors') /\ todo \subseteq 1..Len(vectors)
      /\ UNCHANGED <<index, dimension, left, answer, file>>
  BY RemoveVectorFacts DEF StoreInv, TypeOK, Calls
<1> HIDE DEF p
<1>2. /\ DOMAIN vectors' = 1..Len(vectors) - 1
      /\ \A j \in 1..Len(vectors) - 1 : vectors'[j] = vectors[old(j)]
  BY <1>1, RemovedFacts
<1>3. \A j \in 1..Len(vectors) - 1 :
        old(j) \in 1..Len(vectors) /\ (j \notin todo' => old(j) \notin todo)
  BY <1>1
<1>4. \A i \in 1..Len(vectors) : i \notin todo =>
        \E j \in 1..Len(vectors) - 1 : j \notin todo' /\ old(j) = i
  <2>1. SUFFICES ASSUME NEW i \in 1..Len(vectors), i \notin todo
                 PROVE  \E j \in 1..Len(vectors) - 1 : j \notin todo' /\ old(j) = i
    OBVIOUS
  <2>2. CASE i < p
    BY <1>1, <2>1, <2>2
  <2>3. CASE i > p
    <3>1. i - 1 \in 1..Len(vectors) - 1 /\ i - 1 >= p /\ old(i - 1) = i
      BY <1>1, <2>3
    <3>2. i - 1 \notin todo'
      BY <1>1, <3>1
    <3> QED
      BY <3>1, <3>2
  <2>4. i # p
    BY <1>1, <2>1
  <2> QED
    BY <1>1, <2>2, <2>3, <2>4
<1> HIDE DEF old
<1>5. UNCHANGED Content
  <2>1. \A i \in DOMAIN vectors \ todo : \E j \in DOMAIN vectors' \ todo' : vectors'[j] = vectors[i]
    BY <1>1, <1>2, <1>4
  <2>2. \A j \in DOMAIN vectors' \ todo' : \E i \in DOMAIN vectors \ todo : vectors[i] = vectors'[j]
    BY <1>1, <1>2, <1>3
  <2>3. DataIn(vectors, todo) = DataIn(vectors', todo')
    <3>1. /\ vectors \in Seq(EntryType) /\ Distinct(vectors)
          /\ vectors' \in Seq(EntryType) /\ Distinct(vectors')
      BY <1>1
    <3> QED
      BY <2>1, <2>2, <3>1, SameData
  <2> QED
    BY <2>3 DEF Content
<1>6. Cardinality(todo) \in Nat /\ Cardinality(todo') = Cardinality(todo) - 1
  <2>1. IsFiniteSet(1..Len(vectors))
    BY <1>1, FS_Interval
  <2>2. IsFiniteSet(todo)
    BY <1>1, <2>1, FS_Subset
  <2> QED
    BY <1>1, <2>2, FS_CardinalityType, FS_RemoveElement
<1>7. removed' + Cardinality(todo') = removed + Cardinality(todo)
  BY <1>1, <1>6
<1>8. UNCHANGED Shown
  BY <1>1, <1>7 DEF Shown
<1> QED
  BY <1>1, <1>5, <1>8 DEF Map!vars, Content, Shown, FileContent

LEMMA RefineEndRemove ==
  ASSUME StoreInv, EndRemove
  PROVE  UNCHANGED Map!vars
<1>1. /\ answer = Removing /\ todo = {} /\ todo' = {} /\ removed \in Nat
      /\ answer' = Answer("removed", removed, <<>>, <<>>) /\ answer' # Removing
      /\ UNCHANGED <<vectors, dimension, left, file>>
  BY DEF EndRemove, StoreInv, TypeOK, Removing, Answer
<1>2. Cardinality({}) = 0
  BY FS_EmptySet
<1>3. UNCHANGED <<Content, Shown, FileContent>>
  BY <1>1, <1>2 DEF Content, Shown, FileContent
<1> QED
  BY <1>1, <1>3 DEF Map!vars, Content, Shown, FileContent

LEMMA RefineClear ==
  ASSUME StoreInv, Clear
  PROVE  Map!Clear
<1>1. answer # Busy /\ answer # Removing /\ todo = {}
  BY IdleFacts DEF Clear
<1>2. Shown = answer /\ Shown' = Ok /\ UNCHANGED FileContent
  BY <1>1, Kinds DEF Shown, Clear, FileContent
<1>3. Content' = [id \in Ids |-> Absent]
  <2>1. vectors' = <<>> /\ DOMAIN <<>> = {}
    BY DEF Clear
  <2> QED
    BY <2>1 DEF Content, DataIn
<1> QED
  BY <1>1, <1>2, <1>3, MappedVars
  DEF Clear, Map!Clear, Map!Ok, Map!Answer, Ok, Answer, Content, Shown, FileContent

LEMMA RefineFind ==
  ASSUME StoreInv, NEW id \in Ids, Find(id)
  PROVE  Map!Find(id)
<1>1. /\ answer # Busy /\ answer # Removing /\ todo = {} /\ Indexes(index, vectors)
      /\ vectors \in Seq(EntryType) /\ Distinct(vectors)
  BY IdleFacts DEF Find, StoreInv, TypeOK
<1>2. answer' # Removing
  BY DEF Find, Removing, Answer
<1>3. UNCHANGED <<Content, FileContent>> /\ Shown = answer /\ Shown' = answer'
  BY <1>1, <1>2 DEF Shown, Find, Content, FileContent
<1>4. index[id] # 0 <=> id \in Map!Stored
  <2>1. index[id] # 0 => index[id] \in DOMAIN vectors \ todo /\ vectors[index[id]].id = id
    BY <1>1 DEF Indexes
  <2>2. \A i \in DOMAIN vectors : index[vectors[i].id] # 0
    BY <1>1, ArrayFacts DEF Indexes
  <2> QED
    BY <1>1, <2>1, <2>2, StoredIds
<1>5. index[id] # 0 => vectors[index[id]].data = Content[id]
  <2>1. index[id] # 0 => index[id] \in DOMAIN vectors \ todo /\ vectors[index[id]].id = id
    BY <1>1 DEF Indexes
  <2> QED
    BY <1>1, <2>1, StoredIds
<1>6. Shown' = IF id \in Map!Stored THEN Answer("found", 0, Content[id], <<>>)
                                    ELSE Answer("none", 0, <<>>, <<>>)
  BY <1>3, <1>4, <1>5 DEF Find
<1>7. UNCHANGED <<dimension, left>> /\ Shown # Busy
  BY <1>1, <1>3 DEF Find
<1> QED
  BY <1>3, <1>6, <1>7, MappedVars DEF Map!Find, Map!Answer, Answer, Content, Shown, FileContent

LEMMA RefineSave ==
  ASSUME StoreInv, Save
  PROVE  Map!Save
<1>1. answer # Busy /\ answer # Removing /\ todo = {} /\ Shown = answer
  BY IdleFacts DEF Save, Shown
<1>2. UNCHANGED Content
  BY DEF Save, Content
<1>3. \/ /\ FileContent' = [readable |-> TRUE, dimension |-> dimension, content |-> Content]
         /\ Shown' = Ok
      \/ FileContent' \in {FileContent, Map!NoFile} /\ Shown' = Err
  <2>1. CASE answer' = Ok /\ file' = [readable |-> TRUE, dimension |-> dimension, vectors |-> vectors]
    <3>1. FileContent' = [readable |-> TRUE, dimension |-> dimension, content |-> Content]
      BY <1>1, <2>1 DEF FileContent, Content
    <3> QED
      BY <2>1, <3>1, Kinds DEF Shown
  <2>2. CASE answer' = Err /\ file' = file
    <3>1. FileContent' = FileContent
      BY <2>2 DEF FileContent
    <3> QED
      BY <2>2, <3>1, Kinds DEF Shown
  <2>3. CASE answer' = Err /\ file' = NoFile
    <3>1. DOMAIN <<>> = {}
      OBVIOUS
    <3>2. DataIn(<<>>, {}) = [id \in Ids |-> Absent]
      BY <3>1 DEF DataIn
    <3>3. FileContent' = Map!NoFile
      BY <2>3, <3>2 DEF FileContent, NoFile, Map!NoFile
    <3> QED
      BY <2>3, <3>3, Kinds DEF Shown
  <2> QED
    BY <2>1, <2>2, <2>3 DEF Save
<1>4. Map!Save <=>
        /\ Map!Idle
        /\ \/ /\ FileContent' = [readable |-> TRUE, dimension |-> dimension, content |-> Content]
              /\ Shown' = Ok
           \/ FileContent' \in {FileContent, Map!NoFile} /\ Shown' = Err
        /\ UNCHANGED <<Content, dimension, left>>
  BY DEF Map!Save, Map!Ok, Map!Err, Map!Answer, Ok, Err, Answer, Content, Shown, FileContent
<1> QED
  BY <1>1, <1>2, <1>3, <1>4, MappedVars DEF Save

LEMMA RefineLoad ==
  ASSUME StoreInv, Load
  PROVE  Map!Load
<1>1. answer # Busy /\ answer # Removing /\ todo = {} /\ todo' = {} /\ Shown = answer
  BY IdleFacts DEF Load, Shown
<1>2. UNCHANGED <<left, FileContent>>
  BY DEF Load, FileContent
<1>3. IF file.readable
      THEN Content' = FileContent.content /\ dimension' = FileContent.dimension /\ Shown' = Ok
      ELSE Shown' = Err /\ UNCHANGED <<Content, dimension>>
  BY <1>1, Kinds DEF Load, Content, FileContent, Shown
<1>4. FileContent.readable = file.readable
  BY DEF FileContent
<1>5. Map!Load <=>
        /\ Map!Idle
        /\ IF FileContent.readable
           THEN Content' = FileContent.content /\ dimension' = FileContent.dimension /\ Shown' = Ok
           ELSE Shown' = Err /\ UNCHANGED <<Content, dimension>>
        /\ UNCHANGED <<left, FileContent>>
  BY DEF Map!Load, Map!Ok, Map!Err, Map!Answer, Ok, Err, Answer, Content, Shown, FileContent
<1> QED
  BY <1>1, <1>2, <1>3, <1>4, <1>5, MappedVars

\* What search returns is the ranking that the map promises.
LEMMA RankingIsRanking ==
  ASSUME Comparable, StoreInv, todo = {}, NEW q \in Queries,
         \A i \in DOMAIN vectors : Len(vectors[i].data) = Len(q.data)
  PROVE  Map!IsRanking(q, Ranking(q))
<1> DEFINE E == Enough(q)
           m == Len(vectors)
           score == [i \in E |-> Score(q.data, vectors[i].data)]
           name == [i \in 1..m |-> vectors[i].id]
           worth == [id \in Ids |-> Score(q.data, Content[id])]
           ids == Ranking(q)
           enough == {id \in Map!Stored : worth[id] >= q.min_score}
           chosen == {ids[n] : n \in DOMAIN ids}
<1>1. /\ vectors \in Seq(EntryType) /\ Distinct(vectors) /\ q.top_k \in Nat
      /\ m \in Nat /\ DOMAIN vectors = 1..m /\ E \in SUBSET (1..m)
      /\ \A i \in 1..m : vectors[i].id \in Ids /\ vectors[i].data \in Seq(Int)
  BY ArrayFacts DEF StoreInv, TypeOK, Comparable, Enough
<1>2. score \in [E -> Int] /\ name \in [1..m -> Ids] /\ \A i, j \in 1..m : name[i] = name[j] => i = j
  BY <1>1 DEF Comparable, Distinct
<1>3. /\ \A i \in 1..m : vectors[i].id \in Map!Stored /\ Content[vectors[i].id] = vectors[i].data
      /\ \A id \in Map!Stored : \E i \in 1..m : vectors[i].id = id
  BY <1>1, StoredIds
<1>4. \A i \in E : worth[name[i]] = score[i]
  BY <1>1, <1>3
<1>5. (\A i \in E : name[i] \in enough) /\ \A id \in enough : \E i \in E : name[i] = id
  <2>1. \A i \in 1..m : worth[name[i]] = Score(q.data, vectors[i].data)
    BY <1>1, <1>3
  <2>2. \A i \in 1..m : i \in E <=> Score(q.data, vectors[i].data) >= q.min_score
    BY <1>1 DEF Enough
  <2> HIDE DEF E, worth
  <2>3. \A i \in E : name[i] \in enough
    BY <1>1, <1>3, <2>1, <2>2
  <2>4. \A id \in enough : \E i \in E : name[i] = id
    BY <1>1, <1>3, <2>1, <2>2
  <2> QED
    BY <2>3, <2>4
<1>6. \A i \in E : Ahead(q, i) = AheadOf(E, score, i)
  BY DEF Ahead, AheadOf
<1>7. ids = Best(E, score, name, q.top_k)
  <2> DEFINE N == Cardinality(E)
             size == IF N < q.top_k THEN N ELSE q.top_k
  <2>1. ids = [n \in 1..size |-> vectors[CHOOSE i \in E : Cardinality(Ahead(q, i)) = n - 1].id]
    BY DEF Ranking
  <2>2. /\ N \in Nat
        /\ \A i, j \in E : Cardinality(AheadOf(E, score, i)) = Cardinality(AheadOf(E, score, j)) => i = j
        /\ \A n \in 1..N : \E i \in E : Cardinality(AheadOf(E, score, i)) = n - 1
    <3>1. m \in Nat /\ E \in SUBSET (1..m) /\ score \in [E -> Int]
      BY <1>1, <1>2
    <3> HIDE DEF E, m, score
    <3> QED
      BY ONLY <3>1, RankFacts
  <2>3. 1..size \subseteq 1..N
    BY <1>1, <2>2
  <2> HIDE DEF ids, E, score, name, N, size
  <2>4. ASSUME NEW n \in 1..size
        PROVE  vectors[CHOOSE i \in E : Cardinality(Ahead(q, i)) = n - 1].id = name[Ranked(E, score, n)]
    <3>1. PICK i \in E : Cardinality(AheadOf(E, score, i)) = n - 1
      BY <2>2, <2>3
    <3>2. \A j \in E : Cardinality(AheadOf(E, score, j)) = n - 1 <=> j = i
      BY <2>2, <3>1
    <3>3. Ranked(E, score, n) = i
      BY <3>2 DEF Ranked
    <3>4. i = CHOOSE j \in E : Cardinality(Ahead(q, j)) = n - 1
      BY <1>6, <3>2
    <3>5. name[i] = vectors[i].id
      BY <1>1 DEF name
    <3> QED
      BY ONLY <3>3, <3>4, <3>5
  <2> QED
    BY <2>1, <2>4 DEF N, size, Best
<1> HIDE DEF E, m, score, name, worth, ids
<1>8. IsBest(ids, enough, worth, q.top_k)
  <2> HIDE DEF enough
  <2>1. IsBest(Best(E, score, name, q.top_k), enough, worth, q.top_k)
    BY ONLY <1>1, <1>2, <1>4, <1>5, BestFacts
  <2> QED
    BY ONLY <1>7, <2>1
<1>9. \A id \in Map!Stored : worth[id] = Score(q.data, Content[id])
  BY DEF worth, Map!Stored
<1>10. Map!IsRanking(q, ids) <=>
         LET worthOf(id) == Score(q.data, Content[id])
             found == {id \in Map!Stored : worthOf(id) >= q.min_score}
         IN /\ chosen \subseteq found
            /\ Cardinality(chosen) = Len(ids)
            /\ Len(ids) = q.top_k \/ (Len(ids) < q.top_k /\ chosen = found)
            /\ \A i, j \in DOMAIN ids : i < j => worthOf(ids[i]) >= worthOf(ids[j])
            /\ \A id \in found \ chosen : \A i \in DOMAIN ids : worthOf(ids[i]) >= worthOf(id)
  BY SameCardinality DEF Map!IsRanking, Content
<1>11. enough = {id \in Map!Stored : Score(q.data, Content[id]) >= q.min_score}
  BY <1>9
<1>12. \A i \in DOMAIN ids : ids[i] \in enough
  BY <1>8 DEF IsBest
<1> HIDE DEF enough, chosen
<1>13. enough \subseteq Map!Stored
  BY <1>11
<1> QED
  BY <1>8, <1>9, <1>10, <1>11, <1>12, <1>13 DEF ids, chosen, IsBest

LEMMA RefineSearch ==
  ASSUME Comparable, StoreInv, NEW q \in Queries, Search(q)
  PROVE  Map!Search(q)
<1>1. /\ answer # Busy /\ answer # Removing /\ todo = {}
      /\ vectors \in Seq(EntryType) /\ Distinct(vectors)
  BY IdleFacts DEF Search, StoreInv, TypeOK
<1>2. answer' # Removing
  BY Kinds DEF Search, Removing, Answer, Err
<1>3. UNCHANGED <<Content, FileContent, dimension, left>> /\ Shown = answer /\ Shown' = answer'
  BY <1>1, <1>2 DEF Shown, Search, Content, FileContent
<1>4. vectors = <<>> <=> Map!Stored = {}
  <2>1. vectors = <<>> <=> DOMAIN vectors = {}
    BY <1>1, ArrayFacts
  <2> QED
    BY <1>1, <2>1, StoredIds
<1>5. \A i \in DOMAIN vectors : Len(vectors[i].data) = dimension
  BY DEF StoreInv, Even
<1>6. \/ /\ Map!Stored = {} \/ q.top_k = 0
         /\ Shown' = Answer("ranked", 0, <<>>, <<>>)
      \/ /\ ~(Map!Stored = {} \/ q.top_k = 0) /\ Len(q.data) # dimension
         /\ Shown' = Err
      \/ /\ ~(Map!Stored = {} \/ q.top_k = 0) /\ Len(q.data) = dimension /\ IsZero(q.data)
         /\ Shown' = Answer("ranked", 0, <<>>, <<>>)
      \/ /\ ~(Map!Stored = {} \/ q.top_k = 0) /\ Len(q.data) = dimension /\ ~IsZero(q.data)
         /\ Shown' = Answer("ranked", 0, <<>>, Ranking(q))
  BY <1>3, <1>4, <1>5 DEF Search
<1>7. Answer("ranked", 0, <<>>, Ranking(q)).ids = Ranking(q)
  BY DEF Answer
<1>8. Len(q.data) = dimension => Map!IsRanking(q, Ranking(q))
  <2> SUFFICES ASSUME Len(q.data) = dimension PROVE Map!IsRanking(q, Ranking(q))
    OBVIOUS
  <2>1. \A i \in DOMAIN vectors : Len(vectors[i].data) = Len(q.data)
    BY <1>5
  <2> QED
    BY <1>1, <2>1, RankingIsRanking
<1>9. Map!Search(q) <=>
        /\ Map!Idle
        /\ IF Map!Stored = {} \/ q.top_k = 0
           THEN Shown' = Answer("ranked", 0, <<>>, <<>>)
           ELSE IF Len(q.data) # dimension
           THEN Shown' = Err
           ELSE IF IsZero(q.data)
           THEN Shown' = Answer("ranked", 0, <<>>, <<>>)
           ELSE /\ Shown' = Answer("ranked", 0, <<>>, Shown'.ids)
                /\ Map!IsRanking(q, Shown'.ids)
        /\ UNCHANGED <<Content, dimension, left, FileContent>>
  BY DEF Map!Search, Map!Err, Map!Answer, Map!IsZero, IsZero, Err, Answer,
         Content, Shown, FileContent
<1> QED
  BY <1>1, <1>3, <1>6, <1>7, <1>8, <1>9, MappedVars

LEMMA RefineNext ==
  Comparable /\ StoreInv /\ StoreInv' /\ [Next]_vars => [Map!Next]_(Map!vars)
<1> SUFFICES ASSUME Comparable, StoreInv, StoreInv', [Next]_vars PROVE [Map!Next]_(Map!vars)
  OBVIOUS
<1>1. CASE AddVector
  BY <1>1, RefineAddVector DEF Map!Next
<1>2. CASE RejectVector
  BY <1>2, RefineRejectVector DEF Map!Next
<1>3. CASE EndAdd
  BY <1>3, RefineEndAdd DEF Map!Next
<1>4. CASE RemoveVector
  BY <1>4, RefineRemoveVector
<1>5. CASE EndRemove
  BY <1>5, RefineEndRemove
<1>6. CASE Clear
  BY <1>6, RefineClear DEF Map!Next
<1>7. CASE Save
  BY <1>7, RefineSave DEF Map!Next
<1>8. CASE Load
  BY <1>8, RefineLoad DEF Map!Next
<1>9. ASSUME NEW batch \in Batches, BeginAdd(batch) PROVE Map!Next
  BY <1>9, RefineBeginAdd DEF Map!Next
<1>10. ASSUME NEW ids \in SUBSET Ids, BeginRemove(ids) PROVE Map!Next
  BY <1>10, RefineBeginRemove DEF Map!Next
<1>11. ASSUME NEW id \in Ids, Find(id) PROVE Map!Next
  BY <1>11, RefineFind DEF Map!Next
<1>12. ASSUME NEW q \in Queries, Search(q) PROVE Map!Next
  BY <1>12, RefineSearch DEF Map!Next
<1>13. CASE UNCHANGED vars
  BY <1>13 DEF vars, Map!vars, DataIn
<1> QED
  BY <1>1, <1>2, <1>3, <1>4, <1>5, <1>6, <1>7, <1>8, <1>9, <1>10, <1>11, <1>12, <1>13 DEF Next

\* Whatever is added, replaced, removed, saved and loaded, in any order and with
\* batches that fail half way, InMemoryVectorStore behaves as the map that the
\* VectorStore trait promises: every find, search, count of removals and load
\* answers what that map would.
THEOREM StoreImplementsMap ==
  ASSUME Comparable
  PROVE  Spec => Map!Spec
<1>1. Comparable
  OBVIOUS
<1>2. StoreInv /\ StoreInv' /\ [Next]_vars => [Map!Next]_(Map!vars)
  BY <1>1, RefineNext
<1> QED
  BY <1>2, RefineInit, Invariance, PTL DEF Spec, Map!Spec

(***************************************************************************)
(* SearchCache                                                             *)
(***************************************************************************)

CacheEntry == [key : Ids, version : Nat, clears : Nat, put : Nat]
Call == [pc : {"none", "missed", "searched"}, key : Ids \cup {"none"}, version : Nat, clears : Nat]

OneForEachKey(entries) == \A i, j \in DOMAIN entries : entries[i].key = entries[j].key => i = j

\* What was searched since the last clear is of the index then or of a later one.
RecentAt(found, count, since) ==
  found.clears <= count /\ (found.clears = count => found.version >= since)
Recent(found) == RecentAt(found, clears, cleared_at)

\* The inductive invariant: a clear leaves nothing, so that what is cached was put
\* since the last one, and is as recent as the search that found it.
CacheInv ==
  /\ cache \in Seq(CacheEntry) /\ Len(cache) <= Capacity /\ OneForEachKey(cache)
  /\ \A i \in DOMAIN cache : cache[i].put = clears /\ Recent(cache[i])
  /\ calls \in [Callers -> Call]
  /\ \A c \in Callers : calls[c].pc # "none" => calls[c].key \in Ids
  /\ \A c \in Callers : calls[c].pc = "searched" => Recent(calls[c])
  /\ version \in Nat /\ clears \in Nat /\ cleared_at \in Nat /\ cleared_at <= version

LEMMA CacheAssumptions == Capacity \in Nat \ {0}
BY MCAssumption DEF Cached!CacheAssumption

\* Without a key: the other entries, in their order, and one less if it was cached.
LEMMA WithoutFacts ==
  ASSUME cache \in Seq(CacheEntry), OneForEachKey(cache), NEW key \in Ids
  PROVE  LET rest == Cached!Without(key) IN
         /\ rest \in Seq(CacheEntry) /\ OneForEachKey(rest) /\ Len(rest) <= Len(cache)
         /\ \A i \in DOMAIN rest : rest[i].key # key
         /\ \A i \in DOMAIN rest : \E j \in DOMAIN cache : rest[i] = cache[j]
         /\ Cached!Cached(key) =>
              /\ Len(rest) = Len(cache) - 1
              /\ Cached!Place(key) \in DOMAIN cache /\ cache[Cached!Place(key)].key = key
<1> DEFINE rest == Cached!Without(key)
           p == Cached!Place(key)
<1>1. Len(cache) \in Nat /\ DOMAIN cache = 1..Len(cache)
  BY LenProperties
<1>2. CASE Cached!Cached(key)
  <2>1. p \in 1..Len(cache) /\ cache[p].key = key
    BY <1>1, <1>2 DEF Cached!Cached, Cached!Place
  <2>2. rest = RemoveAt(cache, p)
    BY <1>2 DEF Cached!Without, RemoveAt, p
  <2> HIDE DEF rest, p
  <2>3. /\ rest \in Seq(CacheEntry) /\ Len(rest) = Len(cache) - 1
        /\ \A j \in 1..Len(cache) - 1 : rest[j] = IF j < p THEN cache[j] ELSE cache[j + 1]
    BY <2>1, <2>2, RemoveAtFacts
  <2> DEFINE at(j) == IF j < p THEN j ELSE j + 1
  <2>4. DOMAIN rest = 1..Len(cache) - 1
    BY <2>3, LenProperties
  <2>5. \A j \in DOMAIN rest : at(j) \in DOMAIN cache \ {p} /\ rest[j] = cache[at(j)]
    BY <1>1, <2>1, <2>3, <2>4
  <2>6. \A i, j \in DOMAIN rest : at(i) = at(j) => i = j
    BY <2>1, <2>4
  <2> HIDE DEF at
  <2>7. OneForEachKey(rest) /\ \A i \in DOMAIN rest : rest[i].key # key
    BY <1>1, <2>1, <2>5, <2>6 DEF OneForEachKey
  <2> QED
    BY <1>1, <2>1, <2>3, <2>5, <2>7 DEF rest, p
<1>3. CASE ~Cached!Cached(key)
  <2>1. rest = cache
    BY <1>3 DEF Cached!Without
  <2>2. \A i \in DOMAIN cache : cache[i].key # key
    BY <1>3 DEF Cached!Cached
  <2>3. Len(cache) <= Len(cache)
    BY <1>1
  <2> HIDE DEF rest, p
  <2> QED
    BY <1>3, <2>1, <2>2, <2>3 DEF rest, p
<1> QED
  BY <1>2, <1>3

\* An entry in front of those of the other keys.
LEMMA InFront ==
  ASSUME NEW rest \in Seq(CacheEntry), OneForEachKey(rest), NEW e \in CacheEntry,
         \A i \in DOMAIN rest : rest[i].key # e.key
  PROVE  LET all == <<e>> \o rest IN
         /\ all \in Seq(CacheEntry) /\ OneForEachKey(all) /\ Len(all) = Len(rest) + 1
         /\ \A i \in DOMAIN all : all[i] = e \/ \E j \in DOMAIN rest : all[i] = rest[j]
<1> DEFINE all == <<e>> \o rest
<1>1. <<e>> \in Seq(CacheEntry) /\ Len(<<e>>) = 1 /\ <<e>>[1] = e
  OBVIOUS
<1>2. Len(rest) \in Nat /\ DOMAIN rest = 1..Len(rest)
  BY LenProperties
<1>3. /\ all \in Seq(CacheEntry) /\ Len(all) = 1 + Len(rest)
      /\ \A i \in 1..1 + Len(rest) : all[i] = IF i <= 1 THEN <<e>>[i] ELSE rest[i - 1]
  BY <1>1, ConcatProperties
<1> HIDE DEF all
<1>4. DOMAIN all = 1..1 + Len(rest)
  BY <1>3, LenProperties
<1>5. all[1] = e /\ \A i \in 2..1 + Len(rest) : i - 1 \in DOMAIN rest /\ all[i] = rest[i - 1]
  BY <1>1, <1>2, <1>3
<1>6. \A i \in DOMAIN all : i = 1 \/ i \in 2..1 + Len(rest)
  BY <1>2, <1>4
<1>7. OneForEachKey(all)
  <2>1. \A i, j \in 2..1 + Len(rest) : all[i].key = all[j].key => i = j
    BY <1>2, <1>5 DEF OneForEachKey
  <2> QED
    BY <1>5, <1>6, <2>1 DEF OneForEachKey
<1>8. Len(all) = Len(rest) + 1
  BY <1>2, <1>3
<1> QED
  BY <1>3, <1>5, <1>6, <1>7, <1>8 DEF all

LEMMA CacheInvInit == Cached!CacheInit => CacheInv
<1> SUFFICES ASSUME Cached!CacheInit PROVE CacheInv
  OBVIOUS
<1>1. cache = <<>> /\ cache \in Seq(CacheEntry) /\ Len(cache) = 0 /\ DOMAIN cache = {}
  BY EmptySeq DEF Cached!CacheInit
<1>2. Cached!NoCall \in Call /\ Cached!NoCall.pc = "none"
  BY DEF Cached!NoCall, Call
<1>3. \A c \in Callers : calls[c] = Cached!NoCall
  BY DEF Cached!CacheInit
<1> QED
  BY <1>1, <1>2, <1>3, CacheAssumptions DEF Cached!CacheInit, CacheInv, OneForEachKey

LEMMA CacheInvHit ==
  ASSUME CacheInv, NEW c \in Callers, NEW key \in Ids, Cached!Hit(c, key)
  PROVE  CacheInv'
<1> DEFINE rest == Cached!Without(key)
           e == cache[Cached!Place(key)]
<1>1. cache \in Seq(CacheEntry) /\ OneForEachKey(cache) /\ Len(cache) <= Capacity
  BY DEF CacheInv
<1>2. /\ rest \in Seq(CacheEntry) /\ OneForEachKey(rest) /\ Len(rest) = Len(cache) - 1
      /\ \A i \in DOMAIN rest : rest[i].key # key
      /\ \A i \in DOMAIN rest : \E j \in DOMAIN cache : rest[i] = cache[j]
      /\ e.key = key /\ \E j \in DOMAIN cache : e = cache[j]
  BY <1>1, WithoutFacts DEF Cached!Hit
<1>3. e \in CacheEntry
  BY <1>1, <1>2, ElementOfSeq
<1>4. cache' = <<e>> \o rest /\ UNCHANGED <<calls, version, clears, cleared_at>>
  BY DEF Cached!Hit
<1> HIDE DEF e, rest
<1>5. /\ cache' \in Seq(CacheEntry) /\ OneForEachKey(cache') /\ Len(cache') = Len(rest) + 1
      /\ \A i \in DOMAIN cache' : cache'[i] = e \/ \E j \in DOMAIN rest : cache'[i] = rest[j]
  BY <1>2, <1>3, <1>4, InFront
<1>6. \A i \in DOMAIN cache' : \E j \in DOMAIN cache : cache'[i] = cache[j]
  BY <1>2, <1>5
<1>7. Len(cache') <= Capacity
  <2>1. Len(cache) \in Nat
    BY <1>1, LenProperties
  <2> QED
    BY <1>1, <1>2, <1>5, <2>1
<1>8. \A i \in DOMAIN cache' : cache'[i].put = clears' /\ RecentAt(cache'[i], clears', cleared_at')
  BY <1>4, <1>6 DEF CacheInv, Recent, RecentAt
<1> QED
  BY <1>4, <1>5, <1>7, <1>8 DEF CacheInv, OneForEachKey, Recent, RecentAt

LEMMA CacheInvMiss ==
  ASSUME CacheInv, NEW c \in Callers, NEW key \in Ids, Cached!Miss(c, key)
  PROVE  CacheInv'
<1> DEFINE new == [Cached!NoCall EXCEPT !.pc = "missed", !.key = key]
<1>1. UNCHANGED <<cache, version, clears, cleared_at>> /\ calls' = [calls EXCEPT ![c] = new]
  BY DEF Cached!Miss
<1>2. new \in Call /\ new.pc = "missed" /\ new.key = key
  BY DEF Cached!NoCall, Call
<1> HIDE DEF new
<1> QED
  BY <1>1, <1>2 DEF CacheInv, OneForEachKey, Recent, RecentAt

LEMMA CacheInvSearchFn ==
  ASSUME CacheInv, NEW c \in Callers, Cached!SearchFn(c)
  PROVE  CacheInv'
<1> DEFINE new == [calls[c] EXCEPT !.pc = "searched", !.version = version, !.clears = clears]
<1>1. UNCHANGED <<cache, version, clears, cleared_at>> /\ calls[c].pc = "missed"
  BY DEF Cached!SearchFn
<1>2. /\ calls[c] \in Call /\ calls[c].key \in Ids
      /\ version \in Nat /\ clears \in Nat /\ cleared_at <= version
  BY <1>1 DEF CacheInv
<1>3. calls' = [calls EXCEPT ![c] = new]
  BY DEF CacheInv, Cached!SearchFn
<1>4. /\ new \in Call /\ new.pc = "searched" /\ new.key = calls[c].key
      /\ new.version = version /\ new.clears = clears
  BY <1>2 DEF Call
<1> HIDE DEF new
<1>5. RecentAt(new, clears, cleared_at)
  BY <1>2, <1>4 DEF RecentAt, CacheInv
<1> QED
  BY <1>1, <1>2, <1>3, <1>4, <1>5 DEF CacheInv, OneForEachKey, Recent, RecentAt

LEMMA CacheInvSearchFnFails ==
  ASSUME CacheInv, NEW c \in Callers, Cached!SearchFnFails(c)
  PROVE  CacheInv'
<1>1. UNCHANGED <<cache, version, clears, cleared_at>>
  BY DEF Cached!SearchFnFails
<1>2. calls' = [calls EXCEPT ![c] = Cached!NoCall]
  BY DEF Cached!SearchFnFails
<1>3. Cached!NoCall \in Call /\ Cached!NoCall.pc = "none"
  BY DEF Cached!NoCall, Call
<1> QED
  BY <1>1, <1>2, <1>3 DEF CacheInv, OneForEachKey, Recent, RecentAt

LEMMA CacheInvPut ==
  ASSUME CacheInv, NEW c \in Callers, Cached!Put(c)
  PROVE  CacheInv'
<1> DEFINE rest == Cached!Without(calls[c].key)
           e == Cached!Entry(calls[c])
           all == <<e>> \o rest
           size == IF Len(all) < Capacity THEN Len(all) ELSE Capacity
<1>1. /\ cache \in Seq(CacheEntry) /\ OneForEachKey(cache)
      /\ calls[c] \in Call /\ calls[c].key \in Ids /\ Recent(calls[c]) /\ clears \in Nat
  BY DEF CacheInv, Cached!Put
<1>2. /\ rest \in Seq(CacheEntry) /\ OneForEachKey(rest)
      /\ \A i \in DOMAIN rest : rest[i].key # calls[c].key
      /\ \A i \in DOMAIN rest : \E j \in DOMAIN cache : rest[i] = cache[j]
  BY <1>1, WithoutFacts
<1>3. e \in CacheEntry /\ e.key = calls[c].key /\ e.put = clears /\ Recent(e)
  BY <1>1 DEF Cached!Entry, CacheEntry, Call, Recent, RecentAt
<1>4. cache' = SubSeq(all, 1, size) /\ UNCHANGED <<version, clears, cleared_at>>
  BY DEF Cached!Put
<1>5. calls' = [calls EXCEPT ![c] = Cached!NoCall]
  BY DEF Cached!Put
<1> HIDE DEF e, rest
<1>6. /\ all \in Seq(CacheEntry) /\ OneForEachKey(all)
      /\ \A i \in DOMAIN all : all[i] = e \/ \E j \in DOMAIN rest : all[i] = rest[j]
  BY <1>2, <1>3, InFront
<1> HIDE DEF all
<1>7. Len(all) \in Nat /\ DOMAIN all = 1..Len(all) /\ size \in Nat /\ size <= Len(all) /\ size <= Capacity
  BY <1>6, LenProperties, CacheAssumptions
<1> HIDE DEF size
<1>8. \A i \in 1..size : i \in DOMAIN all /\ all[i] \in CacheEntry
  BY <1>6, <1>7, ElementOfSeq
<1>9. /\ cache' \in Seq(CacheEntry) /\ Len(cache') = size
      /\ \A i \in 1..size : cache'[i] = all[i]
  <2>1. 1 \in Int /\ size \in Int /\ (IF 1 <= size THEN size - 1 + 1 ELSE 0) = size
    BY <1>7
  <2>2. /\ SubSeq(all, 1, size) \in Seq(CacheEntry)
        /\ Len(SubSeq(all, 1, size)) = IF 1 <= size THEN size - 1 + 1 ELSE 0
        /\ \A i \in 1..size - 1 + 1 : SubSeq(all, 1, size)[i] = all[1 + i - 1]
    BY ONLY <1>8, <2>1, SubSeqProperties
  <2> QED
    BY <1>4, <1>7, <2>1, <2>2
<1>10. DOMAIN cache' = 1..size
  BY <1>9, LenProperties
<1>11. OneForEachKey(cache')
  BY <1>6, <1>8, <1>9, <1>10 DEF OneForEachKey
<1>12. \A i \in DOMAIN cache' : cache'[i] = e \/ \E j \in DOMAIN cache : cache'[i] = cache[j]
  BY <1>2, <1>6, <1>8, <1>9, <1>10
<1>13. ASSUME NEW i \in DOMAIN cache'
       PROVE  cache'[i].put = clears' /\ RecentAt(cache'[i], clears', cleared_at')
  <2>1. CASE cache'[i] = e
    BY <1>3, <1>4, <2>1 DEF Recent
  <2>2. ASSUME NEW j \in DOMAIN cache, cache'[i] = cache[j]
        PROVE  cache'[i].put = clears' /\ RecentAt(cache'[i], clears', cleared_at')
    BY <1>4, <2>2 DEF CacheInv, Recent
  <2> QED
    BY <1>12, <2>1, <2>2
<1>14. Cached!NoCall \in Call /\ Cached!NoCall.pc = "none"
  BY DEF Cached!NoCall, Call
<1> QED
  BY <1>4, <1>5, <1>7, <1>9, <1>11, <1>13, <1>14 DEF CacheInv, OneForEachKey, Recent, RecentAt

LEMMA CacheInvClear == CacheInv /\ Cached!ClearCache => CacheInv'
<1> SUFFICES ASSUME CacheInv, Cached!ClearCache PROVE CacheInv'
  OBVIOUS
<1>1. cache' = <<>> /\ cache' \in Seq(CacheEntry) /\ Len(cache') = 0 /\ DOMAIN cache' = {}
  BY EmptySeq DEF Cached!ClearCache
<1>2. clears' = clears + 1 /\ cleared_at' = version /\ UNCHANGED <<calls, version>>
  BY DEF Cached!ClearCache
<1>3. clears \in Nat /\ version \in Nat
  BY DEF CacheInv
<1>4. \A c \in Callers : calls[c].pc = "searched" => calls[c].clears <= clears /\ calls[c].clears \in Nat
  BY DEF CacheInv, Recent, RecentAt, Call
<1>5. \A c \in Callers : calls'[c].pc = "searched" => RecentAt(calls'[c], clears', cleared_at')
  BY <1>2, <1>3, <1>4 DEF Recent, RecentAt
<1> QED
  <2>1. OneForEachKey(cache')
    BY <1>1 DEF OneForEachKey
  <2>2. \A i \in DOMAIN cache' : cache'[i].put = clears' /\ RecentAt(cache'[i], clears', cleared_at')
    BY <1>1
  <2>3. Len(cache') <= Capacity
    BY <1>1, CacheAssumptions
  <2>4. /\ calls' \in [Callers -> Call] /\ \A c \in Callers : calls'[c].pc # "none" => calls'[c].key \in Ids
        /\ version' \in Nat /\ clears' \in Nat /\ cleared_at' \in Nat /\ cleared_at' <= version'
    BY <1>2, <1>3 DEF CacheInv
  <2> QED
    BY <1>1, <1>5, <2>1, <2>2, <2>3, <2>4 DEF CacheInv, OneForEachKey, Recent

LEMMA CacheInvReplace == CacheInv /\ Cached!ReplaceIndex => CacheInv'
<1> SUFFICES ASSUME CacheInv, Cached!ReplaceIndex PROVE CacheInv'
  OBVIOUS
<1>1. version' = version + 1 /\ UNCHANGED <<cache, calls, clears, cleared_at>>
  BY DEF Cached!ReplaceIndex
<1> QED
  BY <1>1 DEF CacheInv, OneForEachKey, Recent, RecentAt

LEMMA CacheInvNext == CacheInv /\ Cached!CacheNext => CacheInv'
<1> SUFFICES ASSUME CacheInv, Cached!CacheNext PROVE CacheInv'
  OBVIOUS
<1>1. ASSUME NEW c \in Callers, NEW key \in Ids, Cached!Hit(c, key) PROVE CacheInv'
  BY <1>1, CacheInvHit
<1>2. ASSUME NEW c \in Callers, NEW key \in Ids, Cached!Miss(c, key) PROVE CacheInv'
  BY <1>2, CacheInvMiss
<1>3. ASSUME NEW c \in Callers, Cached!SearchFn(c) PROVE CacheInv'
  BY <1>3, CacheInvSearchFn
<1>4. ASSUME NEW c \in Callers, Cached!SearchFnFails(c) PROVE CacheInv'
  BY <1>4, CacheInvSearchFnFails
<1>5. ASSUME NEW c \in Callers, Cached!Put(c) PROVE CacheInv'
  BY <1>5, CacheInvPut
<1>6. CASE Cached!ClearCache
  BY <1>6, CacheInvClear
<1>7. CASE Cached!ReplaceIndex
  BY <1>7, CacheInvReplace
<1> QED
  BY <1>1, <1>2, <1>3, <1>4, <1>5, <1>6, <1>7 DEF Cached!CacheNext

LEMMA CacheInvMeansBounded == CacheInv => Cached!CacheIsBounded /\ Cached!StaleOnlyFromStragglers
<1> SUFFICES ASSUME CacheInv PROVE Cached!CacheIsBounded /\ Cached!StaleOnlyFromStragglers
  OBVIOUS
<1>1. Cached!CacheIsBounded
  BY DEF CacheInv, OneForEachKey, Cached!CacheIsBounded, Cached!IsInjective
<1>2. \A i \in DOMAIN cache : cache[i] \in CacheEntry
  BY ElementOfSeq DEF CacheInv
<1>3. Cached!StaleOnlyFromStragglers
  BY <1>2 DEF CacheInv, Recent, RecentAt, CacheEntry, Cached!StaleOnlyFromStragglers
<1> QED
  BY <1>1, <1>3

----------------------------------------------------------------------------
(***************************************************************************)
(* The steps of one part and those of the others                           *)
(***************************************************************************)

\* Whatever callers do between the two locks of a search, the cache stays within its
\* capacity with one entry for each key, and what survives a clear was put by a
\* search that was under way.
THEOREM CacheIsSafe == StoresSpec => []CacheSurvivesRaces
<1> DEFINE I == part = "cache" => CacheInv
<1>1. StoresInit => I
  BY CacheInvInit DEF StoresInit
<1>2. I /\ [StoresNext]_storesVars => I'
  <2> SUFFICES ASSUME I, [StoresNext]_storesVars PROVE I'
    OBVIOUS
  <2>1. CASE part = "cache" /\ Cached!CacheNext /\ UNCHANGED part
    BY <2>1, CacheInvNext
  <2>2. CASE UNCHANGED storesVars
    BY <2>2 DEF storesVars, otherVars, CacheInv, OneForEachKey, Recent, RecentAt
  <2>3. CASE part # "cache" /\ UNCHANGED part
    BY <2>3
  <2> QED
    BY <2>1, <2>2, <2>3 DEF StoresNext
<1>3. I => CacheSurvivesRaces
  BY CacheInvMeansBounded DEF CacheSurvivesRaces, CacheIsBounded, StaleOnlyFromStragglers
<1> QED
  BY <1>1, <1>2, <1>3, PTL DEF StoresSpec

\* The variables of InMemoryVectorStore are no other part's.
LEMMA InMemorySteps == [StoresNext]_storesVars => [Next]_vars
BY DEF StoresNext, storesVars

\* InMemoryVectorStore keeps its invariant whatever the part is.
LEMMA InMemoryInv == StoresSpec => []StoreInv
<1>1. StoresInit => StoreInv
  BY InvInit DEF StoresInit
<1>2. StoreInv /\ [StoresNext]_storesVars => StoreInv'
  BY InMemorySteps, InvNext
<1> QED
  BY <1>1, <1>2, PTL DEF StoresSpec

\* InMemoryVectorStore: the index finds each vector, after any calls.
THEOREM StoresIndexMatchesVectors == StoresSpec => []IndexMatchesVectors
<1>1. StoreInv => IndexMatchesVectors
  BY InvMeansIndexMatches
<1> QED
  BY <1>1, InMemoryInv, PTL

----------------------------------------------------------------------------
(***************************************************************************)
(* Ids in an array, and the index of their positions                       *)
(***************************************************************************)

Once(ids) == \A i, j \in DOMAIN ids : ids[i] = ids[j] => i = j

\* ix has the position of each of the ids, and of no other member of I.
Finds(ix, I, ids) ==
  /\ ix \in [I -> Nat]
  /\ \A i \in DOMAIN ids : ix[ids[i]] = i
  /\ \A id \in I : ix[id] # 0 => ix[id] \in DOMAIN ids /\ ids[ix[id]] = id

LEMMA FindsOnce ==
  ASSUME NEW ix, NEW I, NEW ids, Finds(ix, I, ids)
  PROVE  Once(ids)
BY DEF Finds, Once

LEMMA FindsUnique ==
  ASSUME NEW a, NEW b, NEW I, NEW ids, Finds(a, I, ids), Finds(b, I, ids)
  PROVE  a = b
<1>1. a \in [I -> Nat] /\ b \in [I -> Nat]
  BY DEF Finds
<1>2. \A id \in I : a[id] = b[id]
  BY DEF Finds
<1> QED
  BY <1>1, <1>2

LEMMA FindsNone ==
  ASSUME NEW I
  PROVE  Finds([id \in I |-> 0], I, <<>>)
<1>1. DOMAIN <<>> = {}
  OBVIOUS
<1> QED
  BY <1>1 DEF Finds

\* An index made of the array alone, whichever of the positions it takes.
LEMMA FindsRebuilt ==
  ASSUME NEW I, NEW ids \in Seq(I), Once(ids), NEW ix, ix = [id \in I |-> ix[id]],
         \A id \in I : (\A i \in DOMAIN ids : ids[i] # id) => ix[id] = 0,
         \A id \in I : (\E i \in DOMAIN ids : ids[i] = id) => ix[id] \in DOMAIN ids /\ ids[ix[id]] = id
  PROVE  Finds(ix, I, ids)
<1>1. Len(ids) \in Nat /\ DOMAIN ids = 1..Len(ids) /\ \A i \in DOMAIN ids : ids[i] \in I
  BY LenProperties, ElementOfSeq
<1>2. \A id \in I : ix[id] \in Nat
  BY <1>1
<1>3. ix \in [I -> Nat]
  BY <1>2
<1>4. \A i \in DOMAIN ids : ix[ids[i]] = i
  BY <1>1 DEF Once
<1> QED
  BY <1>3, <1>4 DEF Finds

\* One more id behind the others.
LEMMA FindsAppended ==
  ASSUME NEW I, NEW ids \in Seq(I), NEW ix, Finds(ix, I, ids), NEW id \in I, ix[id] = 0
  PROVE  /\ Append(ids, id) \in Seq(I) /\ Len(Append(ids, id)) = Len(ids) + 1
         /\ \A i \in 1..Len(ids) : Append(ids, id)[i] = ids[i]
         /\ Append(ids, id)[Len(ids) + 1] = id
         /\ Finds([ix EXCEPT ![id] = Len(ids) + 1], I, Append(ids, id))
<1> DEFINE new == Append(ids, id)
           b == [ix EXCEPT ![id] = Len(ids) + 1]
           n == Len(ids)
<1>1. n \in Nat /\ DOMAIN ids = 1..n /\ \A i \in 1..n : ids[i] \in I
  BY LenProperties, ElementOfSeq
<1>2. /\ new \in Seq(I) /\ Len(new) = n + 1
      /\ new[n + 1] = id /\ \A i \in 1..n : new[i] = ids[i]
  BY AppendProperties
<1>3. DOMAIN new = 1..n + 1
  BY <1>1, <1>2, LenProperties
<1>4. b \in [I -> Nat] /\ b[id] = n + 1 /\ \A x \in I : x # id => b[x] = ix[x]
  BY <1>1 DEF Finds
<1>5. \A i \in 1..n : ids[i] # id
  BY <1>1 DEF Finds
<1> HIDE DEF new, b, n
<1>6. ASSUME NEW i \in 1..n + 1 PROVE b[new[i]] = i
  <2>1. CASE i = n + 1
    BY <1>2, <1>4, <2>1
  <2>2. CASE i \in 1..n
    <3>1. new[i] = ids[i] /\ ids[i] \in I /\ ids[i] # id /\ i \in DOMAIN ids
      BY <1>1, <1>2, <1>5, <2>2
    <3> QED
      BY <1>4, <3>1 DEF Finds
  <2> QED
    BY <1>1, <2>1, <2>2
<1>7. ASSUME NEW x \in I, b[x] # 0 PROVE b[x] \in 1..n + 1 /\ new[b[x]] = x
  <2>1. CASE x = id
    BY <1>1, <1>2, <1>4, <2>1
  <2>2. CASE x # id
    <3>1. b[x] = ix[x] /\ ix[x] \in 1..n /\ ids[ix[x]] = x
      BY <1>1, <1>4, <1>7, <2>2 DEF Finds
    <3> QED
      BY <1>1, <1>2, <3>1
  <2> QED
    BY <2>1, <2>2
<1>8. Finds(b, I, new)
  BY <1>3, <1>4, <1>6, <1>7 DEF Finds
<1> QED
  BY <1>2, <1>8 DEF new, b, n

----------------------------------------------------------------------------
(***************************************************************************)
(* CompactVectorStore                                                      *)
(***************************************************************************)

CompactVector == [id : Ids, dimension : Nat \ {0}, data : Seq(Int)]

\* What save wrote: as many rows of the dimension as ids.
CompactFile(f) ==
  /\ f \in [readable : BOOLEAN, dimension : Nat, ids : Seq(Ids), data : Seq(Seq(Int))]
  /\ Once(f.ids) /\ (f.ids # <<>> => f.dimension > 0)
  /\ Len(f.data) = Len(f.ids) /\ \A i \in DOMAIN f.data : Len(f.data[i]) = f.dimension

\* The inductive invariant: the vectors are the rows of the buffer.
CompactInv ==
  /\ chunk_ids \in Seq(Ids) /\ Finds(positions, Ids, chunk_ids)
  /\ dims \in Nat /\ (chunk_ids # <<>> => dims > 0)
  /\ buffer \in Seq(Int) /\ InRows(buffer, Len(chunk_ids), dims)
  /\ offsets \in Seq(Nat) /\ Len(offsets) = Len(chunk_ids)
  /\ \A i \in 1..Len(chunk_ids) : offsets[i] = Base(i, dims)
  /\ pending \in Seq(CompactVector) /\ (pending # <<>> => reply = Compact!Busy)
  /\ CompactFile(saved)

LEMMA CompactAssumptions ==
  CompactBatches \subseteq Seq(CompactVector) /\ Capacities \subseteq Nat /\ Absent \notin Seq(Int)
<1>1. {v \in Compact!Vector : v.dimension > 0} = CompactVector
  <2>1. ASSUME NEW v \in CompactVector PROVE v \in Compact!Vector /\ v.dimension > 0
    BY DEF Compact!Vector, CompactVector
  <2>2. ASSUME NEW v \in Compact!Vector, v.dimension > 0 PROVE v \in CompactVector
    BY <2>2 DEF Compact!Vector, CompactVector
  <2> QED
    BY <2>1, <2>2
<1> QED
  BY <1>1, MCAssumption DEF Compact!CompactAssumption

\* The instance has its own names for what the module extends.
LEMMA SameFlatten == \A s : Compact!FlattenSeq(s) = FlattenSeq(s)
BY Zenon DEF Compact!FlattenSeq, FlattenSeq

LEMMA SameCount == \A S : Compact!Cardinality(S) = Cardinality(S)
BY Zenon DEF Compact!Cardinality, Cardinality

LEMMA CompactKinds ==
  /\ Compact!Ok # Compact!Busy /\ Compact!Err # Compact!Busy
  /\ \A n, data, ids : /\ Compact!Answer("removed", n, data, ids) # Compact!Busy
                       /\ Compact!Answer("found", n, data, ids) # Compact!Busy
                       /\ Compact!Answer("none", n, data, ids) # Compact!Busy
                       /\ Compact!Answer("ranked", n, data, ids) # Compact!Busy
BY DEF Compact!Ok, Compact!Err, Compact!Busy, Compact!Answer

LEMMA CompactIndexOf ==
  ASSUME NEW ids \in Seq(Ids), Once(ids)
  PROVE  Finds(Compact!IndexOf(ids), Ids, ids)
<1> DEFINE ix == Compact!IndexOf(ids)
<1>1. ix = [id \in Ids |-> ix[id]]
  BY DEF Compact!IndexOf
<1>2. \A id \in Ids : (\A i \in DOMAIN ids : ids[i] # id) => ix[id] = 0
  BY DEF Compact!IndexOf
<1>3. ASSUME NEW id \in Ids, NEW k \in DOMAIN ids, ids[k] = id
      PROVE  ix[id] \in DOMAIN ids /\ ids[ix[id]] = id
  <2>1. k \in Int
    BY LenProperties
  <2>2. \A i \in DOMAIN ids : (ids[i] = id /\ \A j \in DOMAIN ids : ids[j] = id => j <= i) <=> i = k
    BY <1>3, <2>1 DEF Once
  <2>3. ix[id] = k
    BY <1>3, <2>2 DEF Compact!IndexOf
  <2> QED
    BY <1>3, <2>3
<1> HIDE DEF ix
<1> QED
  BY <1>1, <1>2, <1>3, FindsRebuilt DEF ix

\* The vector at a position is a row.
LEMMA CompactRows ==
  ASSUME CompactInv, NEW i \in DOMAIN chunk_ids
  PROVE  /\ i \in 1..Len(chunk_ids) /\ Compact!GetVector(i) = RowOf(buffer, i, dims)
         /\ Compact!GetVector(i) \in Seq(Int) /\ Len(Compact!GetVector(i)) = dims
<1>1. Len(chunk_ids) \in Nat /\ i \in 1..Len(chunk_ids)
  BY LenProperties DEF CompactInv
<1>2. Compact!GetVector(i) = RowOf(buffer, i, dims)
  BY <1>1 DEF CompactInv, Compact!GetVector, RowOf
<1>3. buffer \in Seq(Int) /\ InRows(buffer, Len(chunk_ids), dims) /\ dims \in Nat
  BY DEF CompactInv
<1>4. RowOf(buffer, i, dims) \in Seq(Int) /\ Len(RowOf(buffer, i, dims)) = dims
  BY ONLY <1>1, <1>3, RowFacts
<1> QED
  BY <1>1, <1>2, <1>4

LEMMA CompactInvInit == Compact!Init => CompactInv
<1> SUFFICES ASSUME Compact!Init PROVE CompactInv
  OBVIOUS
<1>1. \A S : <<>> \in Seq(S)
  OBVIOUS
<1>2. Len(<<>>) = 0 /\ DOMAIN <<>> = {}
  OBVIOUS
<1>3. dims \in Nat
  BY CompactAssumptions DEF Compact!Init
<1>4. Finds(positions, Ids, <<>>)
  BY FindsNone DEF Compact!Init
<1>5. InRows(<<>>, 0, dims)
  BY <1>2, <1>3, PlaceInRow DEF InRows
<1>6. CompactFile(saved)
  BY <1>1, <1>2 DEF Compact!Init, Compact!NoFile, CompactFile, Once
<1> QED
  BY <1>1, <1>2, <1>3, <1>4, <1>5, <1>6 DEF Compact!Init, CompactInv

\* The first vector of a batch.
LEMMA CompactHead ==
  ASSUME pending \in Seq(CompactVector), pending # <<>>
  PROVE  /\ Tail(pending) \in Seq(CompactVector)
         /\ Head(pending).id \in Ids /\ Head(pending).dimension \in Nat /\ Head(pending).dimension > 0
         /\ Head(pending).data \in Seq(Int)
<1>1. Head(pending) \in CompactVector /\ Tail(pending) \in Seq(CompactVector)
  BY HeadTailProperties
<1> QED
  BY <1>1 DEF CompactVector

\* What add does to the rows: that of the id has the new data, the others stay.
LEMMA CompactAdded ==
  ASSUME CompactInv, Compact!AddVector
  PROVE  LET v == Head(pending) IN
         /\ v.id \in Ids /\ v.data \in Seq(Int) /\ dims' = v.dimension /\ Len(v.data) = v.dimension
         /\ dims = 0 \/ dims = v.dimension
         /\ CompactInv'
         /\ \A id \in Ids : positions'[id] # 0 <=> positions[id] # 0 \/ id = v.id
         /\ \A id \in Ids : positions'[id] # 0 =>
              RowOf(buffer', positions'[id], dims') = IF id = v.id THEN v.data ELSE RowOf(buffer, positions[id], dims)
<1> DEFINE v == Head(pending)
           p == positions[v.id]
           n == Len(chunk_ids)
           id0 == v.id
           data == v.data
           d == v.dimension
<1>1. /\ pending \in Seq(CompactVector) /\ pending # <<>>
      /\ reply = Compact!Busy /\ reply' = Compact!Busy /\ saved' = saved
  BY DEF CompactInv, Compact!AddVector
<1>2. /\ Tail(pending) \in Seq(CompactVector) /\ id0 \in Ids /\ d \in Nat /\ d > 0 /\ data \in Seq(Int)
  BY <1>1, CompactHead
<1>3. Len(data) = d /\ (dims = 0 \/ dims = d) /\ dims' = d /\ pending' = Tail(pending)
  BY DEF Compact!AddVector, Compact!Fits
<1>4. /\ n \in Nat /\ DOMAIN chunk_ids = 1..n
      /\ chunk_ids \in Seq(Ids) /\ Finds(positions, Ids, chunk_ids)
      /\ dims \in Nat /\ (chunk_ids # <<>> => dims > 0)
      /\ buffer \in Seq(Int) /\ InRows(buffer, n, dims)
      /\ offsets \in Seq(Nat) /\ Len(offsets) = n
      /\ \A i \in 1..n : offsets[i] = Base(i, dims)
      /\ CompactFile(saved)
  BY LenProperties DEF CompactInv
<1>5. n > 0 => dims = d
  <2>1. n > 0 => chunk_ids # <<>>
    BY <1>4
  <2> QED
    BY <1>3, <1>4, <2>1
<1>6. InRows(buffer, n, d) /\ \A i \in 1..n : offsets[i] = Base(i, d)
  <2>1. CASE n = 0
    <3>1. Len(buffer) = 0 * dims
      BY <1>4, <2>1 DEF InRows
    <3>2. 0 * dims = 0 /\ 0 * d = 0
      BY <1>2, <1>4, PlaceInRow
    <3> QED
      BY <2>1, <3>1, <3>2 DEF InRows
  <2>2. CASE n # 0
    BY <1>4, <1>5, <2>2
  <2> QED
    BY <2>1, <2>2
<1>7. CASE p # 0
  <2>1. /\ buffer' = Compact!Overwritten(offsets[p], data)
        /\ UNCHANGED <<chunk_ids, offsets, positions>>
    BY <1>7 DEF Compact!AddVector
  <2>2. p \in 1..n /\ chunk_ids[p] = id0
    BY <1>2, <1>4, <1>7 DEF Finds
  <2>3. dims = d
    BY <1>4, <1>5, <2>2
  <2> HIDE DEF v, n, p, id0, data, d
  <2>4. buffer' = OverwrittenFrom(buffer, offsets[p], data, d)
    BY <1>3, <2>1 DEF Compact!Overwritten, OverwrittenFrom
  <2>5. offsets[p] = Base(p, d)
    BY <1>6, <2>2
  <2>6. /\ buffer' \in Seq(Int) /\ InRows(buffer', n, d)
        /\ \A a \in 1..n : RowOf(buffer', a, d) = IF a = p THEN data ELSE RowOf(buffer, a, d)
    <3>1. LET new == OverwrittenFrom(buffer, Base(p, d), data, d) IN
          /\ new \in Seq(Int) /\ InRows(new, n, d)
          /\ \A a \in 1..n : RowOf(new, a, d) = IF a = p THEN data ELSE RowOf(buffer, a, d)
      <4>1. /\ buffer \in Seq(Int) /\ n \in Nat /\ d \in Nat /\ InRows(buffer, n, d)
            /\ p \in 1..n /\ data \in Seq(Int) /\ Len(data) = d
        BY <1>2, <1>3, <1>4, <1>6, <2>2
      <4> QED
        BY ONLY <4>1, RowOverwritten
    <3> QED
      BY ONLY <2>4, <2>5, <3>1
  <2>7. CompactInv'
    BY <1>1, <1>2, <1>3, <1>4, <2>1, <2>3, <2>6 DEF CompactInv, CompactFile, Finds, n
  <2>8. \A id \in Ids : positions[id] # 0 => positions[id] \in 1..n /\ (positions[id] = p <=> id = id0)
    BY <1>2, <1>4, <1>7, <2>2 DEF Finds, p, id0
  <2>9. \A id \in Ids : positions'[id] # 0 =>
          RowOf(buffer', positions'[id], d) = IF id = id0 THEN data ELSE RowOf(buffer, positions[id], d)
    BY <2>1, <2>6, <2>8
  <2>10. positions[id0] # 0
    BY <1>7 DEF p, id0
  <2> QED
    BY <1>2, <1>3, <2>1, <2>3, <2>7, <2>9, <2>10 DEF v, id0, data, d
<1>8. CASE p = 0
  <2>1. /\ offsets' = Append(offsets, Len(buffer))
        /\ buffer' = buffer \o data
        /\ chunk_ids' = Append(chunk_ids, id0)
        /\ positions' = [positions EXCEPT ![id0] = n + 1]
    BY <1>8 DEF Compact!AddVector
  <2> HIDE DEF v, n, id0, data, d
  <2>2. positions[id0] = 0
    BY <1>8 DEF id0
  <2> HIDE DEF p
  <2> DEFINE next == n + 1
  <2>3. /\ buffer' \in Seq(Int) /\ InRows(buffer', next, d)
        /\ \A a \in 1..n : RowOf(buffer', a, d) = RowOf(buffer, a, d)
        /\ RowOf(buffer', next, d) = data
    <3>1. /\ buffer \o data \in Seq(Int) /\ InRows(buffer \o data, n + 1, d)
          /\ \A a \in 1..n : RowOf(buffer \o data, a, d) = RowOf(buffer, a, d)
          /\ RowOf(buffer \o data, n + 1, d) = data
      BY ONLY <1>2, <1>3, <1>4, <1>6, RowAppended
    <3> QED
      BY <2>1, <3>1
  <2>4. /\ chunk_ids' \in Seq(Ids) /\ Len(chunk_ids') = next
        /\ Finds(positions', Ids, chunk_ids')
    <3>1. /\ Append(chunk_ids, id0) \in Seq(Ids) /\ Len(Append(chunk_ids, id0)) = Len(chunk_ids) + 1
          /\ Finds([positions EXCEPT ![id0] = Len(chunk_ids) + 1], Ids, Append(chunk_ids, id0))
      BY ONLY <1>2, <1>4, <2>2, FindsAppended
    <3> QED
      BY <2>1, <3>1 DEF n
  <2>5. Len(buffer) = Base(next, d) /\ Len(buffer) \in Nat
    BY <1>2, <1>4, <1>6, PlaceInRow DEF InRows, Base
  <2>6. /\ offsets' \in Seq(Nat) /\ Len(offsets') = next
        /\ \A i \in 1..next : offsets'[i] = Base(i, d)
    <3>1. /\ offsets' \in Seq(Nat) /\ Len(offsets') = n + 1
          /\ \A i \in 1..n : offsets'[i] = offsets[i]
          /\ offsets'[n + 1] = Len(buffer)
      BY <1>4, <2>1, <2>5, AppendProperties
    <3>2. \A i \in 1..next : i \in 1..n \/ i = next
      BY <1>4
    <3> QED
      BY <1>6, <2>5, <3>1, <3>2
  <2>7. CompactInv'
    <3>1. next = Len(chunk_ids')
      BY <2>4
    <3> HIDE DEF next
    <3> QED
      BY <1>1, <1>2, <1>3, <1>4, <2>3, <2>4, <2>6, <3>1 DEF CompactInv
  <2>8. positions'[id0] = next /\ \A id \in Ids : id # id0 => positions'[id] = positions[id]
    BY <1>2, <1>4, <2>1 DEF Finds
  <2>9. \A id \in Ids : positions[id] # 0 => positions[id] \in 1..n /\ dims = d
    BY <1>4, <1>5 DEF Finds
  <2>10. ASSUME NEW id \in Ids, positions'[id] # 0
         PROVE  RowOf(buffer', positions'[id], d) = IF id = id0 THEN data ELSE RowOf(buffer, positions[id], dims)
    BY <2>3, <2>8, <2>9, <2>10
  <2>11. next # 0
    BY <1>4
  <2> QED
    BY <1>2, <1>3, <2>7, <2>8, <2>10, <2>11 DEF v, id0, data, d
<1> QED
  BY <1>7, <1>8

\* What remove keeps: the positions of the other ids, in their order.
LEMMA KeptFacts ==
  ASSUME NEW n \in Nat, chunk_ids \in Seq(Ids), Len(chunk_ids) = n, NEW ids
  PROVE  LET keep == Compact!Kept(ids) IN
         /\ keep \in Seq(Nat)
         /\ \A a \in 1..Len(keep) : keep[a] \in 1..n /\ chunk_ids[keep[a]] \notin ids
         /\ \A a, b \in 1..Len(keep) : keep[a] = keep[b] => a = b
         /\ \A i \in 1..n : chunk_ids[i] \notin ids => \E a \in 1..Len(keep) : keep[a] = i
<1> DEFINE S == Seq(Nat)
           step == [k \in 1..n |-> [s \in S |-> IF chunk_ids[k] \in ids THEN s ELSE Append(s, k)]]
           kept == CHOOSE g : g = [k \in 0..Len(chunk_ids) |->
                     IF k = 0 THEN <<>> ELSE IF chunk_ids[k] \in ids THEN g[k - 1] ELSE Append(g[k - 1], k)]
<1>1. Compact!Kept(ids) = kept[n]
  BY DEF Compact!Kept
<1>2. <<>> \in S /\ Len(<<>>) = 0
  OBVIOUS
<1>3. step \in [1..n -> [S -> S]]
  <2>1. ASSUME NEW k \in 1..n, NEW s \in S
        PROVE  (IF chunk_ids[k] \in ids THEN s ELSE Append(s, k)) \in S
    BY AppendProperties
  <2> HIDE DEF S
  <2> QED
    BY <2>1
<1>4. \A k \in 1..n : \A s \in S : step[k][s] = IF chunk_ids[k] \in ids THEN s ELSE Append(s, k)
  <2> HIDE DEF S
  <2> QED
    OBVIOUS
<1> HIDE DEF step
<1>5. PICK f \in [0..n -> S] : f[0] = <<>> /\ \A k \in 1..n : f[k] = step[k][f[k - 1]]
  <2> HIDE DEF S
  <2> QED
    BY ONLY <1>2, <1>3, n \in Nat, IterationExists
<1>6. f = [k \in 0..n |-> IF k = 0 THEN <<>> ELSE IF chunk_ids[k] \in ids THEN f[k - 1] ELSE Append(f[k - 1], k)]
  <2> HIDE DEF S
  <2>1. ASSUME NEW k \in 1..n PROVE f[k] = IF chunk_ids[k] \in ids THEN f[k - 1] ELSE Append(f[k - 1], k)
    <3>1. f[k - 1] \in S
      OBVIOUS
    <3> QED
      BY <1>4, <1>5, <3>1
  <2>2. \A k \in 0..n : k = 0 \/ k \in 1..n
    OBVIOUS
  <2> QED
    BY <1>5, <2>1, <2>2
<1>7. kept = [k \in 0..n |-> IF k = 0 THEN <<>> ELSE IF chunk_ids[k] \in ids THEN kept[k - 1] ELSE Append(kept[k - 1], k)]
  BY <1>6
<1>8. /\ kept[0] = <<>>
      /\ \A k \in 0..n - 1 : kept[k + 1] = IF chunk_ids[k + 1] \in ids THEN kept[k] ELSE Append(kept[k], k + 1)
  <2> HIDE DEF kept
  <2>1. \A k \in 0..n : kept[k] = IF k = 0 THEN <<>> ELSE IF chunk_ids[k] \in ids THEN kept[k - 1] ELSE Append(kept[k - 1], k)
    BY <1>7
  <2>2. \A k \in 0..n - 1 : k + 1 \in 0..n /\ k + 1 # 0 /\ (k + 1) - 1 = k
    OBVIOUS
  <2> QED
    BY <2>1, <2>2
<1> HIDE DEF kept
<1> DEFINE Keeps(s, k) == /\ s \in Seq(Nat)
                          /\ \A a \in 1..Len(s) : s[a] \in 1..k /\ chunk_ids[s[a]] \notin ids
                          /\ \A a, b \in 1..Len(s) : s[a] = s[b] => a = b
                          /\ \A i \in 1..k : chunk_ids[i] \notin ids => \E a \in 1..Len(s) : s[a] = i
           T == {k \in 0..n : Keeps(kept[k], k)}
<1>9. 0 \in T
  <2>1. \A j : j \notin 1..0
    OBVIOUS
  <2>2. Keeps(<<>>, 0)
    BY <1>2, <2>1
  <2> HIDE DEF Keeps
  <2> QED
    BY <1>8, <2>2
<1>10. ASSUME NEW k \in 0..n - 1, k \in T PROVE k + 1 \in T
  <2> DEFINE s == kept[k]
             t == kept[k + 1]
  <2>1. Keeps(s, k)
    BY <1>10
  <2>2. k \in Nat /\ k + 1 \in 0..n /\ \A i \in 1..k + 1 : i \in 1..k \/ i = k + 1
    OBVIOUS
  <2>3. t = IF chunk_ids[k + 1] \in ids THEN s ELSE Append(s, k + 1)
    BY <1>8
  <2> HIDE DEF s, t
  <2>4. CASE chunk_ids[k + 1] \in ids
    <3>0. t = s
      BY <2>3, <2>4
    <3>1. \A i \in 1..k : i \in 1..k + 1
      OBVIOUS
    <3>2. \A i \in 1..k + 1 : chunk_ids[i] \notin ids => i \in 1..k
      BY <2>2, <2>4
    <3>3. Keeps(s, k + 1)
      BY <2>1, <3>1, <3>2
    <3> HIDE DEF Keeps
    <3> QED
      BY <2>2, <3>0, <3>3 DEF t
  <2>5. CASE chunk_ids[k + 1] \notin ids
    <3>1. /\ s \in Seq(Nat) /\ t = Append(s, k + 1) /\ Len(s) \in Nat
      BY <2>1, <2>3, <2>5, LenProperties
    <3>2. /\ t \in Seq(Nat) /\ Len(t) = Len(s) + 1 /\ t[Len(s) + 1] = k + 1
          /\ \A a \in 1..Len(s) : t[a] = s[a]
      BY <2>2, <3>1, AppendProperties
    <3>3. \A a \in 1..Len(t) : a \in 1..Len(s) \/ a = Len(s) + 1
      BY <3>1, <3>2
    <3>4. \A a \in 1..Len(s) : a \in 1..Len(t) /\ t[a] # k + 1
      BY <2>1, <2>2, <3>1, <3>2
    <3>5. Len(s) + 1 \in 1..Len(t)
      BY <3>1, <3>2
    <3>6. ASSUME NEW a \in 1..Len(t) PROVE t[a] \in 1..k + 1 /\ chunk_ids[t[a]] \notin ids
      <4>1. CASE a \in 1..Len(s)
        <5>1. t[a] = s[a] /\ s[a] \in 1..k /\ chunk_ids[s[a]] \notin ids
          BY <2>1, <3>2, <4>1
        <5> QED
          BY <2>2, <5>1
      <4>2. CASE a = Len(s) + 1
        <5>1. t[a] = k + 1 /\ k + 1 \in 1..k + 1
          BY <2>2, <3>2, <4>2
        <5> QED
          BY <2>5, <5>1
      <4> QED
        BY <3>3, <4>1, <4>2
    <3>7. \A a, b \in 1..Len(t) : t[a] = t[b] => a = b
      BY <2>1, <3>2, <3>3, <3>4
    <3>8. \A i \in 1..k + 1 : chunk_ids[i] \notin ids => \E a \in 1..Len(t) : t[a] = i
      <4> SUFFICES ASSUME NEW i \in 1..k + 1, chunk_ids[i] \notin ids
                   PROVE  \E a \in 1..Len(t) : t[a] = i
        OBVIOUS
      <4>1. CASE i \in 1..k
        <5>1. PICK a \in 1..Len(s) : s[a] = i
          BY <2>1, <4>1
        <5> QED
          BY <3>2, <3>4, <5>1
      <4>2. CASE i = k + 1
        BY <3>2, <3>5, <4>2
      <4> QED
        BY <2>2, <4>1, <4>2
    <3>9. Keeps(t, k + 1)
      BY <3>2, <3>6, <3>7, <3>8
    <3> HIDE DEF Keeps
    <3> QED
      BY <2>2, <3>9 DEF t
  <2> QED
    BY <2>4, <2>5
<1>11. n \in T
  <2> HIDE DEF T
  <2>1. \A k \in 0..n : k \in T
    BY ONLY <1>9, <1>10, n \in Nat, BoundedInduction
  <2> QED
    BY <2>1
<1>12. Keeps(kept[n], n)
  <2> HIDE DEF Keeps
  <2> QED
    BY <1>11
<1> DEFINE keep == Compact!Kept(ids)
<1>13. keep = kept[n]
  BY <1>1
<1> HIDE DEF keep
<1>14. Keeps(keep, n)
  <2> HIDE DEF Keeps
  <2> QED
    BY <1>12, <1>13
<1> QED
  BY <1>14 DEF keep

\* What remove does to the rows: those of the ids removed are gone, the others stay.
LEMMA CompactRemoved ==
  ASSUME CompactInv, NEW ids, Compact!RemoveVectors(ids)
  PROVE  /\ CompactInv'
         /\ \A id \in Ids : positions'[id] # 0 <=> positions[id] # 0 /\ id \notin ids
         /\ \A id \in Ids : positions'[id] # 0 =>
              RowOf(buffer', positions'[id], dims') = RowOf(buffer, positions[id], dims)
<1> DEFINE n == Len(chunk_ids)
           keep == Compact!Kept(ids)
           kept == [a \in DOMAIN keep |-> chunk_ids[keep[a]]]
           rows == [a \in DOMAIN keep |-> Compact!GetVector(keep[a])]
<1>1. /\ reply # Compact!Busy /\ reply' # Compact!Busy /\ pending' = pending /\ saved' = saved /\ dims' = dims
      /\ buffer' = FlattenSeq(rows) /\ chunk_ids' = kept /\ offsets' = Compact!Packed(Len(keep))
      /\ positions' = Compact!IndexOf(kept)
  <2>1. reply' = Compact!Answer("removed", Len(chunk_ids) - Len(keep), <<>>, <<>>)
    BY DEF Compact!RemoveVectors
  <2>2. reply' # Compact!Busy
    BY <2>1 DEF Compact!Answer, Compact!Busy
  <2>3. reply # Compact!Busy /\ pending' = pending /\ saved' = saved /\ dims' = dims
    BY DEF Compact!RemoveVectors, Compact!Idle
  <2>4. buffer' = FlattenSeq(rows)
    BY SameFlatten DEF Compact!RemoveVectors
  <2>5. chunk_ids' = kept
    BY DEF Compact!RemoveVectors
  <2>7. positions' = Compact!IndexOf(kept)
    BY DEF Compact!RemoveVectors
  <2>6. offsets' = Compact!Packed(Len(keep))
    BY DEF Compact!RemoveVectors
  <2> QED
    BY <2>2, <2>3, <2>4, <2>5, <2>6, <2>7
<1>2. /\ n \in Nat /\ DOMAIN chunk_ids = 1..n /\ chunk_ids \in Seq(Ids)
      /\ Finds(positions, Ids, chunk_ids) /\ dims \in Nat /\ (chunk_ids # <<>> => dims > 0)
      /\ \A i \in 1..n : chunk_ids[i] \in Ids
  BY LenProperties, ElementOfSeq DEF CompactInv
<1>3. /\ keep \in Seq(Nat)
      /\ \A a \in 1..Len(keep) : keep[a] \in 1..n /\ chunk_ids[keep[a]] \notin ids
      /\ \A a, b \in 1..Len(keep) : keep[a] = keep[b] => a = b
      /\ \A i \in 1..n : chunk_ids[i] \notin ids => \E a \in 1..Len(keep) : keep[a] = i
  <2>1. Len(chunk_ids) = n
    OBVIOUS
  <2> HIDE DEF n
  <2> QED
    BY ONLY <1>2, <2>1, KeptFacts
<1>4. Len(keep) \in Nat /\ DOMAIN keep = 1..Len(keep)
  BY <1>3, LenProperties
<1>5. \A i \in 1..n : /\ Compact!GetVector(i) = RowOf(buffer, i, dims)
                      /\ Compact!GetVector(i) \in Seq(Int) /\ Len(Compact!GetVector(i)) = dims
  BY <1>2, CompactRows
<1> HIDE DEF n, keep
<1> DEFINE k == Len(keep)
<1>6. kept \in Seq(Ids) /\ Len(kept) = k /\ \A a \in 1..k : kept[a] = chunk_ids[keep[a]]
  <2>1. kept \in [1..k -> Ids]
    BY <1>2, <1>3, <1>4
  <2> HIDE DEF kept
  <2>2. kept \in Seq(Ids) /\ Len(kept) = k
    BY <1>4, <2>1, FunctionIsSeq
  <2> QED
    BY <1>4, <2>2 DEF kept
<1>7. rows \in Seq(Seq(Int)) /\ Len(rows) = k /\ \A a \in 1..k : rows[a] = RowOf(buffer, keep[a], dims) /\ Len(rows[a]) = dims
  <2>1. rows \in [1..k -> Seq(Int)]
    BY <1>3, <1>4, <1>5
  <2>2. \A a \in 1..k : rows[a] = RowOf(buffer, keep[a], dims) /\ Len(rows[a]) = dims
    BY <1>3, <1>4, <1>5
  <2> HIDE DEF rows
  <2>3. rows \in Seq(Seq(Int)) /\ Len(rows) = k
    BY <1>4, <2>1, FunctionIsSeq
  <2> QED
    BY <2>2, <2>3
<1>8. k \in Nat /\ DOMAIN kept = 1..k /\ DOMAIN rows = 1..k
  BY <1>4
<1> HIDE DEF kept, rows, k
<1>9. /\ FlattenSeq(rows) \in Seq(Int) /\ InRows(FlattenSeq(rows), k, dims)
      /\ \A a \in 1..k : RowOf(FlattenSeq(rows), a, dims) = rows[a]
  <2>1. \A a \in DOMAIN rows : Len(rows[a]) = dims
    BY <1>7, <1>8
  <2>2. /\ FlattenSeq(rows) \in Seq(Int) /\ InRows(FlattenSeq(rows), Len(rows), dims)
        /\ \A a \in 1..Len(rows) : RowOf(FlattenSeq(rows), a, dims) = rows[a]
    BY ONLY <1>2, <1>7, <2>1, FlattenRows
  <2> QED
    BY <1>7, <2>2
<1>10. Once(kept)
  <2> SUFFICES ASSUME NEW a \in 1..k, NEW b \in 1..k, kept[a] = kept[b] PROVE a = b
    BY <1>8 DEF Once
  <2>1. Once(chunk_ids) /\ keep[a] \in 1..n /\ keep[b] \in 1..n
    BY <1>2, <1>3, FindsOnce DEF k
  <2>2. chunk_ids[keep[a]] = chunk_ids[keep[b]]
    BY <1>6
  <2>3. keep[a] = keep[b]
    BY <1>2, <2>1, <2>2 DEF Once
  <2> QED
    BY <1>3, <2>3 DEF k
<1>11. Finds(positions', Ids, kept)
  <2>1. Finds(Compact!IndexOf(kept), Ids, kept)
    BY ONLY <1>6, <1>10, CompactIndexOf
  <2> QED
    BY <1>1, <2>1
<1>12. /\ offsets' \in Seq(Nat) /\ Len(offsets') = k
       /\ \A i \in 1..k : offsets'[i] = Base(i, dims)
  <2>1. offsets' = [i \in 1..k |-> Base(i, dims)]
    BY <1>1 DEF Compact!Packed, Base, k
  <2>2. \A i \in 1..k : Base(i, dims) \in Nat
    BY <1>2, <1>8, PlaceInRow DEF Base
  <2>3. offsets' \in [1..k -> Nat]
    BY <2>1, <2>2
  <2>4. offsets' \in Seq(Nat) /\ Len(offsets') = k
    BY <1>8, <2>3, FunctionIsSeq
  <2> QED
    BY <2>1, <2>4
<1>13. kept # <<>> => dims > 0
  <2>1. k = 0 => kept = <<>>
    BY <1>6
  <2>2. k # 0 => 1 \in 1..k
    BY <1>8
  <2>3. k # 0 => keep[1] \in DOMAIN chunk_ids
    BY <1>2, <1>3, <2>2 DEF k
  <2>4. DOMAIN <<>> = {}
    OBVIOUS
  <2> QED
    BY <1>2, <2>1, <2>3, <2>4
<1>14. CompactInv'
  <2>1. pending' \in Seq(CompactVector) /\ pending' = <<>> /\ CompactFile(saved')
    BY <1>1 DEF CompactInv
  <2> QED
    BY <1>1, <1>2, <1>6, <1>9, <1>11, <1>12, <1>13, <2>1 DEF CompactInv
<1>15. \A a \in 1..k : positions'[kept[a]] = a /\ positions[kept[a]] = keep[a] /\ keep[a] # 0
  <2>1. \A a \in 1..k : positions'[kept[a]] = a
    BY <1>8, <1>11 DEF Finds
  <2>2. \A a \in 1..k : keep[a] \in 1..n /\ kept[a] = chunk_ids[keep[a]]
    BY <1>3, <1>6 DEF k
  <2>3. \A i \in 1..n : positions[chunk_ids[i]] = i /\ i # 0
    BY <1>2 DEF Finds
  <2> QED
    BY <2>1, <2>2, <2>3
<1>16. \A id \in Ids : positions'[id] # 0 => positions'[id] \in 1..k /\ kept[positions'[id]] = id
  BY <1>8, <1>11 DEF Finds
<1>17. \A id \in Ids : positions[id] # 0 /\ id \notin ids => \E a \in 1..k : kept[a] = id
  <2> SUFFICES ASSUME NEW id \in Ids, positions[id] # 0, id \notin ids PROVE \E a \in 1..k : kept[a] = id
    OBVIOUS
  <2>1. positions[id] \in 1..n /\ chunk_ids[positions[id]] = id
    BY <1>2 DEF Finds
  <2>2. PICK a \in 1..k : keep[a] = positions[id]
    BY <1>3, <2>1 DEF k
  <2> QED
    BY <1>6, <2>1, <2>2
<1>18. \A a \in 1..k : kept[a] \notin ids
  BY <1>3, <1>6 DEF k
<1>19. \A id \in Ids : positions'[id] # 0 <=> positions[id] # 0 /\ id \notin ids
  <2>1. ASSUME NEW id \in Ids, positions'[id] # 0 PROVE positions[id] # 0 /\ id \notin ids
    BY <1>15, <1>16, <1>18, <2>1
  <2>2. ASSUME NEW id \in Ids, positions[id] # 0, id \notin ids PROVE positions'[id] # 0
    <3>1. PICK a \in 1..k : kept[a] = id
      BY <1>17, <2>2
    <3>2. positions'[id] = a /\ a # 0
      BY <1>8, <1>15, <3>1
    <3> QED
      BY <3>2
  <2> QED
    BY <2>1, <2>2
<1>20. ASSUME NEW id \in Ids, positions'[id] # 0
       PROVE  RowOf(buffer', positions'[id], dims') = RowOf(buffer, positions[id], dims)
  <2>1. PICK a \in 1..k : a = positions'[id] /\ kept[a] = id
    BY <1>16, <1>20
  <2>2. positions[id] = keep[a]
    BY <1>15, <2>1
  <2>3. RowOf(FlattenSeq(rows), a, dims) = RowOf(buffer, keep[a], dims)
    BY <1>7, <1>9
  <2> QED
    BY <1>1, <2>1, <2>2, <2>3
<1> QED
  BY <1>14, <1>19, <1>20

\* The count that remove returns is that of the ids it had.
LEMMA CompactRemovedCount ==
  ASSUME CompactInv, NEW ids, NEW S, \A id : id \in S <=> id \in Ids /\ id \in ids /\ positions[id] # 0
  PROVE  Len(chunk_ids) - Len(Compact!Kept(ids)) = Cardinality(S)
<1> DEFINE n == Len(chunk_ids)
           keep == Compact!Kept(ids)
           k == Len(keep)
           K == {keep[a] : a \in 1..k}
           R == (1..n) \ K
<1>1. n \in Nat /\ DOMAIN chunk_ids = 1..n /\ chunk_ids \in Seq(Ids) /\ Finds(positions, Ids, chunk_ids)
  BY LenProperties DEF CompactInv
<1>2. /\ keep \in Seq(Nat)
      /\ \A a \in 1..k : keep[a] \in 1..n /\ chunk_ids[keep[a]] \notin ids
      /\ \A a, b \in 1..k : keep[a] = keep[b] => a = b
      /\ \A i \in 1..n : chunk_ids[i] \notin ids => \E a \in 1..k : keep[a] = i
  BY <1>1, KeptFacts
<1>3. k \in Nat
  BY <1>2, LenProperties
<1> HIDE DEF n, keep, k
<1>4. IsFiniteSet(1..n) /\ Cardinality(1..n) = n /\ IsFiniteSet(1..k) /\ Cardinality(1..k) = k
  BY <1>1, <1>3, FS_Interval
<1>5. Cardinality(K) = k /\ IsFiniteSet(K) /\ K \subseteq 1..n
  <2> DEFINE f == [a \in 1..k |-> keep[a]]
  <2>1. f \in [1..k -> K] /\ (\A a, b \in 1..k : f[a] = f[b] => a = b) /\ \A i \in K : \E a \in 1..k : f[a] = i
    BY <1>2
  <2>2. K \subseteq 1..n
    BY <1>2
  <2> HIDE DEF f, K
  <2>3. f \in Bijection(1..k, K)
    BY <2>1, Fun_IsBij
  <2>4. Cardinality(K) = k
    BY <1>4, <2>3, FS_Bijection DEF ExistsBijection
  <2> QED
    BY <1>4, <2>2, <2>4, FS_Subset
<1>6. Cardinality(R) = n - k /\ IsFiniteSet(R)
  <2> HIDE DEF K
  <2>1. Cardinality((1..n) \ K) = Cardinality(1..n) - Cardinality((1..n) \cap K) /\ IsFiniteSet((1..n) \ K)
    BY <1>4, FS_Difference, FS_Subset
  <2>2. (1..n) \cap K = K
    BY <1>5
  <2> QED
    BY <1>4, <1>5, <2>1, <2>2
<1>7. \A i \in R : i \in 1..n /\ chunk_ids[i] \in S /\ positions[chunk_ids[i]] = i
  <2>1. ASSUME NEW i \in R PROVE i \in 1..n /\ chunk_ids[i] \in ids
    BY <1>2
  <2>2. \A i \in 1..n : chunk_ids[i] \in Ids /\ positions[chunk_ids[i]] = i /\ i # 0
    BY <1>1, ElementOfSeq DEF Finds, n
  <2> QED
    BY <2>1, <2>2
<1>8. \A id \in S : positions[id] \in R /\ chunk_ids[positions[id]] = id
  <2>1. \A id \in S : positions[id] \in 1..n /\ chunk_ids[positions[id]] = id /\ id \in ids
    BY <1>1 DEF Finds
  <2>2. \A i \in K : chunk_ids[i] \notin ids
    BY <1>2
  <2> QED
    BY <2>1, <2>2
<1> DEFINE g == [i \in R |-> chunk_ids[i]]
<1> HIDE DEF R
<1>9. g \in [R -> S] /\ (\A a, b \in R : g[a] = g[b] => a = b) /\ \A id \in S : \E i \in R : g[i] = id
  BY <1>7, <1>8
<1> HIDE DEF g
<1>10. g \in Bijection(R, S)
  BY <1>9, Fun_IsBij
<1>11. Cardinality(S) = Cardinality(R)
  BY <1>6, <1>10, FS_Bijection DEF ExistsBijection
<1> QED
  BY <1>6, <1>11 DEF n, k, keep

\* What the vectors are made of when no call is under way.
LEMMA CompactQuiet == CompactInv /\ Compact!Idle => pending = <<>>
BY DEF CompactInv, Compact!Idle

\* Whatever is answered, and written to a file.
LEMMA CompactAnswered ==
  ASSUME CompactInv, Compact!Idle, CompactFile(saved'),
         UNCHANGED <<chunk_ids, buffer, offsets, dims, positions, pending>>
  PROVE  CompactInv'
BY CompactQuiet DEF CompactInv

LEMMA CompactBegun ==
  ASSUME CompactInv, NEW batch \in CompactBatches, Compact!BeginAdd(batch)
  PROVE  CompactInv'
<1>1. pending' \in Seq(CompactVector) /\ reply' = Compact!Busy
  BY CompactAssumptions DEF Compact!BeginAdd
<1> QED
  BY <1>1 DEF Compact!BeginAdd, CompactInv, CompactFile

\* An array without vectors has the rows of every dimension.
LEMMA NoRows ==
  ASSUME NEW s \in Seq(Int), NEW d \in Nat, NEW e \in Nat, InRows(s, 0, d)
  PROVE  InRows(s, 0, e)
BY PlaceInRow DEF InRows

LEMMA CompactRejected ==
  ASSUME CompactInv, Compact!RejectVector
  PROVE  CompactInv'
<1>1. dims \in Nat /\ Len(chunk_ids) \in Nat /\ (Len(chunk_ids) = 0 <=> chunk_ids = <<>>)
  BY LenProperties, EmptySeq DEF CompactInv
<1>2. Head(pending).dimension \in Nat /\ Head(pending).dimension > 0
  BY CompactHead DEF CompactInv, Compact!RejectVector
<1>3. /\ UNCHANGED <<chunk_ids, buffer, offsets, positions, saved>>
      /\ pending' = <<>> /\ dims' = IF dims = 0 THEN Head(pending).dimension ELSE dims
  BY DEF Compact!RejectVector
<1>4. dims' \in Nat /\ (chunk_ids # <<>> => dims' = dims)
  BY <1>1, <1>2, <1>3 DEF CompactInv
<1>5. InRows(buffer, Len(chunk_ids), dims')
  BY <1>1, <1>4, NoRows DEF CompactInv
<1>6. \A i \in 1..Len(chunk_ids) : offsets[i] = Base(i, dims')
  BY <1>1, <1>4 DEF CompactInv
<1>7. <<>> \in Seq(CompactVector)
  OBVIOUS
<1> QED
  BY <1>3, <1>4, <1>5, <1>6, <1>7 DEF CompactInv

LEMMA CompactCleared ==
  ASSUME CompactInv, Compact!Clear
  PROVE  CompactInv'
<1>1. \A S : <<>> \in Seq(S)
  OBVIOUS
<1>2. Len(<<>>) = 0 /\ DOMAIN <<>> = {}
  OBVIOUS
<1>3. /\ chunk_ids' = <<>> /\ buffer' = <<>> /\ offsets' = <<>> /\ dims' = 0
      /\ positions' = Compact!IndexOf(<<>>) /\ pending' = pending /\ saved' = saved
  BY DEF Compact!Clear
<1>4. Finds(positions', Ids, <<>>)
  <2>1. Finds(Compact!IndexOf(<<>>), Ids, <<>>)
    BY <1>1, <1>2, CompactIndexOf DEF Once
  <2> QED
    BY <1>3, <2>1
<1>5. InRows(<<>>, 0, 0)
  BY <1>2, PlaceInRow DEF InRows
<1>6. pending = <<>>
  BY CompactQuiet DEF Compact!Clear
<1> QED
  BY <1>1, <1>2, <1>3, <1>4, <1>5, <1>6 DEF CompactInv

LEMMA CompactSaved ==
  ASSUME CompactInv, Compact!Save
  PROVE  CompactInv'
<1>1. CompactFile(saved)
  BY DEF CompactInv
<1>2. CompactFile(Compact!NoFile)
  <2>1. \A S : <<>> \in Seq(S)
    OBVIOUS
  <2>2. Len(<<>>) = 0 /\ DOMAIN <<>> = {}
    OBVIOUS
  <2> QED
    BY <2>1, <2>2 DEF Compact!NoFile, CompactFile, Once
<1> DEFINE rows == [i \in DOMAIN chunk_ids |-> Compact!GetVector(i)]
           f == [readable |-> TRUE, dimension |-> dims, ids |-> chunk_ids, data |-> rows]
<1>3. CompactFile(f)
  <2>1. /\ Len(chunk_ids) \in Nat /\ DOMAIN chunk_ids = 1..Len(chunk_ids)
        /\ chunk_ids \in Seq(Ids) /\ dims \in Nat /\ (chunk_ids # <<>> => dims > 0)
    BY LenProperties DEF CompactInv
  <2>2. rows \in [1..Len(chunk_ids) -> Seq(Int)]
    BY <2>1, CompactRows
  <2>3. \A i \in 1..Len(chunk_ids) : Len(rows[i]) = dims
    BY <2>1, CompactRows
  <2> HIDE DEF rows
  <2>4. rows \in Seq(Seq(Int)) /\ Len(rows) = Len(chunk_ids)
    BY <2>1, <2>2, FunctionIsSeq
  <2>5. DOMAIN rows = 1..Len(chunk_ids)
    BY <2>2
  <2>6. Once(chunk_ids)
    BY FindsOnce DEF CompactInv
  <2> QED
    BY <2>1, <2>3, <2>4, <2>5, <2>6 DEF CompactFile
<1>4. CompactFile(saved')
  BY <1>1, <1>2, <1>3 DEF Compact!Save
<1> HIDE DEF rows, f
<1>5. /\ Compact!Idle /\ UNCHANGED <<chunk_ids, buffer, offsets, dims, positions, pending>>
  BY DEF Compact!Save
<1> QED
  BY <1>4, <1>5, CompactAnswered

\* A file read back: the rows are its data.
LEMMA CompactLoaded ==
  ASSUME CompactInv, Compact!Load
  PROVE  /\ CompactInv'
         /\ saved.readable =>
              /\ chunk_ids' = saved.ids /\ dims' = saved.dimension
              /\ \A i \in DOMAIN saved.ids : RowOf(buffer', i, dims') = saved.data[i]
<1>1. CASE ~saved.readable
  <2>1. /\ Compact!Idle /\ CompactFile(saved') 
        /\ UNCHANGED <<chunk_ids, buffer, offsets, dims, positions, pending>>
    BY <1>1 DEF Compact!Load, CompactInv
  <2> QED
    BY <1>1, <2>1, CompactAnswered
<1>2. CASE saved.readable
  <2> DEFINE n == Len(saved.ids)
             d == saved.dimension
             data == saved.data
  <2>1. /\ chunk_ids' = saved.ids /\ buffer' = FlattenSeq(data)
        /\ offsets' = [i \in DOMAIN saved.ids |-> Len(FlattenSeq(SubSeq(data, 1, i - 1)))]
        /\ dims' = d /\ positions' = Compact!IndexOf(saved.ids)
        /\ pending' = pending /\ saved' = saved /\ Compact!Idle
    BY <1>2, SameFlatten DEF Compact!Load
  <2>2. /\ saved.ids \in Seq(Ids) /\ d \in Nat /\ data \in Seq(Seq(Int)) /\ Once(saved.ids)
        /\ (saved.ids # <<>> => d > 0) /\ Len(data) = n
        /\ \A i \in DOMAIN data : Len(data[i]) = d
    BY DEF CompactInv, CompactFile
  <2>3. n \in Nat /\ DOMAIN saved.ids = 1..n /\ DOMAIN data = 1..n
    BY <2>2, LenProperties
  <2>4. pending = <<>>
    BY <2>1, CompactQuiet
  <2> HIDE DEF n, d, data
  <2>5. /\ FlattenSeq(data) \in Seq(Int) /\ InRows(FlattenSeq(data), n, d)
        /\ \A i \in 1..n : RowOf(FlattenSeq(data), i, d) = data[i]
    <3>1. /\ FlattenSeq(data) \in Seq(Int) /\ InRows(FlattenSeq(data), Len(data), d)
          /\ \A i \in 1..Len(data) : RowOf(FlattenSeq(data), i, d) = data[i]
      BY ONLY <2>2, FlattenRows
    <3> QED
      BY <2>2, <3>1
  <2>6. Finds(positions', Ids, saved.ids)
    <3>1. Finds(Compact!IndexOf(saved.ids), Ids, saved.ids)
      BY ONLY <2>2, CompactIndexOf
    <3> QED
      BY <2>1, <3>1
  <2>7. ASSUME NEW i \in 1..n
        PROVE  Len(FlattenSeq(SubSeq(data, 1, i - 1))) = Base(i, d) /\ Base(i, d) \in Nat
    <3> DEFINE t == SubSeq(data, 1, i - 1)
    <3>1. i - 1 \in Nat /\ i - 1 <= Len(data)
      BY <2>2, <2>3
    <3>2. t \in Seq(Seq(Int)) /\ Len(t) = i - 1 /\ \A j \in 1..i - 1 : t[j] = data[j]
      BY <2>2, <2>3, <3>1
    <3>3. \A j \in DOMAIN t : Len(t[j]) = d
      BY <2>2, <2>3, <3>1, <3>2
    <3> HIDE DEF t
    <3>4. InRows(FlattenSeq(t), Len(t), d)
      BY ONLY <2>2, <3>2, <3>3, FlattenRows
    <3> QED
      BY <2>2, <2>3, <3>1, <3>2, <3>4, PlaceInRow DEF InRows, Base, t
  <2>8. /\ offsets' \in Seq(Nat) /\ Len(offsets') = n
        /\ \A i \in 1..n : offsets'[i] = Base(i, d)
    <3>1. offsets' \in [1..n -> Nat] /\ \A i \in 1..n : offsets'[i] = Base(i, d)
      BY <2>1, <2>3, <2>7
    <3> QED
      BY <2>3, <3>1, FunctionIsSeq
  <2>9. <<>> \in Seq(CompactVector)
    OBVIOUS
  <2>10. CompactInv'
    <3>1. CompactFile(saved')
      BY <2>1 DEF CompactInv
    <3> QED
      BY <2>1, <2>2, <2>4, <2>5, <2>6, <2>8, <2>9, <3>1 DEF CompactInv, n, d
  <2> QED
    BY <2>1, <2>3, <2>5, <2>10 DEF n, d, data
<1> QED
  BY <1>1, <1>2

LEMMA CompactInvNext == CompactInv /\ [Compact!Next]_(Compact!vars) => CompactInv'
<1> SUFFICES ASSUME CompactInv, [Compact!Next]_(Compact!vars) PROVE CompactInv'
  OBVIOUS
<1>1. CASE Compact!AddVector
  BY <1>1, CompactAdded
<1>2. CASE Compact!RejectVector
  BY <1>2, CompactRejected
<1>3. CASE Compact!EndAdd
  BY <1>3 DEF Compact!EndAdd, CompactInv
<1>4. CASE Compact!Clear
  BY <1>4, CompactCleared
<1>5. CASE Compact!Save
  BY <1>5, CompactSaved
<1>6. CASE Compact!Load
  BY <1>6, CompactLoaded
<1>7. ASSUME NEW batch \in CompactBatches, Compact!BeginAdd(batch) PROVE CompactInv'
  BY <1>7, CompactBegun
<1>8. ASSUME NEW ids \in SUBSET Ids, Compact!RemoveVectors(ids) PROVE CompactInv'
  BY <1>8, CompactRemoved
<1>9. ASSUME NEW id \in Ids, Compact!Find(id) PROVE CompactInv'
  <2>1. /\ Compact!Idle /\ UNCHANGED <<chunk_ids, buffer, offsets, dims, positions, pending>> /\ saved' = saved
    BY <1>9 DEF Compact!Find
  <2>2. CompactFile(saved')
    BY <2>1 DEF CompactInv
  <2> QED
    BY <2>1, <2>2, CompactAnswered
<1>10. ASSUME NEW q \in Queries, Compact!Search(q) PROVE CompactInv'
  <2>1. /\ Compact!Idle /\ UNCHANGED <<chunk_ids, buffer, offsets, dims, positions, pending>> /\ saved' = saved
    BY <1>10 DEF Compact!Search
  <2>2. CompactFile(saved')
    BY <2>1 DEF CompactInv
  <2> QED
    BY <2>1, <2>2, CompactAnswered
<1>11. CASE UNCHANGED Compact!vars
  BY <1>11 DEF Compact!vars, CompactInv, CompactFile
<1> QED
  BY <1>1, <1>2, <1>3, <1>4, <1>5, <1>6, <1>7, <1>8, <1>9, <1>10, <1>11 DEF Compact!Next

\* The two properties of the run.
LEMMA CompactInvImplies == CompactInv => Compact!TypeOK /\ Compact!BufferIsTiled
<1> SUFFICES ASSUME CompactInv PROVE Compact!TypeOK /\ Compact!BufferIsTiled
  OBVIOUS
<1>1. pending \in Seq(Compact!Vector)
  <2>1. CompactVector \subseteq Compact!Vector
    BY DEF CompactVector, Compact!Vector
  <2> QED
    BY <2>1 DEF CompactInv
<1>2. Compact!TypeOK
  BY <1>1 DEF CompactInv, Finds, Compact!TypeOK
<1>3. Len(chunk_ids) \in Nat /\ DOMAIN offsets = 1..Len(chunk_ids)
  BY LenProperties DEF CompactInv
<1>4. positions = Compact!IndexOf(chunk_ids)
  <2>1. chunk_ids \in Seq(Ids) /\ Finds(positions, Ids, chunk_ids) /\ Once(chunk_ids)
    BY FindsOnce DEF CompactInv
  <2>2. Finds(Compact!IndexOf(chunk_ids), Ids, chunk_ids)
    BY <2>1, CompactIndexOf
  <2> QED
    BY ONLY <2>1, <2>2, FindsUnique
<1>5. Compact!BufferIsTiled
  BY <1>3, <1>4 DEF CompactInv, Compact!BufferIsTiled, InRows, Base
<1> QED
  BY <1>2, <1>5

LEMMA CompactSteps ==
  StoresNext \/ UNCHANGED storesVars =>
    part' = part /\ (part = "compact" => [Compact!Next]_(Compact!vars))
BY DEF StoresNext, storesVars, otherVars, Compact!vars

LEMMA CompactInvariant == StoresSpec => [](part = "compact" => CompactInv)
<1>1. StoresInit => (part = "compact" => CompactInv)
  BY CompactInvInit DEF StoresInit
<1>2. (part = "compact" => CompactInv) /\ [StoresNext]_storesVars => (part = "compact" => CompactInv)'
  BY CompactInvNext, CompactSteps
<1> QED
  BY <1>1, <1>2, PTL DEF StoresSpec

----------------------------------------------------------------------------
(* CompactVectorStore implements VectorMap *)

\* The vectors of the rows, at their positions.
RowsOf(ids, s, d) == [i \in DOMAIN ids |-> RowOf(s, i, d)]

\* What the refinement mapping substitutes.
CompactContent == Compact!DataIn(chunk_ids, [i \in DOMAIN chunk_ids |-> Compact!GetVector(i)])
CompactFileContent ==
  [readable |-> saved.readable, dimension |-> saved.dimension,
   content |-> Compact!DataIn(saved.ids, saved.data)]

LEMMA CompactMappedVars ==
  /\ Compact!Map!vars = <<CompactContent, dims, pending, reply, CompactFileContent>>
  /\ Compact!Map!Idle <=> reply # Compact!Busy
  /\ Compact!Map!Stored = {id \in Ids : CompactContent[id] # Absent}
  /\ Compact!Map!Ok = Compact!Ok /\ Compact!Map!Err = Compact!Err /\ Compact!Map!Busy = Compact!Busy
BY DEF Compact!Map!vars, Compact!Map!Idle, Compact!Map!Busy, Compact!Map!Answer, Compact!Map!Stored,
       CompactContent, CompactFileContent, Compact!Busy, Compact!Answer, Compact!Map!Ok, Compact!Ok,
       Compact!Map!Err, Compact!Err

LEMMA SameMapCount == \A S : Compact!Map!Cardinality(S) = Cardinality(S)
BY Zenon DEF Compact!Map!Cardinality, Cardinality

\* An array of ids and their data read as a map.
LEMMA CompactDataIn ==
  ASSUME NEW ids \in Seq(Ids), NEW ix, Finds(ix, Ids, ids), NEW data
  PROVE  /\ Compact!DataIn(ids, data) = [id \in Ids |-> IF ix[id] # 0 THEN data[ix[id]] ELSE Absent]
         /\ \A id \in Ids : ix[id] # 0 <=> \E i \in DOMAIN ids : ids[i] = id
<1>1. Finds(Compact!IndexOf(ids), Ids, ids)
  BY FindsOnce, CompactIndexOf
<1>2. Compact!IndexOf(ids) = ix
  BY ONLY <1>1, Finds(ix, Ids, ids), FindsUnique
<1>3. DOMAIN ids = 1..Len(ids)
  BY LenProperties
<1>4. \A id \in Ids : ix[id] # 0 <=> \E i \in DOMAIN ids : ids[i] = id
  BY <1>3 DEF Finds
<1> QED
  BY <1>2, <1>4 DEF Compact!DataIn

\* The content is the rows.
ContentIsRows ==
  /\ CompactContent = [id \in Ids |-> CompactContent[id]]
  /\ \A id \in Ids :
       CompactContent[id] = IF positions[id] # 0 THEN RowOf(buffer, positions[id], dims) ELSE Absent

LEMMA CompactContents == CompactInv => ContentIsRows
<1> SUFFICES ASSUME CompactInv PROVE ContentIsRows
  OBVIOUS
<1> DEFINE data == [i \in DOMAIN chunk_ids |-> Compact!GetVector(i)]
<1>1. chunk_ids \in Seq(Ids) /\ Finds(positions, Ids, chunk_ids)
  BY DEF CompactInv
<1>2. CompactContent = [id \in Ids |-> IF positions[id] # 0 THEN data[positions[id]] ELSE Absent]
  <2> HIDE DEF data
  <2>1. Compact!DataIn(chunk_ids, data) = [id \in Ids |-> IF positions[id] # 0 THEN data[positions[id]] ELSE Absent]
    BY ONLY <1>1, CompactDataIn
  <2> QED
    BY <2>1 DEF CompactContent, data
<1>3. \A id \in Ids : positions[id] # 0 => data[positions[id]] = RowOf(buffer, positions[id], dims)
  BY <1>1, CompactRows DEF Finds
<1> QED
  BY <1>2, <1>3 DEF ContentIsRows

LEMMA CompactStored ==
  ASSUME CompactInv
  PROVE  /\ \A id \in Ids : id \in Compact!Map!Stored <=> positions[id] # 0
         /\ \A i \in DOMAIN chunk_ids :
              /\ chunk_ids[i] \in Compact!Map!Stored /\ CompactContent[chunk_ids[i]] = Compact!GetVector(i)
              /\ Len(CompactContent[chunk_ids[i]]) = dims
         /\ \A id \in Compact!Map!Stored : \E i \in DOMAIN chunk_ids : chunk_ids[i] = id
<1>1. /\ chunk_ids \in Seq(Ids) /\ Finds(positions, Ids, chunk_ids) /\ DOMAIN chunk_ids = 1..Len(chunk_ids)
      /\ \A i \in DOMAIN chunk_ids : chunk_ids[i] \in Ids /\ i # 0
  BY LenProperties, ElementOfSeq DEF CompactInv
<1>2. \A id \in Ids : CompactContent[id] = IF positions[id] # 0 THEN RowOf(buffer, positions[id], dims) ELSE Absent
  BY CompactContents DEF ContentIsRows
<1>3. \A i \in DOMAIN chunk_ids : /\ Compact!GetVector(i) = RowOf(buffer, i, dims)
                                  /\ Compact!GetVector(i) \in Seq(Int) /\ Len(Compact!GetVector(i)) = dims
  BY CompactRows
<1>4. \A id \in Ids : positions[id] # 0 => positions[id] \in DOMAIN chunk_ids /\ chunk_ids[positions[id]] = id
  BY <1>1 DEF Finds
<1>5. \A i \in DOMAIN chunk_ids : positions[chunk_ids[i]] = i
  BY <1>1 DEF Finds
<1>6. \A id \in Ids : id \in Compact!Map!Stored <=> positions[id] # 0
  <2>1. \A id \in Ids : positions[id] # 0 => CompactContent[id] # Absent
    BY <1>2, <1>3, <1>4, CompactAssumptions
  <2>2. \A id \in Ids : positions[id] = 0 => CompactContent[id] = Absent
    BY <1>2
  <2> QED
    BY <2>1, <2>2, CompactMappedVars
<1>7. \A id \in Compact!Map!Stored : id \in Ids
  BY CompactMappedVars
<1> QED
  BY <1>1, <1>2, <1>3, <1>4, <1>5, <1>6, <1>7

LEMMA CompactRefinesInit == Compact!Init => Compact!Map!Init
<1> SUFFICES ASSUME Compact!Init PROVE Compact!Map!Init
  OBVIOUS
<1>1. DOMAIN <<>> = {}
  OBVIOUS
<1>2. \A data : Compact!DataIn(<<>>, data) = [id \in Ids |-> Absent]
  BY <1>1 DEF Compact!DataIn
<1>3. dims \in Nat
  BY CompactAssumptions DEF Compact!Init
<1>4. CompactContent = [id \in Ids |-> Absent] /\ CompactFileContent = Compact!Map!NoFile
  BY <1>2 DEF Compact!Init, Compact!NoFile, Compact!Map!NoFile, CompactContent, CompactFileContent
<1> QED
  BY <1>3, <1>4, CompactMappedVars DEF Compact!Init, Compact!Map!Init, CompactContent, CompactFileContent

LEMMA CompactRefinesAdd ==
  ASSUME CompactInv, Compact!AddVector
  PROVE  Compact!Map!Upsert
<1> DEFINE v == Head(pending)
<1>1. /\ v.id \in Ids /\ v.data \in Seq(Int) /\ dims' = v.dimension /\ Len(v.data) = v.dimension
      /\ dims = 0 \/ dims = v.dimension
      /\ CompactInv'
      /\ \A id \in Ids : positions'[id] # 0 <=> positions[id] # 0 \/ id = v.id
      /\ \A id \in Ids : positions'[id] # 0 =>
           RowOf(buffer', positions'[id], dims') = IF id = v.id THEN v.data ELSE RowOf(buffer, positions[id], dims)
  BY CompactAdded
<1>2. pending # <<>> /\ pending' = Tail(pending) /\ UNCHANGED <<reply, CompactFileContent>>
  BY DEF Compact!AddVector, CompactFileContent
<1>3. /\ CompactContent = [id \in Ids |-> CompactContent[id]]
      /\ \A id \in Ids :
           CompactContent[id] = IF positions[id] # 0 THEN RowOf(buffer, positions[id], dims) ELSE Absent
  BY CompactContents DEF ContentIsRows
<1>4. /\ CompactContent' = [id \in Ids |-> CompactContent'[id]]
      /\ \A id \in Ids :
           CompactContent'[id] = IF positions'[id] # 0 THEN RowOf(buffer', positions'[id], dims') ELSE Absent
  <2>1. CompactInv'
    BY <1>1
  <2>2. ContentIsRows'
    BY <2>1, CompactContents, PTL
  <2> QED
    BY <2>2 DEF ContentIsRows
<1> HIDE DEF v
<1>5. CompactContent' = [CompactContent EXCEPT ![v.id] = v.data]
  <2>1. \A id \in Ids : CompactContent'[id] = IF id = v.id THEN v.data ELSE CompactContent[id]
    BY <1>1, <1>3, <1>4
  <2> QED
    BY <1>1, <1>3, <1>4, <2>1
<1> QED
  BY <1>1, <1>2, <1>5 DEF Compact!Map!Upsert, CompactContent, CompactFileContent, v

\* A call that changes no vector.
LEMMA CompactSameContent ==
  ASSUME UNCHANGED <<chunk_ids, buffer, offsets, dims>>
  PROVE  UNCHANGED CompactContent
BY DEF CompactContent, Compact!GetVector

LEMMA CompactRefinesReject ==
  ASSUME CompactInv, Compact!RejectVector
  PROVE  Compact!Map!Reject
<1>1. UNCHANGED <<CompactContent, CompactFileContent>> /\ reply' = Compact!Map!Err
  <2>1. UNCHANGED <<chunk_ids, buffer, offsets, saved>> /\ reply' = Compact!Err
    BY DEF Compact!RejectVector
  <2>2. CASE chunk_ids = <<>>
    <3>1. DOMAIN <<>> = {}
      OBVIOUS
    <3>2. \A data : Compact!DataIn(<<>>, data) = [id \in Ids |-> Absent]
      BY <3>1 DEF Compact!DataIn
    <3> QED
      BY <2>1, <2>2, <3>2, CompactMappedVars DEF CompactContent, CompactFileContent
  <2>3. CASE chunk_ids # <<>>
    <3>1. dims' = dims
      BY <2>3 DEF CompactInv, Compact!RejectVector
    <3> QED
      BY <2>1, <3>1, CompactSameContent, CompactMappedVars DEF CompactFileContent
  <2> QED
    BY <2>2, <2>3
<1> QED
  BY <1>1 DEF Compact!RejectVector, Compact!Fits, Compact!Map!Reject, CompactContent, CompactFileContent

LEMMA CompactRefinesRemove ==
  ASSUME CompactInv, NEW ids \in SUBSET Ids, Compact!RemoveVectors(ids)
  PROVE  Compact!Map!Remove(ids)
<1> DEFINE S == Compact!Map!Stored \cap ids
<1>1. /\ CompactInv'
      /\ \A id \in Ids : positions'[id] # 0 <=> positions[id] # 0 /\ id \notin ids
      /\ \A id \in Ids : positions'[id] # 0 =>
           RowOf(buffer', positions'[id], dims') = RowOf(buffer, positions[id], dims)
  BY CompactRemoved
<1>2. ContentIsRows /\ ContentIsRows'
  <2>1. CompactInv'
    BY <1>1
  <2> QED
    BY <2>1, CompactContents, PTL
<1>3. CompactContent' = [id \in Ids |-> IF id \in ids THEN Absent ELSE CompactContent[id]]
  <2>1. \A id \in Ids : CompactContent'[id] = IF id \in ids THEN Absent ELSE CompactContent[id]
    BY <1>1, <1>2 DEF ContentIsRows
  <2>2. CompactContent' = [id \in Ids |-> CompactContent'[id]]
    BY <1>2 DEF ContentIsRows
  <2> QED
    BY <2>1, <2>2
<1>4. \A id : id \in S <=> id \in Ids /\ id \in ids /\ positions[id] # 0
  <2>1. \A id \in Ids : id \in Compact!Map!Stored <=> positions[id] # 0
    BY CompactStored
  <2> QED
    BY <2>1
<1>5. Len(chunk_ids) - Len(Compact!Kept(ids)) = Cardinality(S)
  <2> HIDE DEF S
  <2> QED
    BY <1>4, CompactRemovedCount
<1>6. /\ reply' = Compact!Answer("removed", Len(chunk_ids) - Len(Compact!Kept(ids)), <<>>, <<>>)
      /\ reply # Compact!Busy /\ UNCHANGED <<dims, pending, CompactFileContent>>
  BY DEF Compact!RemoveVectors, Compact!Idle, CompactFileContent
<1>7. reply' = Compact!Answer("removed", Cardinality(S), <<>>, <<>>) /\ reply'.kind = "removed"
  BY <1>5, <1>6 DEF Compact!Answer
<1>8. Compact!Map!Remove(ids) <=>
        /\ Compact!Map!Idle
        /\ reply'.kind = "removed"
        /\ CompactContent' = [id \in Ids |-> IF id \in ids THEN Absent ELSE CompactContent[id]]
        /\ reply' = Compact!Answer("removed", Cardinality(S), <<>>, <<>>)
        /\ UNCHANGED <<dims, pending, CompactFileContent>>
  BY SameMapCount DEF Compact!Map!Remove, Compact!Map!Answer, Compact!Answer, CompactContent, CompactFileContent
<1> QED
  BY <1>3, <1>6, <1>7, <1>8, CompactMappedVars

LEMMA CompactRefinesClear ==
  ASSUME CompactInv, Compact!Clear
  PROVE  Compact!Map!Clear
<1>1. DOMAIN <<>> = {}
  OBVIOUS
<1>2. CompactContent' = [id \in Ids |-> Absent]
  BY <1>1 DEF CompactContent, Compact!Clear, Compact!DataIn
<1>3. UNCHANGED CompactFileContent
  BY DEF Compact!Clear, CompactFileContent
<1> QED
  BY <1>2, <1>3, CompactMappedVars
  DEF Compact!Clear, Compact!Idle, Compact!Map!Clear, CompactContent, CompactFileContent

LEMMA CompactRefinesFind ==
  ASSUME CompactInv, NEW id \in Ids, Compact!Find(id)
  PROVE  Compact!Map!Find(id)
<1>1. UNCHANGED <<CompactContent, CompactFileContent, dims, pending>>
  BY CompactSameContent DEF Compact!Find, CompactFileContent
<1>2. positions[id] # 0 <=> id \in Compact!Map!Stored
  BY CompactStored
<1>3. positions[id] # 0 => Compact!GetVector(positions[id]) = CompactContent[id]
  <2> SUFFICES ASSUME positions[id] # 0 PROVE Compact!GetVector(positions[id]) = CompactContent[id]
    OBVIOUS
  <2>1. positions[id] \in DOMAIN chunk_ids /\ chunk_ids[positions[id]] = id
    BY DEF CompactInv, Finds
  <2> QED
    BY <2>1, CompactStored
<1>4. reply' = IF id \in Compact!Map!Stored THEN Compact!Answer("found", 0, CompactContent[id], <<>>)
                                           ELSE Compact!Answer("none", 0, <<>>, <<>>)
  BY <1>2, <1>3 DEF Compact!Find
<1>5. reply # Compact!Busy
  BY DEF Compact!Find, Compact!Idle
<1> QED
  BY <1>1, <1>4, <1>5, CompactMappedVars
  DEF Compact!Map!Find, Compact!Map!Answer, Compact!Answer, CompactContent, CompactFileContent

LEMMA CompactRefinesSave ==
  ASSUME CompactInv, Compact!Save
  PROVE  Compact!Map!Save
<1>1. UNCHANGED <<CompactContent, dims, pending>> /\ reply # Compact!Busy
  BY CompactSameContent DEF Compact!Save, Compact!Idle
<1>2. \/ /\ CompactFileContent' = [readable |-> TRUE, dimension |-> dims, content |-> CompactContent]
         /\ reply' = Compact!Ok
      \/ CompactFileContent' \in {CompactFileContent, Compact!Map!NoFile} /\ reply' = Compact!Err
  <2>1. CASE /\ reply' = Compact!Ok
             /\ saved' = [readable |-> TRUE, dimension |-> dims, ids |-> chunk_ids,
                          data |-> [i \in DOMAIN chunk_ids |-> Compact!GetVector(i)]]
    <3>1. CompactFileContent' = [readable |-> TRUE, dimension |-> dims, content |-> CompactContent]
      BY <2>1 DEF CompactFileContent, CompactContent
    <3> QED
      BY <2>1, <3>1
  <2>2. CASE reply' = Compact!Err /\ saved' = saved
    <3>1. CompactFileContent' = CompactFileContent
      BY <2>2 DEF CompactFileContent
    <3> QED
      BY <2>2, <3>1
  <2>3. CASE reply' = Compact!Err /\ saved' = Compact!NoFile
    <3>1. DOMAIN <<>> = {}
      OBVIOUS
    <3>2. Compact!DataIn(<<>>, <<>>) = [id \in Ids |-> Absent]
      BY <3>1 DEF Compact!DataIn
    <3>3. CompactFileContent' = Compact!Map!NoFile
      BY <2>3, <3>2 DEF CompactFileContent, Compact!NoFile, Compact!Map!NoFile
    <3> QED
      BY <2>3, <3>3
  <2> QED
    BY <2>1, <2>2, <2>3 DEF Compact!Save
<1>3. Compact!Map!Save <=>
        /\ Compact!Map!Idle
        /\ \/ /\ CompactFileContent' = [readable |-> TRUE, dimension |-> dims, content |-> CompactContent]
              /\ reply' = Compact!Map!Ok
           \/ CompactFileContent' \in {CompactFileContent, Compact!Map!NoFile} /\ reply' = Compact!Map!Err
        /\ UNCHANGED <<CompactContent, dims, pending>>
  BY DEF Compact!Map!Save, CompactContent, CompactFileContent
<1> QED
  BY <1>1, <1>2, <1>3, CompactMappedVars

LEMMA CompactRefinesLoad ==
  ASSUME CompactInv, Compact!Load
  PROVE  Compact!Map!Load
<1>1. /\ CompactInv'
      /\ saved.readable =>
           /\ chunk_ids' = saved.ids /\ dims' = saved.dimension
           /\ \A i \in DOMAIN saved.ids : RowOf(buffer', i, dims') = saved.data[i]
  BY CompactLoaded
<1>2. UNCHANGED <<pending, CompactFileContent>> /\ reply # Compact!Busy
  BY DEF Compact!Load, Compact!Idle, CompactFileContent
<1>3. CASE ~saved.readable
  <2>1. UNCHANGED <<chunk_ids, buffer, offsets, dims>> /\ reply' = Compact!Err
    BY <1>3 DEF Compact!Load
  <2>2. UNCHANGED CompactContent
    BY <2>1, CompactSameContent
  <2>3. ~CompactFileContent.readable
    BY <1>3 DEF CompactFileContent
  <2>4. Compact!Map!Load <=>
          /\ Compact!Map!Idle
          /\ IF CompactFileContent.readable
             THEN /\ CompactContent' = CompactFileContent.content
                  /\ dims' = CompactFileContent.dimension /\ reply' = Compact!Map!Ok
             ELSE reply' = Compact!Map!Err /\ UNCHANGED <<CompactContent, dims>>
          /\ UNCHANGED <<pending, CompactFileContent>>
    BY DEF Compact!Map!Load, CompactContent, CompactFileContent
  <2> QED
    BY <1>2, <2>1, <2>2, <2>3, <2>4, CompactMappedVars
<1>4. CASE saved.readable
  <2>1. reply' = Compact!Ok
    BY <1>4 DEF Compact!Load
  <2>2. CompactFile(saved)
    BY DEF CompactInv
  <2>3. ContentIsRows'
    <3>1. CompactInv'
      BY <1>1
    <3> QED
      BY <3>1, CompactContents, PTL
  <2>4. Finds(positions', Ids, saved.ids) /\ saved.ids \in Seq(Ids)
    BY <1>1, <1>4 DEF CompactInv
  <2>5. CompactFileContent.content = [id \in Ids |-> IF positions'[id] # 0 THEN saved.data[positions'[id]] ELSE Absent]
    <3>1. Compact!DataIn(saved.ids, saved.data) =
            [id \in Ids |-> IF positions'[id] # 0 THEN saved.data[positions'[id]] ELSE Absent]
      BY <2>4, CompactDataIn
    <3> QED
      BY <3>1 DEF CompactFileContent
  <2>6. \A id \in Ids : CompactContent'[id] = IF positions'[id] # 0 THEN saved.data[positions'[id]] ELSE Absent
    BY <1>1, <1>4, <2>3, <2>4 DEF ContentIsRows, Finds
  <2>7. CompactContent' = CompactFileContent.content
    BY <2>3, <2>5, <2>6 DEF ContentIsRows
  <2>8. CompactFileContent.readable /\ dims' = CompactFileContent.dimension
    BY <1>1, <1>4 DEF CompactFileContent
  <2>9. Compact!Map!Load <=>
          /\ Compact!Map!Idle
          /\ IF CompactFileContent.readable
             THEN /\ CompactContent' = CompactFileContent.content
                  /\ dims' = CompactFileContent.dimension /\ reply' = Compact!Map!Ok
             ELSE reply' = Compact!Map!Err /\ UNCHANGED <<CompactContent, dims>>
          /\ UNCHANGED <<pending, CompactFileContent>>
    BY DEF Compact!Map!Load, CompactContent, CompactFileContent
  <2> QED
    BY <1>2, <2>1, <2>7, <2>8, <2>9, CompactMappedVars
<1> QED
  BY <1>3, <1>4

\* What search returns is the ranking that the map promises.
LEMMA CompactRanking ==
  ASSUME Comparable, CompactInv, NEW q \in Queries, Len(q.data) = dims
  PROVE  Compact!Map!IsRanking(q, Compact!Ranking(q))
<1> DEFINE E == Compact!Enough(q)
           m == Len(chunk_ids)
           score == [i \in E |-> Score(q.data, Compact!GetVector(i))]
           name == [i \in 1..m |-> chunk_ids[i]]
           worth == [id \in Ids |-> Score(q.data, CompactContent[id])]
           ids == Compact!Ranking(q)
           enough == {id \in Compact!Map!Stored : worth[id] >= q.min_score}
           chosen == {ids[n] : n \in DOMAIN ids}
<1>1. /\ chunk_ids \in Seq(Ids) /\ q.top_k \in Nat
      /\ m \in Nat /\ DOMAIN chunk_ids = 1..m /\ E \in SUBSET (1..m)
      /\ \A i \in 1..m : chunk_ids[i] \in Ids
  BY LenProperties, ElementOfSeq DEF CompactInv, Comparable, Compact!Enough
<1>2. \A i \in 1..m : Compact!GetVector(i) \in Seq(Int) /\ Score(q.data, Compact!GetVector(i)) \in Int
  <2>1. \A i \in 1..m : Compact!GetVector(i) \in Seq(Int) /\ Len(Compact!GetVector(i)) = Len(q.data)
    BY <1>1, CompactRows
  <2> QED
    BY <2>1 DEF Comparable
<1>3. score \in [E -> Int] /\ name \in [1..m -> Ids] /\ \A i, j \in 1..m : name[i] = name[j] => i = j
  <2>1. Once(chunk_ids)
    BY FindsOnce DEF CompactInv
  <2>2. score \in [E -> Int]
    BY <1>1, <1>2
  <2>3. name \in [1..m -> Ids] /\ \A i \in 1..m : name[i] = chunk_ids[i]
    BY <1>1
  <2> HIDE DEF name, score
  <2> QED
    BY <1>1, <2>1, <2>2, <2>3 DEF Once
<1>4. /\ \A i \in 1..m : chunk_ids[i] \in Compact!Map!Stored /\ CompactContent[chunk_ids[i]] = Compact!GetVector(i)
      /\ \A id \in Compact!Map!Stored : \E i \in 1..m : chunk_ids[i] = id
  BY <1>1, CompactStored
<1>5. \A i \in 1..m : worth[name[i]] = Score(q.data, Compact!GetVector(i))
  BY <1>1, <1>4
<1>6. \A i \in E : worth[name[i]] = score[i]
  BY <1>1, <1>5
<1>7. (\A i \in E : name[i] \in enough) /\ \A id \in enough : \E i \in E : name[i] = id
  <2>1. \A i \in 1..m : i \in E <=> Score(q.data, Compact!GetVector(i)) >= q.min_score
    BY <1>1 DEF Compact!Enough
  <2> HIDE DEF E, worth
  <2>2. \A i \in E : name[i] \in enough
    BY <1>1, <1>4, <1>5, <2>1
  <2>3. \A id \in enough : \E i \in E : name[i] = id
    BY <1>1, <1>4, <1>5, <2>1
  <2> QED
    BY <2>2, <2>3
<1>8. \A i \in E : Compact!Ahead(q, i) = AheadOf(E, score, i)
  BY DEF Compact!Ahead, AheadOf
<1>9. ids = Best(E, score, name, q.top_k)
  <2> DEFINE N == Cardinality(E)
             size == IF N < q.top_k THEN N ELSE q.top_k
  <2>0. Compact!Cardinality(E) = N
    BY SameCount
  <2>1. ids = [n \in 1..size |-> chunk_ids[CHOOSE i \in E : Compact!Cardinality(Compact!Ahead(q, i)) = n - 1]]
    BY <2>0 DEF Compact!Ranking
  <2>2. /\ N \in Nat
        /\ \A i, j \in E : Cardinality(AheadOf(E, score, i)) = Cardinality(AheadOf(E, score, j)) => i = j
        /\ \A n \in 1..N : \E i \in E : Cardinality(AheadOf(E, score, i)) = n - 1
    <3>1. m \in Nat /\ E \in SUBSET (1..m) /\ score \in [E -> Int]
      BY <1>1, <1>3
    <3> HIDE DEF E, m, score
    <3> QED
      BY ONLY <3>1, RankFacts
  <2>3. 1..size \subseteq 1..N
    BY <1>1, <2>2
  <2> HIDE DEF ids, E, score, name, N, size
  <2>4. ASSUME NEW n \in 1..size
        PROVE  chunk_ids[CHOOSE i \in E : Compact!Cardinality(Compact!Ahead(q, i)) = n - 1] = name[Ranked(E, score, n)]
    <3>1. PICK i \in E : Cardinality(AheadOf(E, score, i)) = n - 1
      BY <2>2, <2>3
    <3>2. \A j \in E : Cardinality(AheadOf(E, score, j)) = n - 1 <=> j = i
      BY <2>2, <3>1
    <3>3. Ranked(E, score, n) = i
      BY <3>2 DEF Ranked
    <3>4. \A j \in E : Compact!Cardinality(Compact!Ahead(q, j)) = n - 1 <=> j = i
      BY <1>8, <3>2, SameCount
    <3>6. i = CHOOSE j \in E : Compact!Cardinality(Compact!Ahead(q, j)) = n - 1
      BY <3>4
    <3>5. name[i] = chunk_ids[i]
      BY <1>1 DEF name
    <3> QED
      BY ONLY <3>3, <3>6, <3>5
  <2> QED
    BY <2>1, <2>4 DEF N, size, Best
<1> HIDE DEF E, m, score, name, worth, ids
<1>10. IsBest(ids, enough, worth, q.top_k)
  <2> HIDE DEF enough
  <2>1. IsBest(Best(E, score, name, q.top_k), enough, worth, q.top_k)
    BY ONLY <1>1, <1>3, <1>6, <1>7, BestFacts
  <2> QED
    BY ONLY <1>9, <2>1
<1>11. \A id \in Compact!Map!Stored : worth[id] = Score(q.data, CompactContent[id])
  BY CompactMappedVars DEF worth
<1>12. Compact!Map!IsRanking(q, ids) <=>
         LET worthOf(id) == Score(q.data, CompactContent[id])
             found == {id \in Compact!Map!Stored : worthOf(id) >= q.min_score}
         IN /\ chosen \subseteq found
            /\ Cardinality(chosen) = Len(ids)
            /\ Len(ids) = q.top_k \/ (Len(ids) < q.top_k /\ chosen = found)
            /\ \A i, j \in DOMAIN ids : i < j => worthOf(ids[i]) >= worthOf(ids[j])
            /\ \A id \in found \ chosen : \A i \in DOMAIN ids : worthOf(ids[i]) >= worthOf(id)
  BY SameMapCount DEF Compact!Map!IsRanking, CompactContent
<1>13. enough = {id \in Compact!Map!Stored : Score(q.data, CompactContent[id]) >= q.min_score}
  BY <1>11
<1>14. \A i \in DOMAIN ids : ids[i] \in enough
  BY <1>10 DEF IsBest
<1> HIDE DEF enough, chosen
<1>15. enough \subseteq Compact!Map!Stored
  BY <1>13
<1> QED
  BY <1>10, <1>11, <1>12, <1>13, <1>14, <1>15 DEF ids, chosen, IsBest

LEMMA CompactRefinesSearch ==
  ASSUME Comparable, CompactInv, NEW q \in Queries, Compact!Search(q)
  PROVE  Compact!Map!Search(q)
<1> DEFINE none == Compact!Map!Stored = {} \/ q.top_k = 0
<1>1. UNCHANGED <<CompactContent, CompactFileContent, dims, pending>> /\ reply # Compact!Busy
  BY CompactSameContent DEF Compact!Search, Compact!Idle, CompactFileContent
<1>2. chunk_ids = <<>> <=> Compact!Map!Stored = {}
  <2>1. chunk_ids = <<>> <=> DOMAIN chunk_ids = {}
    BY LenProperties, EmptySeq DEF CompactInv
  <2> QED
    BY <2>1, CompactStored
<1>3. \/ none /\ reply' = Compact!Answer("ranked", 0, <<>>, <<>>)
      \/ ~none /\ Len(q.data) # dims /\ reply' = Compact!Err
      \/ ~none /\ Len(q.data) = dims /\ Compact!IsZero(q.data) /\ reply' = Compact!Answer("ranked", 0, <<>>, <<>>)
      \/ /\ ~none /\ Len(q.data) = dims /\ ~Compact!IsZero(q.data)
         /\ reply' = Compact!Answer("ranked", 0, <<>>, Compact!Ranking(q))
  BY <1>2 DEF Compact!Search
<1>4. Compact!Answer("ranked", 0, <<>>, Compact!Ranking(q)).ids = Compact!Ranking(q)
  BY DEF Compact!Answer
<1>5. Len(q.data) = dims => Compact!Map!IsRanking(q, Compact!Ranking(q))
  BY CompactRanking
<1>6. Compact!Map!Search(q) <=>
        /\ Compact!Map!Idle
        /\ IF none
           THEN reply' = Compact!Answer("ranked", 0, <<>>, <<>>)
           ELSE IF Len(q.data) # dims
           THEN reply' = Compact!Map!Err
           ELSE IF Compact!IsZero(q.data)
           THEN reply' = Compact!Answer("ranked", 0, <<>>, <<>>)
           ELSE /\ reply' = Compact!Answer("ranked", 0, <<>>, reply'.ids)
                /\ Compact!Map!IsRanking(q, reply'.ids)
        /\ UNCHANGED <<CompactContent, dims, pending, CompactFileContent>>
  BY DEF Compact!Map!Search, Compact!Map!Answer, Compact!Answer, Compact!Map!IsZero, Compact!IsZero,
         CompactContent, CompactFileContent
<1> HIDE DEF none
<1> QED
  BY <1>1, <1>3, <1>4, <1>5, <1>6, CompactMappedVars

LEMMA CompactRefines ==
  Comparable /\ CompactInv /\ [Compact!Next]_(Compact!vars) => [Compact!Map!Next]_(Compact!Map!vars)
<1> SUFFICES ASSUME Comparable, CompactInv, [Compact!Next]_(Compact!vars)
             PROVE  [Compact!Map!Next]_(Compact!Map!vars)
  OBVIOUS
<1>1. CASE Compact!AddVector
  BY <1>1, CompactRefinesAdd DEF Compact!Map!Next
<1>2. CASE Compact!RejectVector
  BY <1>2, CompactRefinesReject DEF Compact!Map!Next
<1>3. CASE Compact!EndAdd
  <2>1. UNCHANGED <<CompactContent, CompactFileContent>>
    BY <1>3, CompactSameContent DEF Compact!EndAdd, CompactFileContent
  <2>2. Compact!Map!EndAdd
    BY <1>3, <2>1, CompactMappedVars DEF Compact!EndAdd, Compact!Map!EndAdd, CompactContent, CompactFileContent
  <2> QED
    BY <2>2 DEF Compact!Map!Next
<1>4. CASE Compact!Clear
  BY <1>4, CompactRefinesClear DEF Compact!Map!Next
<1>5. CASE Compact!Save
  BY <1>5, CompactRefinesSave DEF Compact!Map!Next
<1>6. CASE Compact!Load
  BY <1>6, CompactRefinesLoad DEF Compact!Map!Next
<1>7. ASSUME NEW batch \in CompactBatches, Compact!BeginAdd(batch) PROVE Compact!Map!Next
  <2>1. UNCHANGED <<CompactContent, CompactFileContent>>
    BY <1>7, CompactSameContent DEF Compact!BeginAdd, CompactFileContent
  <2>2. Compact!Map!BeginAdd(batch)
    BY <1>7, <2>1, CompactMappedVars
    DEF Compact!BeginAdd, Compact!Idle, Compact!Map!BeginAdd, CompactContent, CompactFileContent
  <2> QED
    BY <2>2 DEF Compact!Map!Next
<1>8. ASSUME NEW ids \in SUBSET Ids, Compact!RemoveVectors(ids) PROVE Compact!Map!Next
  BY <1>8, CompactRefinesRemove DEF Compact!Map!Next
<1>9. ASSUME NEW id \in Ids, Compact!Find(id) PROVE Compact!Map!Next
  BY <1>9, CompactRefinesFind DEF Compact!Map!Next
<1>10. ASSUME NEW q \in Queries, Compact!Search(q) PROVE Compact!Map!Next
  BY <1>10, CompactRefinesSearch DEF Compact!Map!Next
<1>11. CASE UNCHANGED Compact!vars
  <2>1. UNCHANGED <<CompactContent, CompactFileContent, dims, pending, reply>>
    BY <1>11, CompactSameContent DEF Compact!vars, CompactFileContent
  <2> QED
    BY <2>1, CompactMappedVars DEF Compact!Map!vars, CompactContent, CompactFileContent
<1> QED
  BY <1>1, <1>2, <1>3, <1>4, <1>5, <1>6, <1>7, <1>8, <1>9, <1>10, <1>11 DEF Compact!Next

----------------------------------------------------------------------------
(***************************************************************************)
(* QuantizedVectorStore                                                    *)
(***************************************************************************)

LEMMA DivFacts ==
  ASSUME NEW a \in Int, NEW b \in Nat, b > 0
  PROVE  /\ a \div b \in Int
         /\ (a \div b) * b <= a /\ a < (a \div b) * b + b
OBVIOUS

LEMMA Products ==
  ASSUME NEW a \in Int, NEW b \in Int, NEW r \in Nat
  PROVE  /\ a * r \in Int /\ (a - b) * r = a * r - b * r
         /\ (a <= b => a * r <= b * r)
         /\ (a < b /\ r > 0 => a * r < b * r)
         /\ a * (2 * r) = 2 * (a * r)
OBVIOUS

\* Rounding a fraction misses it by no more than half a step.
LEMMA RoundedFacts ==
  ASSUME NEW n \in Int, NEW d \in Nat, d > 0
  PROVE  LET q == Quantized!Rounded(n, d) IN
         /\ q \in Int
         /\ 2 * (n - q * d) <= d /\ -d <= 2 * (n - q * d)
<1> DEFINE e == 2 * d
           q == Quantized!Rounded(n, d)
<1>1. e \in Nat /\ e > 0
  OBVIOUS
<1>2. CASE n >= 0
  <2> DEFINE a == 2 * n + d
             p == a \div e
  <2>1. p \in Int /\ p * e <= a /\ a < p * e + e
    BY <1>1, DivFacts
  <2>2. q = p
    BY <1>2 DEF Quantized!Rounded
  <2>3. p * e = 2 * (p * d) /\ p * d \in Int
    BY <2>1, Products
  <2> HIDE DEF p, q
  <2> QED
    BY <2>1, <2>2, <2>3 DEF q
<1>3. CASE n < 0
  <2> DEFINE a == d - 2 * n
             p == a \div e
  <2>1. p \in Int /\ p * e <= a /\ a < p * e + e
    BY <1>1, DivFacts
  <2>2. q = -p
    BY <1>3 DEF Quantized!Rounded
  <2>3. p * e = 2 * (p * d) /\ p * d \in Int
    BY <2>1, Products
  <2>4. (-p) * d = -(p * d)
    BY <2>1
  <2> HIDE DEF p, q
  <2> QED
    BY <2>1, <2>2, <2>3, <2>4 DEF q
<1> QED
  BY <1>2, <1>3

LEMMA ClampedFacts ==
  ASSUME NEW q \in Int
  PROVE  /\ Quantized!Clamped(q) \in 0..255
         /\ q < 0 => Quantized!Clamped(q) = 0
         /\ q > 255 => Quantized!Clamped(q) = 255
         /\ q \in 0..255 => Quantized!Clamped(q) = q
BY DEF Quantized!Clamped

\* What compute makes: a range that is not empty, and the step that 0 falls on.
ScaleOf(p) ==
  /\ p.min \in Int /\ p.max \in Int /\ p.min < p.max
  /\ p.zero_point = Quantized!Clamped(Quantized!Rounded(-p.min * 255, p.max - p.min))

LEMMA QuantizedIsByte ==
  ASSUME NEW p, ScaleOf(p), NEW x \in Int
  PROVE  Quantized!Quantized(p, x) \in 0..255 /\ Quantized!Range255(p) \in Nat /\ p.zero_point \in 0..255
<1> DEFINE R == Quantized!Range255(p)
           z == p.zero_point
           n == x * 255 + z * R
<1>1. R \in Nat /\ R > 0 /\ R = p.max - p.min
  BY DEF ScaleOf, Quantized!Range255
<1>2. z \in 0..255
  <2> DEFINE low == -p.min * 255
  <2>1. low \in Int
    BY DEF ScaleOf
  <2>2. z = Quantized!Clamped(Quantized!Rounded(low, R))
    BY <1>1 DEF ScaleOf
  <2> HIDE DEF low, R, z
  <2>3. Quantized!Rounded(low, R) \in Int
    BY ONLY <1>1, <2>1, RoundedFacts
  <2> QED
    BY ONLY <2>2, <2>3, ClampedFacts
<1> HIDE DEF R, z
<1>3. n \in Int
  BY <1>1, <1>2, Products
<1>4. Quantized!Quantized(p, x) = Quantized!Clamped(Quantized!Rounded(n, R))
  BY DEF Quantized!Quantized, R, z
<1> HIDE DEF n
<1>5. Quantized!Rounded(n, R) \in Int
  BY ONLY <1>1, <1>3, RoundedFacts
<1>6. Quantized!Quantized(p, x) \in 0..255
  BY ONLY <1>4, <1>5, ClampedFacts
<1> QED
  BY <1>1, <1>2, <1>6 DEF R, z

\* What comes back of a number in the range is within one step of it.
LEMMA DequantizedIsNear ==
  ASSUME NEW p, ScaleOf(p), p.min <= 0, p.max >= 0, NEW x \in Int, p.min <= x, x <= p.max
  PROVE  x * 255 - Quantized!Dequantized(p, Quantized!Quantized(p, x))
           \in -Quantized!Range255(p)..Quantized!Range255(p)
<1> DEFINE R == Quantized!Range255(p)
           z == p.zero_point
           low == -p.min * 255
           z0 == Quantized!Rounded(low, R)
           n == x * 255 + z * R
           q0 == Quantized!Rounded(n, R)
           q == Quantized!Quantized(p, x)
<1>1. R \in Nat /\ R > 0 /\ R = p.max - p.min /\ p.min \in Int /\ p.max \in Int
  BY DEF ScaleOf, Quantized!Range255
<1>2. low \in Int /\ 0 <= low /\ low <= 255 * R
  BY <1>1
<1>3. z = Quantized!Clamped(z0) /\ q = Quantized!Clamped(q0)
  BY <1>1 DEF ScaleOf, Quantized!Quantized
<1>4. Quantized!Dequantized(p, q) = (q - z) * R
  BY DEF Quantized!Dequantized
<1> HIDE DEF R, z, low, z0, q0, q
<1>5. z0 \in Int /\ 2 * (low - z0 * R) <= R /\ -R <= 2 * (low - z0 * R) /\ z0 * R \in Int
  BY <1>1, <1>2, RoundedFacts, Products DEF z0
<1>6. z0 >= 0
  <2> SUFFICES ASSUME z0 <= -1 PROVE FALSE
    BY <1>5
  <2>1. z0 * R <= (-1) * R
    BY <1>1, <1>5, Products
  <2> QED
    BY <1>1, <1>2, <1>5, <2>1
<1>7. z0 <= 255
  <2> SUFFICES ASSUME 256 <= z0 PROVE FALSE
    BY <1>5
  <2>1. 256 * R <= z0 * R
    BY <1>1, <1>5, Products
  <2> QED
    BY <1>1, <1>2, <1>5, <2>1
<1>8. z = z0
  BY <1>3, <1>5, <1>6, <1>7, ClampedFacts
<1>9. n \in Int /\ n = x * 255 + z0 * R
  BY <1>5, <1>8
<1>10. -R <= 2 * n /\ 2 * n <= 511 * R
  <2>1. p.min * 255 <= x * 255 /\ x * 255 <= p.max * 255
    BY <1>1
  <2> QED
    BY <1>1, <1>5, <1>9, <2>1 DEF low
<1> HIDE DEF n
<1>11. q0 \in Int /\ 2 * (n - q0 * R) <= R /\ -R <= 2 * (n - q0 * R) /\ q0 * R \in Int
  <2>1. n \in Int
    BY <1>9
  <2>2. LET r == Quantized!Rounded(n, R) IN r \in Int /\ 2 * (n - r * R) <= R /\ -R <= 2 * (n - r * R)
    BY ONLY <1>1, <2>1, RoundedFacts
  <2>3. q0 = Quantized!Rounded(n, R)
    BY DEF q0
  <2>4. q0 \in Int /\ 2 * (n - q0 * R) <= R /\ -R <= 2 * (n - q0 * R)
    BY ONLY <2>2, <2>3
  <2> QED
    BY <1>1, <2>4, Products
<1>12. q \in Int /\ q * R \in Int /\ n - q * R \in -R..R
  <2>1. CASE q0 \in 0..255
    <3>1. q = q0
      BY <1>3, <1>11, <2>1, ClampedFacts
    <3> QED
      BY <1>1, <1>9, <1>11, <3>1
  <2>2. CASE q0 < 0
    <3>1. q = 0 /\ q * R = 0
      BY <1>1, <1>3, <1>11, <2>2, ClampedFacts
    <3>2. q0 * R <= (-1) * R
      BY <1>1, <1>11, <2>2, Products
    <3> QED
      BY <1>1, <1>9, <1>10, <1>11, <3>1, <3>2
  <2>3. CASE q0 > 255
    <3>1. q = 255
      BY <1>3, <1>11, <2>3, ClampedFacts
    <3>2. 256 * R <= q0 * R
      BY <1>1, <1>11, <2>3, Products
    <3> QED
      BY <1>1, <1>9, <1>10, <1>11, <3>1, <3>2
  <2> QED
    BY <1>11, <2>1, <2>2, <2>3
<1>13. (q - z) * R = q * R - z0 * R
  BY <1>1, <1>5, <1>8, <1>12, Products
<1>14. x * 255 - (q - z) * R = n - q * R
  BY <1>5, <1>9, <1>12, <1>13
<1> QED
  BY <1>4, <1>12, <1>14 DEF R, q

\* Finitely many integers have a least and a greatest one.
LEMMA ExtremesExist ==
  ASSUME NEW S, S \subseteq Int, IsFiniteSet(S), S # {}
  PROVE  (\E x \in S : \A y \in S : x <= y) /\ (\E x \in S : \A y \in S : y <= x)
<1> DEFINE Extreme(U) == (\E x \in U : \A y \in U : x <= y) /\ (\E x \in U : \A y \in U : y <= x)
           T == {n \in Nat : \A U \in SUBSET Int : IsFiniteSet(U) /\ Cardinality(U) = n /\ U # {} => Extreme(U)}
<1>1. 0 \in T
  BY FS_EmptySet
<1>2. ASSUME NEW n \in Nat, n \in T PROVE n + 1 \in T
  <2> SUFFICES ASSUME NEW U \in SUBSET Int, IsFiniteSet(U), Cardinality(U) = n + 1, U # {}
               PROVE  Extreme(U)
    OBVIOUS
  <2>1. PICK u \in U : TRUE
    OBVIOUS
  <2> DEFINE V == U \ {u}
  <2>2. V \in SUBSET Int /\ IsFiniteSet(V) /\ Cardinality(V) = n /\ u \in Int
    <3>1. IsFiniteSet(U \ {u}) /\ Cardinality(U \ {u}) = IF u \in U THEN Cardinality(U) - 1 ELSE Cardinality(U)
      BY FS_RemoveElement
    <3> QED
      BY <2>1, <3>1
  <2>3. V # {} => Extreme(V)
    <3> HIDE DEF V, Extreme
    <3> QED
      BY <1>2, <2>2
  <2>4. CASE V = {}
    <3>1. \A y \in U : y = u
      BY <2>4
    <3> QED
      BY <2>2, <3>1
  <2>5. CASE V # {}
    <3>1. PICK x \in V : \A y \in V : x <= y
      BY <2>3, <2>5
    <3>2. PICK z \in V : \A y \in V : y <= z
      BY <2>3, <2>5
    <3>3. \A y \in U : y = u \/ y \in V
      OBVIOUS
    <3>4. x \in U /\ z \in U /\ x \in Int /\ z \in Int
      BY <2>2
    <3> HIDE DEF V
    <3>5. \E a \in U : \A y \in U : a <= y
      <4>1. CASE x <= u
        <5>1. \A y \in U : x <= y
          BY <3>1, <3>3, <4>1
        <5> QED
          BY <3>4, <5>1
      <4>2. CASE u <= x
        <5>1. \A y \in U : u <= y
          BY <2>2, <3>1, <3>3, <3>4, <4>2
        <5> QED
          BY <5>1
      <4> QED
        BY <2>2, <3>4, <4>1, <4>2
    <3>6. \E a \in U : \A y \in U : y <= a
      <4>1. CASE u <= z
        <5>1. \A y \in U : y <= z
          BY <3>2, <3>3, <4>1
        <5> QED
          BY <3>4, <5>1
      <4>2. CASE z <= u
        <5>1. \A y \in U : y <= u
          BY <2>2, <3>2, <3>3, <3>4, <4>2
        <5> QED
          BY <5>1
      <4> QED
        BY <2>2, <3>4, <4>1, <4>2
    <3> QED
      BY <3>5, <3>6
  <2> QED
    BY <2>4, <2>5
<1>3. \A n \in Nat : n \in T
  <2> HIDE DEF T
  <2> QED
    BY ONLY <1>1, <1>2, NatInductionOnSet
<1>4. Cardinality(S) \in Nat
  BY FS_CardinalityType
<1> QED
  BY <1>3, <1>4

QuantizedVector == [id : Ids, dimension : Nat \ {0}, data : Seq(Int)]

\* Vectors that are as long as they say.
Honest(batch) == batch \in Seq(QuantizedVector) /\ \A i \in DOMAIN batch : Len(batch[i].data) = batch[i].dimension

LEMMA HonestBatches ==
  ASSUME NEW batch \in QuantizedBatches
  PROVE  Honest(batch) /\ batch # <<>>
BY MCAssumption DEF Quantized!QuantizedAssumption, Honest, QuantizedVector

LEMMA HonestHead ==
  ASSUME NEW batch, Honest(batch), batch # <<>>
  PROVE  /\ Head(batch) = batch[1] /\ Honest(Tail(batch))
         /\ Head(batch).id \in Ids /\ Head(batch).dimension \in Nat /\ Head(batch).dimension > 0
         /\ Head(batch).data \in Seq(Int) /\ Len(Head(batch).data) = Head(batch).dimension
<1>1. /\ batch \in Seq(QuantizedVector) /\ Len(batch) \in Nat /\ Len(batch) > 0
      /\ \A i \in 1..Len(batch) : batch[i] \in QuantizedVector /\ Len(batch[i].data) = batch[i].dimension
  BY LenProperties, EmptySeq, ElementOfSeq DEF Honest
<1>2. /\ Head(batch) = batch[1] /\ Tail(batch) \in Seq(QuantizedVector) /\ Len(Tail(batch)) = Len(batch) - 1
      /\ \A i \in 1..Len(batch) - 1 : Tail(batch)[i] = batch[i + 1]
  BY <1>1, HeadTailProperties
<1>3. DOMAIN Tail(batch) = 1..Len(batch) - 1
  BY <1>2, LenProperties
<1>4. \A i \in 1..Len(batch) - 1 : i + 1 \in 1..Len(batch)
  BY <1>1
<1>5. Honest(Tail(batch))
  BY <1>1, <1>2, <1>3, <1>4 DEF Honest
<1>6. batch[1] \in QuantizedVector /\ Len(batch[1].data) = batch[1].dimension
  BY <1>1
<1> QED
  BY <1>2, <1>5, <1>6 DEF QuantizedVector

\* The members of a sequence are finitely many.
LEMMA FiniteImage ==
  ASSUME NEW n \in Nat, NEW f, DOMAIN f = 1..n
  PROVE  IsFiniteSet({f[i] : i \in DOMAIN f})
<1> DEFINE T == {f[i] : i \in DOMAIN f}
           g == [i \in 1..n |-> f[i]]
<1>1. g \in [1..n -> T] /\ \A t \in T : \E i \in 1..n : g[i] = t
  OBVIOUS
<1> HIDE DEF g, T
<1>2. g \in Surjection(1..n, T)
  BY <1>1, Fun_IsSurj
<1>3. IsFiniteSet(1..n)
  BY FS_Interval
<1>4. IsFiniteSet(T)
  BY <1>2, <1>3, FS_Surjection
<1> QED
  BY <1>4 DEF T

\* The scale of a batch.
LEMMA ComputedIsScale ==
  ASSUME NEW batch, Honest(batch), batch # <<>>
  PROVE  ScaleOf(Quantized!Computed(batch))
<1> DEFINE rows == [i \in DOMAIN batch |-> Quantized!Range(batch[i].data)]
           sets == {rows[i] : i \in DOMAIN rows}
           values == UNION {Quantized!Range(batch[i].data) : i \in DOMAIN batch}
           least == CHOOSE x \in values : \A y \in values : x <= y
           most == CHOOSE x \in values : \A y \in values : y <= x
           min == IF least = most THEN -1 ELSE least
           max == IF least = most THEN 1 ELSE most
<1>1. /\ Len(batch) \in Nat /\ 1 \in 1..Len(batch) /\ DOMAIN batch = 1..Len(batch)
      /\ \A i \in DOMAIN batch : /\ batch[i].data \in Seq(Int) /\ Len(batch[i].data) \in Nat
                                 /\ DOMAIN batch[i].data = 1..Len(batch[i].data) /\ Len(batch[i].data) > 0
  <2>1. Len(batch) \in Nat /\ Len(batch) > 0 /\ DOMAIN batch = 1..Len(batch)
    BY LenProperties, EmptySeq DEF Honest
  <2>2. \A i \in DOMAIN batch : batch[i] \in QuantizedVector /\ Len(batch[i].data) = batch[i].dimension
    BY <2>1, ElementOfSeq DEF Honest
  <2>3. \A i \in DOMAIN batch : batch[i].data \in Seq(Int) /\ Len(batch[i].data) \in Nat /\ Len(batch[i].data) > 0
    BY <2>2 DEF QuantizedVector
  <2> QED
    BY <2>1, <2>3, LenProperties
<1>2. values = UNION sets
  BY DEF Quantized!Range
<1>3. IsFiniteSet(values)
  <2>1. IsFiniteSet(sets)
    <3>1. DOMAIN rows = 1..Len(batch)
      BY <1>1
    <3> HIDE DEF rows
    <3> QED
      BY <1>1, <3>1, FiniteImage
  <2>2. \A U \in sets : IsFiniteSet(U)
    <3> SUFFICES ASSUME NEW i \in DOMAIN batch PROVE IsFiniteSet(rows[i])
      OBVIOUS
    <3> DEFINE t == batch[i].data
    <3>1. Len(t) \in Nat /\ DOMAIN t = 1..Len(t)
      BY <1>1
    <3>2. rows[i] = {t[j] : j \in DOMAIN t}
      BY DEF Quantized!Range
    <3> HIDE DEF t, rows
    <3> QED
      BY ONLY <3>1, <3>2, FiniteImage
  <2> HIDE DEF values, sets
  <2> QED
    BY <1>2, <2>1, <2>2, FS_UNION
<1>4. values \subseteq Int
  <2>1. \A i \in DOMAIN batch : \A j \in DOMAIN batch[i].data : batch[i].data[j] \in Int
    BY <1>1, ElementOfSeq
  <2> QED
    BY <2>1 DEF Quantized!Range
<1>5. values # {}
  <2>1. 1 \in DOMAIN batch /\ 1 \in DOMAIN batch[1].data
    BY <1>1
  <2>2. batch[1].data[1] \in Quantized!Range(batch[1].data)
    BY <2>1 DEF Quantized!Range
  <2> QED
    BY <2>1, <2>2
<1>6. Quantized!Computed(batch) =
        [min |-> min, max |-> max,
         zero_point |-> Quantized!Clamped(Quantized!Rounded(-min * 255, max - min))]
  BY DEF Quantized!Computed
<1> HIDE DEF values
<1>7. (\E x \in values : \A y \in values : x <= y) /\ (\E x \in values : \A y \in values : y <= x)
  BY <1>3, <1>4, <1>5, ExtremesExist
<1>8. least \in values /\ \A y \in values : least <= y
  BY <1>7
<1>9. most \in values /\ \A y \in values : y <= most
  BY <1>7
<1>10. least \in Int /\ most \in Int /\ least <= most
  BY <1>4, <1>8, <1>9
<1> HIDE DEF least, most
<1>11. min \in Int /\ max \in Int /\ min < max
  BY <1>10
<1> HIDE DEF min, max
<1> QED
  BY <1>6, <1>11 DEF ScaleOf

\* Data in the steps of a scale.
Bytes(p, data, d) == [j \in 1..d |-> Quantized!Quantized(p, data[j])]

\* The inductive invariant: each row of the buffer is what the numbers last added
\* under its id are in the scale.
QuantizedInv ==
  /\ chunk_ids \in Seq(Ids) /\ Finds(positions, Ids, chunk_ids)
  /\ dims \in Nat /\ Honest(pending) /\ ScaleOf(params)
  /\ buffer \in Seq(Int) /\ InRows(buffer, Len(chunk_ids), dims)
  /\ raw = [id \in Ids |-> raw[id]]
  /\ \A id \in Ids : positions[id] # 0 =>
       /\ raw[id] \in Seq(Int) /\ Len(raw[id]) = dims
       /\ RowOf(buffer, positions[id], dims) = Bytes(params, raw[id], dims)

LEMMA QuantizedInvInit == Quantized!Init => QuantizedInv
<1> SUFFICES ASSUME Quantized!Init PROVE QuantizedInv
  OBVIOUS
<1>1. \A S : <<>> \in Seq(S)
  OBVIOUS
<1>2. Len(<<>>) = 0 /\ DOMAIN <<>> = {}
  OBVIOUS
<1>3. Finds(positions, Ids, <<>>)
  BY FindsNone DEF Quantized!Init
<1>4. InRows(<<>>, 0, 0)
  BY <1>2, PlaceInRow DEF InRows
<1>5. ScaleOf(params)
  <2>1. params.min = 0 /\ params.max = 1 /\ params.zero_point = 0
    BY DEF Quantized!Init
  <2>2. Quantized!Rounded(-params.min * 255, params.max - params.min) = 0
    BY <2>1 DEF Quantized!Rounded
  <2>3. Quantized!Clamped(0) = 0
    BY DEF Quantized!Clamped
  <2> QED
    BY <2>1, <2>2, <2>3 DEF ScaleOf
<1>6. Honest(<<>>)
  BY <1>1, <1>2 DEF Honest
<1>7. \A id \in Ids : positions[id] = 0
  BY DEF Quantized!Init
<1> QED
  BY <1>1, <1>2, <1>3, <1>4, <1>5, <1>6, <1>7 DEF Quantized!Init, QuantizedInv

LEMMA QuantizedBegun ==
  ASSUME QuantizedInv, NEW batch \in QuantizedBatches, Quantized!BeginAdd(batch)
  PROVE  QuantizedInv'
<1>1. Honest(batch) /\ batch # <<>>
  BY HonestBatches
<1>2. /\ pending' = batch /\ UNCHANGED <<chunk_ids, buffer, positions, raw>>
      /\ chunk_ids # <<>> => UNCHANGED <<params, dims>>
      /\ chunk_ids = <<>> => params' = Quantized!Computed(batch) /\ dims' = batch[1].dimension
  BY DEF Quantized!BeginAdd
<1>3. CASE chunk_ids # <<>>
  BY <1>1, <1>2, <1>3 DEF QuantizedInv, Honest, ScaleOf
<1>4. CASE chunk_ids = <<>>
  <2>1. ScaleOf(params') /\ dims' \in Nat
    BY <1>1, <1>2, <1>4, ComputedIsScale, HonestHead
  <2>2. Len(<<>>) = 0 /\ DOMAIN <<>> = {}
    OBVIOUS
  <2>3. InRows(buffer, 0, dims')
    BY <1>4, <2>1, <2>2, NoRows DEF QuantizedInv
  <2>4. \A id \in Ids : positions[id] = 0
    BY <1>4, <2>2 DEF QuantizedInv, Finds
  <2> QED
    BY <1>1, <1>2, <1>4, <2>1, <2>2, <2>3, <2>4 DEF QuantizedInv, ScaleOf
<1> QED
  BY <1>3, <1>4

LEMMA QuantizedAdded ==
  ASSUME QuantizedInv, Quantized!AddVector
  PROVE  QuantizedInv'
<1> DEFINE v == Head(pending)
           p == positions[v.id]
           n == Len(chunk_ids)
           id0 == v.id
           d == dims
           data == [i \in DOMAIN v.data |-> Quantized!Quantized(params, v.data[i])]
<1>1. /\ Honest(pending) /\ pending # <<>> /\ v.dimension = d
      /\ pending' = Tail(pending) /\ UNCHANGED <<params, dims>>
      /\ raw' = [raw EXCEPT ![id0] = v.data]
  BY DEF QuantizedInv, Quantized!AddVector
<1>2. Honest(pending') /\ id0 \in Ids /\ v.data \in Seq(Int) /\ Len(v.data) = d
  BY <1>1, HonestHead
<1>3. /\ n \in Nat /\ DOMAIN chunk_ids = 1..n
      /\ chunk_ids \in Seq(Ids) /\ Finds(positions, Ids, chunk_ids)
      /\ d \in Nat /\ ScaleOf(params) /\ buffer \in Seq(Int) /\ InRows(buffer, n, d)
      /\ raw = [id \in Ids |-> raw[id]]
      /\ \A id \in Ids : positions[id] # 0 =>
           /\ raw[id] \in Seq(Int) /\ Len(raw[id]) = d
           /\ RowOf(buffer, positions[id], d) = Bytes(params, raw[id], d)
  BY LenProperties DEF QuantizedInv
<1>4. data \in Seq(Int) /\ Len(data) = d /\ data = Bytes(params, v.data, d)
  <2>1. DOMAIN v.data = 1..d /\ \A j \in 1..d : v.data[j] \in Int
    BY <1>2, LenProperties, ElementOfSeq
  <2>2. ASSUME NEW j \in 1..d PROVE Quantized!Quantized(params, v.data[j]) \in Int
    <3> DEFINE x == v.data[j]
    <3>1. x \in Int /\ ScaleOf(params)
      BY <1>3, <2>1
    <3> HIDE DEF x
    <3>2. Quantized!Quantized(params, x) \in 0..255
      BY ONLY <3>1, QuantizedIsByte
    <3> QED
      BY <3>2 DEF x
  <2>3. data = Bytes(params, v.data, d)
    BY <2>1 DEF Bytes
  <2>4. data \in [1..d -> Int]
    BY <2>2, <2>3 DEF Bytes
  <2> HIDE DEF data, d
  <2>5. data \in Seq(Int) /\ Len(data) = d
    BY ONLY <1>3, <2>4, FunctionIsSeq
  <2> QED
    BY <2>3, <2>5
<1>5. raw'[id0] = v.data /\ (\A id \in Ids : id # id0 => raw'[id] = raw[id]) /\ raw' = [id \in Ids |-> raw'[id]]
  BY <1>1, <1>2, <1>3
<1>6. CASE p # 0
  <2>1. /\ buffer' = [i \in DOMAIN buffer |->
               IF i \in (p - 1) * d + 1..(p - 1) * d + d THEN data[i - (p - 1) * d] ELSE buffer[i]]
        /\ UNCHANGED <<chunk_ids, positions>>
    BY <1>6 DEF Quantized!AddVector
  <2>2. p \in 1..n /\ chunk_ids[p] = id0
    BY <1>2, <1>3, <1>6 DEF Finds
  <2> HIDE DEF v, n, p, id0, data, d
  <2>3. buffer' = OverwrittenFrom(buffer, Base(p, d), data, d)
    BY <2>1 DEF OverwrittenFrom, Base
  <2>4. /\ buffer' \in Seq(Int) /\ InRows(buffer', n, d)
        /\ \A a \in 1..n : RowOf(buffer', a, d) = IF a = p THEN data ELSE RowOf(buffer, a, d)
    <3>1. LET new == OverwrittenFrom(buffer, Base(p, d), data, d) IN
          /\ new \in Seq(Int) /\ InRows(new, n, d)
          /\ \A a \in 1..n : RowOf(new, a, d) = IF a = p THEN data ELSE RowOf(buffer, a, d)
      <4>1. buffer \in Seq(Int) /\ n \in Nat /\ d \in Nat /\ InRows(buffer, n, d) /\ p \in 1..n
        BY <1>3, <2>2
      <4>2. data \in Seq(Int) /\ Len(data) = d
        BY <1>4
      <4> QED
        BY ONLY <4>1, <4>2, RowOverwritten
    <3> QED
      BY ONLY <2>3, <3>1
  <2>5. \A id \in Ids : positions[id] # 0 => positions[id] \in 1..n /\ (positions[id] = p <=> id = id0)
    BY <1>2, <1>3, <1>6, <2>2 DEF Finds, p, id0
  <2>6. ASSUME NEW id \in Ids, positions'[id] # 0
        PROVE  /\ raw'[id] \in Seq(Int) /\ Len(raw'[id]) = d
               /\ RowOf(buffer', positions'[id], d) = Bytes(params, raw'[id], d)
    <3>1. positions'[id] = positions[id] /\ positions[id] # 0 /\ positions[id] \in 1..n
      BY <2>1, <2>5, <2>6
    <3>2. CASE id = id0
      <4>1. RowOf(buffer', positions'[id], d) = data /\ raw'[id] = v.data
        BY <1>5, <2>4, <2>5, <3>1, <3>2
      <4> QED
        BY <1>2, <1>4, <4>1 DEF v
    <3>3. CASE id # id0
      <4>1. RowOf(buffer', positions'[id], d) = RowOf(buffer, positions[id], d) /\ raw'[id] = raw[id]
        BY <1>5, <2>4, <2>5, <3>1, <3>3
      <4> QED
        BY <1>3, <3>1, <4>1
    <3> QED
      BY <3>2, <3>3
  <2> QED
    BY <1>1, <1>2, <1>3, <1>5, <2>1, <2>4, <2>6 DEF QuantizedInv, Finds, ScaleOf, n, d
<1>7. CASE p = 0
  <2>1. /\ buffer' = buffer \o data
        /\ chunk_ids' = Append(chunk_ids, id0)
        /\ positions' = [positions EXCEPT ![id0] = n + 1]
    BY <1>7 DEF Quantized!AddVector
  <2>2. positions[id0] = 0
    BY <1>7
  <2> DEFINE next == n + 1
  <2> HIDE DEF v, n, p, id0, data, d
  <2>3. /\ buffer' \in Seq(Int) /\ InRows(buffer', next, d)
        /\ \A a \in 1..n : RowOf(buffer', a, d) = RowOf(buffer, a, d)
        /\ RowOf(buffer', next, d) = data
    <3>1. /\ buffer \o data \in Seq(Int) /\ InRows(buffer \o data, n + 1, d)
          /\ \A a \in 1..n : RowOf(buffer \o data, a, d) = RowOf(buffer, a, d)
          /\ RowOf(buffer \o data, n + 1, d) = data
      <4>1. buffer \in Seq(Int) /\ n \in Nat /\ d \in Nat /\ InRows(buffer, n, d)
        BY <1>3
      <4>2. data \in Seq(Int) /\ Len(data) = d
        BY <1>4
      <4> QED
        BY ONLY <4>1, <4>2, RowAppended
    <3> QED
      BY <2>1, <3>1
  <2>4. /\ chunk_ids' \in Seq(Ids) /\ Len(chunk_ids') = next
        /\ Finds(positions', Ids, chunk_ids')
    <3>1. /\ Append(chunk_ids, id0) \in Seq(Ids) /\ Len(Append(chunk_ids, id0)) = Len(chunk_ids) + 1
          /\ Finds([positions EXCEPT ![id0] = Len(chunk_ids) + 1], Ids, Append(chunk_ids, id0))
      BY ONLY <1>2, <1>3, <2>2, FindsAppended
    <3> QED
      BY <2>1, <3>1 DEF n
  <2>5. positions'[id0] = next /\ \A id \in Ids : id # id0 => positions'[id] = positions[id]
    BY <1>2, <1>3, <2>1 DEF Finds
  <2>6. \A id \in Ids : positions[id] # 0 => positions[id] \in 1..n
    BY <1>3 DEF Finds
  <2>7. ASSUME NEW id \in Ids, positions'[id] # 0
        PROVE  /\ raw'[id] \in Seq(Int) /\ Len(raw'[id]) = d
               /\ RowOf(buffer', positions'[id], d) = Bytes(params, raw'[id], d)
    <3>1. CASE id = id0
      <4>1. RowOf(buffer', positions'[id], d) = data /\ raw'[id] = v.data
        BY <1>5, <2>3, <2>5, <3>1
      <4> QED
        BY <1>2, <1>4, <4>1 DEF v
    <3>2. CASE id # id0
      <4>1. positions'[id] = positions[id] /\ positions[id] # 0 /\ positions[id] \in 1..n
        BY <2>5, <2>6, <2>7, <3>2
      <4>2. RowOf(buffer', positions'[id], d) = RowOf(buffer, positions[id], d) /\ raw'[id] = raw[id]
        BY <1>5, <2>3, <3>2, <4>1
      <4> QED
        BY <1>3, <4>1, <4>2
    <3> QED
      BY <3>1, <3>2
  <2>8. next = Len(chunk_ids')
    BY <2>4
  <2> HIDE DEF next
  <2> QED
    BY <1>1, <1>2, <1>3, <1>5, <2>3, <2>4, <2>7, <2>8 DEF QuantizedInv, ScaleOf, d
<1> QED
  BY <1>6, <1>7

LEMMA QuantizedInvNext == QuantizedInv /\ [Quantized!Next]_(Quantized!vars) => QuantizedInv'
<1> SUFFICES ASSUME QuantizedInv, [Quantized!Next]_(Quantized!vars) PROVE QuantizedInv'
  OBVIOUS
<1>1. \A S : <<>> \in Seq(S)
  OBVIOUS
<1>2. Len(<<>>) = 0 /\ DOMAIN <<>> = {}
  OBVIOUS
<1>3. Honest(<<>>)
  BY <1>1, <1>2 DEF Honest
<1>4. CASE Quantized!AddVector
  BY <1>4, QuantizedAdded
<1>5. CASE Quantized!RejectVector
  BY <1>3, <1>5 DEF Quantized!RejectVector, QuantizedInv, ScaleOf
<1>6. CASE Quantized!Clear
  <2>1. Finds([id \in Ids |-> 0], Ids, <<>>)
    BY FindsNone
  <2>2. InRows(<<>>, 0, 0)
    BY <1>2, PlaceInRow DEF InRows
  <2>3. /\ chunk_ids' = <<>> /\ buffer' = <<>> /\ dims' = 0
        /\ positions' = [id \in Ids |-> 0] /\ raw' = [id \in Ids |-> Absent]
        /\ pending' = pending /\ params' = params
    BY <1>6 DEF Quantized!Clear
  <2>4. Finds(positions', Ids, chunk_ids') /\ InRows(buffer', Len(chunk_ids'), dims')
    BY <1>2, <2>1, <2>2, <2>3
  <2>5. \A id \in Ids : positions'[id] = 0
    BY <2>3
  <2>6. raw' = [id \in Ids |-> raw'[id]]
    BY <2>3
  <2>7. Honest(pending') /\ ScaleOf(params')
    BY <2>3 DEF QuantizedInv
  <2> QED
    BY <1>1, <2>3, <2>4, <2>5, <2>6, <2>7 DEF QuantizedInv
<1>7. CASE Quantized!Reopen
  <2>1. chunk_ids \in Seq(Ids) /\ Finds(positions, Ids, chunk_ids) /\ Once(chunk_ids)
    BY FindsOnce DEF QuantizedInv
  <2>2. positions' = [id \in Ids |-> IF \E i \in DOMAIN chunk_ids : chunk_ids[i] = id
                                     THEN CHOOSE i \in DOMAIN chunk_ids : chunk_ids[i] = id ELSE 0]
    BY <1>7 DEF Quantized!Reopen
  <2>3. positions' = [id \in Ids |-> positions'[id]]
    BY <2>2
  <2>4. \A id \in Ids : (\A i \in DOMAIN chunk_ids : chunk_ids[i] # id) => positions'[id] = 0
    BY <2>2
  <2>5. \A id \in Ids : (\E i \in DOMAIN chunk_ids : chunk_ids[i] = id) =>
          positions'[id] \in DOMAIN chunk_ids /\ chunk_ids[positions'[id]] = id
    BY <2>2
  <2>6. Finds(positions', Ids, chunk_ids)
    BY ONLY <2>1, <2>3, <2>4, <2>5, FindsRebuilt
  <2>7. positions' = positions
    BY ONLY <2>1, <2>6, FindsUnique
  <2>8. UNCHANGED <<chunk_ids, positions, buffer, params, dims, pending, raw>>
    BY <1>7, <2>7 DEF Quantized!Reopen
  <2> QED
    BY <2>8 DEF QuantizedInv, ScaleOf, Honest
<1>8. ASSUME NEW batch \in QuantizedBatches, Quantized!BeginAdd(batch) PROVE QuantizedInv'
  BY <1>8, QuantizedBegun
<1>9. CASE UNCHANGED Quantized!vars
  BY <1>9 DEF Quantized!vars, QuantizedInv, ScaleOf, Honest
<1> QED
  BY <1>4, <1>5, <1>6, <1>7, <1>8, <1>9 DEF Quantized!Next

LEMMA QuantizedInvImplies == QuantizedInv => Quantized!IsTiled /\ Quantized!FindIsNear
<1> SUFFICES ASSUME QuantizedInv PROVE Quantized!IsTiled /\ Quantized!FindIsNear
  OBVIOUS
<1>1. Quantized!IsTiled
  BY DEF QuantizedInv, Quantized!IsTiled, InRows
<1>2. ASSUME params.min <= 0, params.max >= 0, NEW id \in Ids, positions[id] # 0, NEW i \in 1..dims,
             raw[id][i] \in params.min..params.max
      PROVE  raw[id][i] * 255 - Quantized!Dequantized(params, Quantized!Slice(positions[id])[i])
               \in -Quantized!Range255(params)..Quantized!Range255(params)
  <2>1. ScaleOf(params) /\ params.min \in Int /\ params.max \in Int
    BY DEF QuantizedInv, ScaleOf
  <2>2. RowOf(buffer, positions[id], dims) = Bytes(params, raw[id], dims)
    BY <1>2 DEF QuantizedInv
  <2>3. Quantized!Slice(positions[id]) = RowOf(buffer, positions[id], dims)
    <3>1. positions[id] \in 1..Len(chunk_ids) /\ Len(chunk_ids) \in Nat /\ dims \in Nat
      BY <1>2, LenProperties DEF QuantizedInv, Finds
    <3>2. (positions[id] - 1) * dims + dims = positions[id] * dims
      BY <3>1, PlaceInRow
    <3> QED
      BY <3>2 DEF Quantized!Slice, RowOf, Base
  <2>4. Quantized!Slice(positions[id])[i] = Quantized!Quantized(params, raw[id][i])
    BY <2>2, <2>3 DEF Bytes
  <2>5. raw[id][i] \in Int /\ params.min <= raw[id][i] /\ raw[id][i] <= params.max
    BY <1>2, <2>1
  <2>6. raw[id][i] * 255 - Quantized!Dequantized(params, Quantized!Quantized(params, raw[id][i]))
          \in -Quantized!Range255(params)..Quantized!Range255(params)
    BY ONLY <1>2, <2>1, <2>5, DequantizedIsNear
  <2> QED
    BY <2>4, <2>6
<1>3. Quantized!FindIsNear
  BY <1>2 DEF Quantized!FindIsNear
<1> QED
  BY <1>1, <1>3

LEMMA QuantizedSteps ==
  StoresNext \/ UNCHANGED storesVars =>
    part' = part /\ (part = "quantized" => [Quantized!Next]_(Quantized!vars))
BY DEF StoresNext, storesVars, otherVars, Quantized!vars

LEMMA QuantizedInvariant == StoresSpec => [](part = "quantized" => QuantizedInv)
<1>1. StoresInit => (part = "quantized" => QuantizedInv)
  BY QuantizedInvInit DEF StoresInit
<1>2. (part = "quantized" => QuantizedInv) /\ [StoresNext]_storesVars => (part = "quantized" => QuantizedInv)'
  BY QuantizedInvNext, QuantizedSteps
<1> QED
  BY <1>1, <1>2, PTL DEF StoresSpec

----------------------------------------------------------------------------
(***************************************************************************)
(* HnswVectorStore: sorting                                                *)
(***************************************************************************)

\* cosine_similarity gives a number for any two vectors of one length.
Scored == \A a, b \in Seq(Int) : Len(a) = Len(b) => Score(a, b) \in Int

\* Data that can be compared: all of one length.
DataOf1(data, d) == data \in Seq(Int) /\ Len(data) = d
DataOfAll(ns, N, d) == \A n \in 1..N : DataOf1(ns[n].data, d)

LEMMA ScoreIsInt ==
  ASSUME Scored, NEW a, NEW b, NEW d, DataOf1(a, d), DataOf1(b, d)
  PROVE  Score(a, b) \in Int
BY DEF Scored, DataOf1

LEMMA HnswSameCount == \A S : Hnsw!Cardinality(S) = Cardinality(S)
BY Zenon DEF Hnsw!Cardinality, Cardinality

\* One more member, which was not there.
LEMMA OnceAppended ==
  ASSUME NEW X, NEW list \in Seq(X), Once(list), NEW x \in X, \A i \in 1..Len(list) : list[i] # x
  PROVE  /\ Append(list, x) \in Seq(X) /\ Once(Append(list, x)) /\ Len(Append(list, x)) = Len(list) + 1
         /\ \A i \in 1..Len(list) : Append(list, x)[i] = list[i]
         /\ Append(list, x)[Len(list) + 1] = x
<1> DEFINE t == Append(list, x)
           n == Len(list)
<1>1. n \in Nat /\ DOMAIN list = 1..n
  BY LenProperties
<1>2. t \in Seq(X) /\ Len(t) = n + 1 /\ t[n + 1] = x /\ \A i \in 1..n : t[i] = list[i]
  BY AppendProperties
<1>3. DOMAIN t = 1..n + 1
  BY <1>1, <1>2, LenProperties
<1> HIDE DEF t, n
<1>4. \A i \in 1..n + 1 : i \in 1..n \/ i = n + 1
  BY <1>1
<1>5. \A i \in 1..n : t[i] # x
  BY <1>2 DEF n
<1>6. Once(t)
  <2> SUFFICES ASSUME NEW i \in 1..n + 1, NEW j \in 1..n + 1, t[i] = t[j] PROVE i = j
    BY <1>3 DEF Once
  <2>1. CASE i \in 1..n /\ j \in 1..n
    BY <1>1, <1>2, <2>1 DEF Once
  <2>2. CASE i = n + 1 \/ j = n + 1
    BY <1>2, <1>4, <1>5, <2>2
  <2> QED
    BY <1>4, <2>1, <2>2
<1> QED
  BY <1>2, <1>6 DEF t, n

\* The first members.
LEMMA OncePrefix ==
  ASSUME NEW X, NEW t \in Seq(X), Once(t), NEW k \in 0..Len(t)
  PROVE  /\ SubSeq(t, 1, k) \in Seq(X) /\ Len(SubSeq(t, 1, k)) = k /\ Once(SubSeq(t, 1, k))
         /\ \A i \in 1..k : i \in 1..Len(t) /\ SubSeq(t, 1, k)[i] = t[i]
<1>1. Len(t) \in Nat /\ DOMAIN t = 1..Len(t) /\ k \in Nat
  BY LenProperties
<1> DEFINE s == SubSeq(t, 1, k)
<1>2. s \in Seq(X) /\ Len(s) = k /\ \A i \in 1..k : s[i] = t[i]
  BY <1>1
<1>3. DOMAIN s = 1..k
  BY <1>2, LenProperties
<1> HIDE DEF s
<1>4. \A i \in 1..k : i \in 1..Len(t)
  BY <1>1
<1>5. Once(s)
  BY <1>1, <1>2, <1>3, <1>4 DEF Once
<1> QED
  BY <1>2, <1>4, <1>5 DEF s

\* What sorting does: the same nodes, none twice, by descending score.
SortsInto(ns, data, found, t) ==
  /\ Len(t) = Len(found) /\ Once(t)
  /\ \A n \in 1..Len(t) : \E i \in 1..Len(found) : t[n] = found[i]
  /\ \A i \in 1..Len(found) : \E n \in 1..Len(t) : t[n] = found[i]
  /\ \A i, j \in 1..Len(t) : i < j => Score(data, ns[t[i]].data) >= Score(data, ns[t[j]].data)

LEMMA SortedFacts ==
  ASSUME Scored, NEW N \in Nat, NEW d, NEW ns, DataOfAll(ns, N, d), NEW data, DataOf1(data, d),
         NEW found \in Seq(1..N), Once(found)
  PROVE  LET t == Hnsw!Sorted(ns, data, found) IN t \in Seq(1..N) /\ SortsInto(ns, data, found, t)
<1> DEFINE m == Len(found)
           E == 1..m
           score == [i \in E |-> Score(data, ns[found[i]].data)]
           t == Hnsw!Sorted(ns, data, found)
<1>1. m \in Nat /\ DOMAIN found = 1..m /\ \A i \in 1..m : found[i] \in 1..N
  BY LenProperties, ElementOfSeq
<1>2. \A i \in 1..m : Score(data, ns[found[i]].data) \in Int
  BY <1>1, ScoreIsInt DEF DataOfAll
<1>3. score \in [E -> Int] /\ E \in SUBSET (1..m)
  BY <1>2
<1>4. \A i \in E : AheadOf(E, score, i) =
        {j \in DOMAIN found : \/ Score(data, ns[found[j]].data) > Score(data, ns[found[i]].data)
                              \/ /\ Score(data, ns[found[j]].data) = Score(data, ns[found[i]].data)
                                 /\ j < i}
  BY <1>1 DEF AheadOf
<1> DEFINE ahead(i) == {j \in DOMAIN found : \/ Score(data, ns[found[j]].data) > Score(data, ns[found[i]].data)
                                             \/ /\ Score(data, ns[found[j]].data) = Score(data, ns[found[i]].data)
                                                /\ j < i}
<1>5. t = [n \in DOMAIN found |-> found[CHOOSE i \in DOMAIN found : Hnsw!Cardinality(ahead(i)) = n - 1]]
  BY DEF Hnsw!Sorted
<1>6. Cardinality(E) = m
  <2>1. m \in Int /\ 1 \in Int /\ (m < 1 => m = 0)
    BY <1>1
  <2> HIDE DEF m
  <2>2. Cardinality(1..m) = IF 1 > m THEN 0 ELSE m - 1 + 1
    BY ONLY <2>1, FS_Interval
  <2> QED
    BY <1>1, <2>2
<1> HIDE DEF ahead, t
<1>7. ASSUME NEW n \in 1..m PROVE t[n] = found[Ranked(E, score, n)]
  <2>1. \A i \in E : Hnsw!Cardinality(ahead(i)) = n - 1 <=> Cardinality(AheadOf(E, score, i)) = n - 1
    BY <1>4, HnswSameCount DEF ahead
  <2>2. (CHOOSE i \in E : Hnsw!Cardinality(ahead(i)) = n - 1) = CHOOSE i \in E : Cardinality(AheadOf(E, score, i)) = n - 1
    <3> HIDE DEF E, score
    <3> QED
      BY <2>1
  <2>3. t[n] = found[CHOOSE i \in E : Hnsw!Cardinality(ahead(i)) = n - 1]
    BY <1>1, <1>5
  <2> QED
    BY <2>2, <2>3 DEF Ranked
<1> DEFINE at(n) == Ranked(E, score, n)
<1>8. /\ \A n \in 1..m : at(n) \in 1..m
      /\ \A n, k \in 1..m : at(n) = at(k) => n = k
      /\ \A n, k \in 1..m : n < k => score[at(n)] >= score[at(k)]
      /\ \A i \in 1..m : \E n \in 1..m : at(n) = i
  <2> HIDE DEF score
  <2>1. /\ \A n \in 1..Cardinality(E) : Ranked(E, score, n) \in E
        /\ \A n, k \in 1..Cardinality(E) : Ranked(E, score, n) = Ranked(E, score, k) => n = k
        /\ \A n, k \in 1..Cardinality(E) : n < k => score[Ranked(E, score, n)] >= score[Ranked(E, score, k)]
        /\ \A i \in E : \E n \in 1..Cardinality(E) : Ranked(E, score, n) = i
    <3> HIDE DEF E, m
    <3> QED
      BY ONLY <1>1, <1>3, RankedFacts
  <2> QED
    BY <1>6, <2>1
<1>9. \A i \in 1..m : score[i] = Score(data, ns[found[i]].data)
  OBVIOUS
<1> HIDE DEF score, at
<1>10. \A n \in 1..m : t[n] = found[at(n)]
  BY <1>7 DEF at
<1> HIDE DEF E
<1>11. t \in [1..m -> 1..N]
  <2>1. t = [n \in 1..m |-> t[n]]
    BY <1>1, <1>5
  <2>2. \A n \in 1..m : t[n] \in 1..N
    BY <1>1, <1>8, <1>10
  <2> QED
    BY <2>1, <2>2
<1> HIDE DEF m
<1>12. t \in Seq(1..N) /\ Len(t) = m
  BY ONLY <1>1, <1>11, FunctionIsSeq
<1>13. DOMAIN t = 1..m
  BY <1>11
<1>14. Once(t)
  <2> SUFFICES ASSUME NEW i \in 1..m, NEW j \in 1..m, t[i] = t[j] PROVE i = j
    BY <1>13 DEF Once
  <2>1. at(i) = at(j)
    BY <1>1, <1>8, <1>10 DEF Once
  <2> QED
    BY <1>8, <2>1
<1>15. ASSUME NEW i \in 1..m, NEW j \in 1..m, i < j
       PROVE  Score(data, ns[t[i]].data) >= Score(data, ns[t[j]].data)
  <2>1. at(i) \in 1..m /\ at(j) \in 1..m /\ score[at(i)] >= score[at(j)]
    BY <1>8, <1>15
  <2>2. score[at(i)] = Score(data, ns[t[i]].data) /\ score[at(j)] = Score(data, ns[t[j]].data)
    BY <1>9, <1>10, <2>1
  <2> QED
    BY <2>1, <2>2
<1>16. \A n \in 1..m : \E i \in 1..m : t[n] = found[i]
  BY <1>8, <1>10
<1>17. \A i \in 1..m : \E n \in 1..m : t[n] = found[i]
  BY <1>8, <1>10
<1>18. SortsInto(ns, data, found, t)
  BY <1>12, <1>14, <1>15, <1>16, <1>17 DEF SortsInto, m
<1> QED
  BY <1>12, <1>18 DEF t

\* r are the best m of those found.
IsNearest(ns, data, found, m, r) ==
  /\ Once(r) /\ Len(r) = IF m < Len(found) THEN m ELSE Len(found)
  /\ \A n \in 1..Len(r) : \E i \in 1..Len(found) : r[n] = found[i]
  /\ \A i \in 1..Len(found) :
       \/ \E n \in 1..Len(r) : r[n] = found[i]
       \/ /\ Len(r) = m
          /\ \A n \in 1..Len(r) : Score(data, ns[r[n]].data) >= Score(data, ns[found[i]].data)

\* select_neighbors_simple.
LEMMA NearestFacts ==
  ASSUME Scored, NEW N \in Nat, NEW d, NEW ns, DataOfAll(ns, N, d), NEW data, DataOf1(data, d),
         NEW found \in Seq(1..N), Once(found), NEW m \in Nat
  PROVE  LET r == Hnsw!Nearest(ns, data, found, m) IN
         r \in Seq(1..N) /\ IsNearest(ns, data, found, m, r)
<1> DEFINE t == Hnsw!Sorted(ns, data, found)
           k == Hnsw!LeastOf(m, Len(found))
           r == Hnsw!Nearest(ns, data, found, m)
<1>1. t \in Seq(1..N) /\ SortsInto(ns, data, found, t)
  BY ONLY SortedFacts, Scored, N \in Nat, DataOfAll(ns, N, d), DataOf1(data, d), found \in Seq(1..N), Once(found)
<1>2. Len(found) \in Nat /\ Len(t) = Len(found) /\ Once(t)
  BY <1>1, LenProperties DEF SortsInto
<1>3. k \in 0..Len(t) /\ k = (IF m < Len(found) THEN m ELSE Len(found)) /\ k <= m
  BY <1>2 DEF Hnsw!LeastOf
<1>4. r = SubSeq(t, 1, k)
  BY DEF Hnsw!Nearest
<1> HIDE DEF t, k, r
<1>5. /\ SubSeq(t, 1, k) \in Seq(1..N) /\ Len(SubSeq(t, 1, k)) = k /\ Once(SubSeq(t, 1, k))
      /\ \A i \in 1..k : i \in 1..Len(t) /\ SubSeq(t, 1, k)[i] = t[i]
  BY ONLY <1>1, <1>2, <1>3, OncePrefix
<1>6. \A n \in 1..k : \E i \in 1..Len(found) : r[n] = found[i]
  BY <1>1, <1>4, <1>5 DEF SortsInto
<1>7. Len(r) = k /\ Once(r) /\ r \in Seq(1..N)
  BY <1>4, <1>5
<1>8. ASSUME NEW i \in 1..Len(found), \A n \in 1..k : r[n] # found[i], NEW n \in 1..k
      PROVE  k = m /\ Score(data, ns[r[n]].data) >= Score(data, ns[found[i]].data)
  <2>1. PICK j \in 1..Len(t) : t[j] = found[i]
    BY <1>1 DEF SortsInto
  <2>2. j \notin 1..k
    BY <1>4, <1>5, <1>8, <2>1
  <2>3. k < j /\ k < Len(found) /\ n < j /\ n \in 1..Len(t)
    BY <1>2, <1>3, <2>1, <2>2
  <2>4. Score(data, ns[t[n]].data) >= Score(data, ns[t[j]].data)
    BY <1>1, <2>1, <2>3 DEF SortsInto
  <2>5. r[n] = t[n]
    BY <1>4, <1>5
  <2> QED
    BY <1>3, <2>1, <2>3, <2>4, <2>5
<1>9. ASSUME NEW i \in 1..Len(found), \A n \in 1..k : r[n] # found[i]
      PROVE  k = m
  <2>1. PICK j \in 1..Len(t) : t[j] = found[i]
    BY <1>1 DEF SortsInto
  <2>2. j \notin 1..k
    BY <1>4, <1>5, <1>9, <2>1
  <2> QED
    BY <1>2, <1>3, <2>1, <2>2
<1>10. IsNearest(ns, data, found, m, r)
  BY <1>3, <1>6, <1>7, <1>8, <1>9 DEF IsNearest
<1> QED
  BY <1>7, <1>10 DEF r

----------------------------------------------------------------------------
(* HnswVectorStore: walks *)

\* A walk keeps the best of what it visited, and at least one node.
IsWalk(ns, data, ef, N, w) ==
  /\ w \in [candidates : SUBSET (1..N), results : Seq(1..N), visited : SUBSET (1..N)]
  /\ Once(w.results) /\ Len(w.results) >= 1 /\ Len(w.results) <= ef
  /\ \A i \in 1..Len(w.results) : w.results[i] \in w.visited
  /\ \A v \in w.visited :
       \/ \E i \in 1..Len(w.results) : w.results[i] = v
       \/ /\ Len(w.results) = ef
          /\ \A i \in 1..Len(w.results) : Score(data, ns[w.results[i]].data) >= Score(data, ns[v].data)

\* Only the candidates change.
LEMMA WalkOfCandidates ==
  ASSUME NEW ns, NEW data, NEW ef, NEW N, NEW w, IsWalk(ns, data, ef, N, w), NEW C, C \subseteq 1..N
  PROVE  LET t == [w EXCEPT !.candidates = C] IN
         IsWalk(ns, data, ef, N, t) /\ t.visited = w.visited /\ t.candidates = C
<1> DEFINE t == [w EXCEPT !.candidates = C]
<1>1. w \in [candidates : SUBSET (1..N), results : Seq(1..N), visited : SUBSET (1..N)]
  BY DEF IsWalk
<1>2. /\ t \in [candidates : SUBSET (1..N), results : Seq(1..N), visited : SUBSET (1..N)]
      /\ t.results = w.results /\ t.visited = w.visited /\ t.candidates = C
  BY <1>1
<1> HIDE DEF t
<1>3. IsWalk(ns, data, ef, N, t)
  BY <1>2 DEF IsWalk
<1> QED
  BY <1>2, <1>3 DEF t

LEMMA VisitFacts ==
  ASSUME Scored, NEW N \in Nat, NEW d, NEW ns, DataOfAll(ns, N, d), NEW data, DataOf1(data, d),
         NEW ef \in Nat, NEW w, IsWalk(ns, data, ef, N, w), NEW n \in 1..N
  PROVE  LET t == Hnsw!Visit(ns, data, ef, w, n) IN
         IsWalk(ns, data, ef, N, t) /\ t.visited = w.visited \cup {n}
<1> DEFINE score(x) == Score(data, ns[x].data)
           old == w.results
           all == Append(old, n)
           best == Hnsw!Nearest(ns, data, all, ef)
           beats == \E i \in DOMAIN old : score(n) > score(old[i])
           t == Hnsw!Visit(ns, data, ef, w, n)
<1>1. /\ w \in [candidates : SUBSET (1..N), results : Seq(1..N), visited : SUBSET (1..N)]
      /\ old \in Seq(1..N) /\ Once(old) /\ Len(old) \in Nat /\ Len(old) >= 1 /\ Len(old) <= ef
      /\ DOMAIN old = 1..Len(old)
      /\ \A i \in 1..Len(old) : old[i] \in w.visited /\ old[i] \in 1..N
      /\ \A v \in w.visited :
           \/ \E i \in 1..Len(old) : old[i] = v
           \/ Len(old) = ef /\ \A i \in 1..Len(old) : score(old[i]) >= score(v)
  BY LenProperties, ElementOfSeq DEF IsWalk
<1>2. \A x \in 1..N : score(x) \in Int
  BY ScoreIsInt DEF DataOfAll
<1>3. CASE n \in w.visited
  <2>1. t = w
    BY <1>3 DEF Hnsw!Visit
  <2> QED
    BY <1>3, <2>1
<1>4. CASE n \notin w.visited
  <2>1. \A i \in 1..Len(old) : old[i] # n
    BY <1>1, <1>4
  <2>2. /\ all \in Seq(1..N) /\ Once(all) /\ Len(all) = Len(old) + 1
        /\ \A i \in 1..Len(old) : all[i] = old[i]
        /\ all[Len(old) + 1] = n
    <3>1. old \in Seq(1..N) /\ Once(old)
      BY <1>1
    <3> HIDE DEF old
    <3> QED
      BY ONLY <2>1, <3>1, n \in 1..N, OnceAppended
  <2>3. \A i \in 1..Len(all) : i \in 1..Len(old) \/ i = Len(old) + 1
    BY <1>1, <2>2
  <2> DEFINE grown(r) == [candidates |-> w.candidates \cup {n}, results |-> r, visited |-> w.visited \cup {n}]
  <2>4. ASSUME NEW r \in Seq(1..N), Once(r), Len(r) >= 1, Len(r) <= ef,
               \A i \in 1..Len(r) : r[i] \in w.visited \cup {n},
               \A v \in w.visited \cup {n} :
                 \/ \E i \in 1..Len(r) : r[i] = v
                 \/ Len(r) = ef /\ \A i \in 1..Len(r) : score(r[i]) >= score(v)
        PROVE  IsWalk(ns, data, ef, N, grown(r)) /\ grown(r).visited = w.visited \cup {n}
    <3>1. grown(r) \in [candidates : SUBSET (1..N), results : Seq(1..N), visited : SUBSET (1..N)]
      BY <1>1
    <3>2. grown(r).results = r /\ grown(r).visited = w.visited \cup {n}
      OBVIOUS
    <3> HIDE DEF grown
    <3> QED
      BY <2>4, <3>1, <3>2 DEF IsWalk
  <2>5. CASE Len(old) < ef
    <3>1. t = grown(all)
      BY <1>4, <2>5 DEF Hnsw!Visit
    <3>2. Len(all) >= 1 /\ Len(all) <= ef
      BY <1>1, <2>2, <2>5
    <3>3. \A i \in 1..Len(all) : all[i] \in w.visited \cup {n}
      BY <1>1, <2>2, <2>3
    <3>4. ASSUME NEW v \in w.visited \cup {n} PROVE \E i \in 1..Len(all) : all[i] = v
      <4>1. CASE v = n
        <5>1. Len(old) + 1 \in 1..Len(all)
          BY <1>1, <2>2
        <5> QED
          BY <2>2, <4>1, <5>1
      <4>2. CASE v \in w.visited
        <5>1. PICK i \in 1..Len(old) : old[i] = v
          BY <1>1, <2>5, <4>2
        <5>2. i \in 1..Len(all) /\ all[i] = v
          BY <1>1, <2>2, <5>1
        <5> QED
          BY <5>2
      <4> QED
        BY <4>1, <4>2
    <3> HIDE DEF grown, all
    <3>5. IsWalk(ns, data, ef, N, grown(all)) /\ grown(all).visited = w.visited \cup {n}
      BY <2>2, <2>4, <3>2, <3>3, <3>4
    <3> QED
      BY <3>1, <3>5
  <2>6. CASE ~(Len(old) < ef) /\ beats
    <3>1. t = grown(best)
      BY <1>4, <2>6 DEF Hnsw!Visit
    <3>2. Len(old) = ef /\ ef < Len(all)
      BY <1>1, <2>2, <2>6
    <3>3. best \in Seq(1..N) /\ IsNearest(ns, data, all, ef, best)
      <4> HIDE DEF all
      <4> QED
        BY ONLY <2>2, Scored, N \in Nat, DataOfAll(ns, N, d), DataOf1(data, d), ef \in Nat, NearestFacts
    <3> HIDE DEF best
    <3>4. /\ Once(best) /\ Len(best) = ef
          /\ \A i \in 1..Len(best) : \E j \in 1..Len(all) : best[i] = all[j]
          /\ \A j \in 1..Len(all) : \/ \E i \in 1..Len(best) : best[i] = all[j]
                                    \/ \A i \in 1..Len(best) : score(best[i]) >= score(all[j])
      BY <3>2, <3>3 DEF IsNearest
    <3>5. \A j \in 1..Len(all) : all[j] \in w.visited \cup {n} /\ all[j] \in 1..N
      BY <1>1, <2>2, <2>3
    <3>6. \A i \in 1..Len(best) : best[i] \in w.visited \cup {n} /\ best[i] \in 1..N
      BY <3>4, <3>5
    <3>7. ASSUME NEW v \in w.visited \cup {n}
          PROVE  \/ \E i \in 1..Len(best) : best[i] = v
                 \/ Len(best) = ef /\ \A i \in 1..Len(best) : score(best[i]) >= score(v)
      <4>1. CASE \E j \in 1..Len(all) : all[j] = v
        BY <3>4, <4>1
      <4>2. CASE \A j \in 1..Len(all) : all[j] # v
        <5>1. \A i \in 1..Len(old) : i \in 1..Len(all) /\ all[i] = old[i]
          BY <1>1, <2>2
        <5>2. v # n /\ v \in w.visited /\ v \in 1..N
          <6>1. Len(old) + 1 \in 1..Len(all)
            BY <1>1, <2>2
          <6> QED
            BY <1>1, <2>2, <4>2, <6>1
        <5>3. \A i \in 1..Len(old) : score(old[i]) >= score(v)
          BY <1>1, <4>2, <5>1, <5>2
        <5>4. PICK k \in 1..Len(old) : score(n) > score(old[k])
          BY <1>1, <2>6
        <5>5. score(n) >= score(v)
          <6>1. score(n) \in Int /\ score(old[k]) \in Int /\ score(v) \in Int /\ score(old[k]) >= score(v)
            BY <1>1, <1>2, <5>2, <5>3
          <6> HIDE DEF score
          <6> QED
            BY <5>4, <6>1
        <5>6. \A j \in 1..Len(all) : score(all[j]) >= score(v)
          BY <2>2, <2>3, <5>3, <5>5
        <5> QED
          BY <3>4, <5>6
      <4> QED
        BY <4>1, <4>2
    <3>8. Len(best) >= 1 /\ Len(best) <= ef
      BY <1>1, <3>2, <3>4
    <3> HIDE DEF grown, all, score
    <3>9. IsWalk(ns, data, ef, N, grown(best)) /\ grown(best).visited = w.visited \cup {n}
      BY <2>4, <3>3, <3>4, <3>6, <3>7, <3>8
    <3> QED
      BY <3>1, <3>9
  <2>7. CASE ~(Len(old) < ef) /\ ~beats
    <3>1. t = [w EXCEPT !.visited = @ \cup {n}]
      BY <1>4, <2>7 DEF Hnsw!Visit
    <3>2. /\ t \in [candidates : SUBSET (1..N), results : Seq(1..N), visited : SUBSET (1..N)]
          /\ t.results = old /\ t.visited = w.visited \cup {n}
      BY <1>1, <3>1
    <3>3. Len(old) = ef
      BY <1>1, <2>7
    <3>4. ASSUME NEW i \in 1..Len(old) PROVE score(old[i]) >= score(n)
      <4>1. score(old[i]) \in Int /\ score(n) \in Int /\ ~(score(n) > score(old[i]))
        BY <1>1, <1>2, <2>7
      <4> HIDE DEF score, old
      <4> QED
        BY <4>1
    <3> HIDE DEF t
    <3>5. IsWalk(ns, data, ef, N, t)
      BY <1>1, <3>2, <3>3, <3>4 DEF IsWalk
    <3> QED
      BY <3>2, <3>5 DEF t
  <2> QED
    BY <2>5, <2>6, <2>7
<1> QED
  BY <1>3, <1>4

\* A node that is a member of a list.
Reaches(list, v) == \E i \in 1..Len(list) : list[i] = v

LEMMA VisitAllFacts ==
  ASSUME Scored, NEW N \in Nat, NEW d, NEW ns, DataOfAll(ns, N, d), NEW data, DataOf1(data, d),
         NEW ef \in Nat, NEW w, IsWalk(ns, data, ef, N, w), NEW list \in Seq(1..N)
  PROVE  LET t == Hnsw!VisitAll(ns, data, ef, w, list) IN
         IsWalk(ns, data, ef, N, t) /\ \A v : v \in t.visited <=> v \in w.visited \/ Reaches(list, v)
<1> DEFINE m == Len(list)
           S == [candidates : SUBSET (1..N), results : Seq(1..N), visited : SUBSET (1..N)]
           Reached(s, i) == /\ IsWalk(ns, data, ef, N, s)
                            /\ \A v : v \in s.visited <=> v \in w.visited \/ \E j \in 1..i : list[j] = v
           stage == [i \in 0..m |-> {s \in S : Reached(s, i)}]
           step == [i \in 1..m |-> [s \in S |-> Hnsw!Visit(ns, data, ef, s, list[i])]]
           after == CHOOSE g : g = [i \in 0..m |->
                      IF i = 0 THEN w ELSE Hnsw!Visit(ns, data, ef, g[i - 1], list[i])]
           t == Hnsw!VisitAll(ns, data, ef, w, list)
<1>1. m \in Nat /\ \A i \in 1..m : list[i] \in 1..N
  BY LenProperties, ElementOfSeq
<1>2. t = after[m]
  BY DEF Hnsw!VisitAll
<1>3. \A s : IsWalk(ns, data, ef, N, s) => s \in S
  BY DEF IsWalk
<1>4. w \in S /\ Reached(w, 0)
  <2>1. \A j : j \notin 1..0
    OBVIOUS
  <2> HIDE DEF S
  <2> QED
    BY <1>3, <2>1
<1>5. ASSUME NEW i \in 1..m, NEW s, Reached(s, i - 1)
      PROVE  Reached(Hnsw!Visit(ns, data, ef, s, list[i]), i)
  <2> DEFINE r == Hnsw!Visit(ns, data, ef, s, list[i])
  <2>1. IsWalk(ns, data, ef, N, s) /\ \A v : v \in s.visited <=> v \in w.visited \/ \E j \in 1..i - 1 : list[j] = v
    BY <1>5
  <2>2. IsWalk(ns, data, ef, N, r) /\ r.visited = s.visited \cup {list[i]}
    BY <1>1, <2>1, VisitFacts
  <2>3. \A j \in 1..i : j \in 1..i - 1 \/ j = i
    OBVIOUS
  <2>4. \A j \in 1..i - 1 : j \in 1..i
    OBVIOUS
  <2>5. i \in 1..i
    OBVIOUS
  <2> HIDE DEF r
  <2>6. \A v : v \in r.visited <=> v \in w.visited \/ \E j \in 1..i : list[j] = v
    BY <2>1, <2>2, <2>3, <2>4, <2>5
  <2> QED
    BY <2>2, <2>6 DEF r
<1> HIDE DEF Reached
<1>6. \A i \in 1..m : \A s \in S : step[i][s] = Hnsw!Visit(ns, data, ef, s, list[i])
  <2> HIDE DEF S
  <2> QED
    OBVIOUS
<1>7. \A i \in 0..m : \A s \in S : s \in stage[i] <=> Reached(s, i)
  <2> HIDE DEF S
  <2> QED
    OBVIOUS
<1>8. stage \in [0..m -> SUBSET S]
  <2> HIDE DEF S
  <2> QED
    OBVIOUS
<1>9. w \in stage[0]
  <2> HIDE DEF S, stage
  <2> QED
    BY <1>1, <1>4, <1>7
<1>10. \A i \in 1..m : \A s \in stage[i - 1] : step[i][s] \in stage[i]
  <2> SUFFICES ASSUME NEW i \in 1..m, NEW s \in stage[i - 1] PROVE step[i][s] \in stage[i]
    OBVIOUS
  <2> HIDE DEF S, stage, step
  <2>1. i - 1 \in 0..m /\ i \in 0..m
    OBVIOUS
  <2>2. s \in S /\ Reached(s, i - 1)
    BY <1>7, <1>8, <2>1
  <2>3. Reached(Hnsw!Visit(ns, data, ef, s, list[i]), i)
    BY <1>5, <2>2
  <2>4. Hnsw!Visit(ns, data, ef, s, list[i]) \in S
    BY <1>3, <2>3 DEF Reached
  <2> QED
    BY <1>6, <1>7, <2>1, <2>2, <2>3, <2>4
<1>11. PICK g : Iterates(g, S, w, m, stage, step)
  <2> HIDE DEF S, stage, step, m
  <2>1. w \in S
    BY <1>4
  <2>2. m \in Nat
    BY <1>1
  <2>3. Staged(S, w, m, stage, step)
    BY <1>8, <1>9, <1>10 DEF Staged
  <2> QED
    BY ONLY <2>1, <2>2, <2>3, StagedIteration
<1> HIDE DEF S, stage, step
<1>12. g = [i \in 0..m |-> IF i = 0 THEN w ELSE Hnsw!Visit(ns, data, ef, g[i - 1], list[i])]
  <2>1. ASSUME NEW i \in 1..m PROVE g[i] = Hnsw!Visit(ns, data, ef, g[i - 1], list[i])
    <3>1. i - 1 \in 0..m
      OBVIOUS
    <3> QED
      BY <1>6, <1>11, <3>1 DEF Iterates
  <2>2. \A i \in 0..m : i = 0 \/ i \in 1..m
    BY <1>1
  <2>3. g[0] = w /\ DOMAIN g = 0..m /\ g = [i \in DOMAIN g |-> g[i]]
    BY <1>11 DEF Iterates
  <2> HIDE DEF m
  <2> QED
    BY <2>1, <2>2, <2>3
<1>13. after = [i \in 0..m |-> IF i = 0 THEN w ELSE Hnsw!Visit(ns, data, ef, after[i - 1], list[i])]
  BY <1>12
<1>14. after[0] = w /\ \A i \in 1..m : after[i] = Hnsw!Visit(ns, data, ef, after[i - 1], list[i])
  <2> HIDE DEF after
  <2>1. \A i \in 0..m : after[i] = IF i = 0 THEN w ELSE Hnsw!Visit(ns, data, ef, after[i - 1], list[i])
    BY <1>13
  <2>2. 0 \in 0..m /\ \A i \in 1..m : i \in 0..m /\ i # 0
    BY <1>1
  <2> HIDE DEF m
  <2> QED
    BY <2>1, <2>2
<1> HIDE DEF after, m
<1> DEFINE T == {i \in 0..m : Reached(after[i], i)}
<1>15. 0 \in T
  BY <1>1, <1>4, <1>14
<1>16. ASSUME NEW i \in 0..m - 1, i \in T PROVE i + 1 \in T
  <2>1. i + 1 \in 1..m /\ i + 1 \in 0..m /\ (i + 1) - 1 = i
    BY <1>1
  <2>2. Reached(after[i], i)
    BY <1>16
  <2>3. after[i + 1] = Hnsw!Visit(ns, data, ef, after[i], list[i + 1])
    BY <1>14, <2>1
  <2>4. Reached(after[i + 1], i + 1)
    BY <1>5, <2>1, <2>2, <2>3
  <2> QED
    BY <2>1, <2>4
<1>17. \A i \in 0..m : i \in T
  <2> HIDE DEF T
  <2> QED
    BY <1>1, <1>15, <1>16, BoundedInduction
<1>18. Reached(t, m)
  <2>1. m \in 0..m
    BY <1>1
  <2> QED
    BY <1>2, <1>17, <2>1
<1> HIDE DEF t
<1>19. IsWalk(ns, data, ef, N, t) /\ \A v : v \in t.visited <=> v \in w.visited \/ \E j \in 1..m : list[j] = v
  BY <1>18 DEF Reached
<1> QED
  BY <1>19 DEF t, m, Reaches

\* The candidate that is expanded next is one: the largest of the best.
LEMMA CurrentIsCandidate ==
  ASSUME Scored, NEW N \in Nat, NEW d, NEW ns, DataOfAll(ns, N, d), NEW data, DataOf1(data, d),
         NEW C, C \subseteq 1..N, C # {}
  PROVE  \E c \in C : \A e \in C :
           \/ Score(data, ns[c].data) > Score(data, ns[e].data)
           \/ Score(data, ns[c].data) = Score(data, ns[e].data) /\ c >= e
<1> DEFINE score == [x \in C |-> Score(data, ns[x].data)]
<1>1. \A x \in C : Score(data, ns[x].data) \in Int
  BY ScoreIsInt DEF DataOfAll
<1>2. score \in [C -> Int] /\ \A x \in C : score[x] = Score(data, ns[x].data)
  BY <1>1
<1> HIDE DEF score
<1>3. /\ Cardinality(C) \in Nat /\ IsFiniteSet(C)
      /\ \A n \in 1..Cardinality(C) : Ranked(C, score, n) \in C
      /\ \A n, k \in 1..Cardinality(C) : n < k => score[Ranked(C, score, n)] >= score[Ranked(C, score, k)]
      /\ \A i \in C : \E n \in 1..Cardinality(C) : Ranked(C, score, n) = i
  <2>1. C \in SUBSET (1..N)
    OBVIOUS
  <2> QED
    BY ONLY <1>2, <2>1, N \in Nat, RankedFacts
<1> DEFINE n == Cardinality(C)
           first == Ranked(C, score, 1)
<1>4. n \in Nat /\ n >= 1 /\ 1 \in 1..n
  <2>1. PICK e \in C : TRUE
    OBVIOUS
  <2>2. PICK k \in 1..n : Ranked(C, score, k) = e
    BY <1>3, <2>1
  <2>3. n \in Nat /\ k \in Nat /\ 1 <= k /\ k <= n
    BY <1>3
  <2> HIDE DEF n
  <2> QED
    BY <2>3
<1>5. first \in C
  BY <1>3, <1>4
<1>6. ASSUME NEW e \in C PROVE score[first] >= score[e]
  <2>1. PICK k \in 1..n : Ranked(C, score, k) = e
    BY <1>3
  <2>2. k = 1 \/ 1 < k
    <3>1. k \in Nat /\ k >= 1
      BY <1>3
    <3> QED
      BY <3>1
  <2>3. CASE k = 1
    BY <1>2, <1>5, <2>1, <2>3
  <2>4. CASE 1 < k
    BY <1>3, <1>4, <2>1, <2>4
  <2> QED
    BY <2>2, <2>3, <2>4
<1> HIDE DEF n, first
<1> DEFINE T == {c \in C : score[c] = score[first]}
<1>7. T \subseteq 1..N /\ T # {}
  BY <1>5
<1>8. PICK c \in T : \A x \in T : x <= c
  <2> HIDE DEF T
  <2> QED
    BY <1>7, LargestExists
<1>9. c \in C /\ score[c] = score[first]
  BY <1>8
<1>10. ASSUME NEW e \in C PROVE score[c] > score[e] \/ (score[c] = score[e] /\ c >= e)
  <2>1. score[first] \in Int /\ score[e] \in Int /\ score[first] >= score[e]
    BY <1>2, <1>5, <1>6
  <2>2. CASE score[first] > score[e]
    BY <1>9, <2>2
  <2>3. CASE score[first] = score[e]
    <3>1. e \in T
      BY <2>3
    <3>2. e <= c
      BY <1>8, <3>1
    <3>3. e \in Nat /\ c \in Nat
      BY <1>9
    <3> QED
      BY <1>9, <2>3, <3>2, <3>3
  <2> QED
    BY <2>1, <2>2, <2>3
<1> QED
  BY <1>2, <1>9, <1>10

\* The links in a layer lead to nodes that are stored.
LinksIn(ns, N, layer) == \A c \in 1..N : Hnsw!LinksAt(ns, c, layer) \in Seq(1..N)

\* Every node links to every other.
Full(ns, N, layer) ==
  \A c \in 1..N : \A v \in 1..N : v = c \/ Reaches(Hnsw!LinksAt(ns, c, layer), v)

LEMMA TurnFacts ==
  ASSUME Scored, NEW N \in Nat, NEW d, NEW ns, DataOfAll(ns, N, d), NEW data, DataOf1(data, d),
         NEW layer, LinksIn(ns, N, layer), NEW ef \in Nat, NEW w, IsWalk(ns, data, ef, N, w)
  PROVE  LET t == Hnsw!Turn(ns, data, ef, layer, w) IN
         /\ IsWalk(ns, data, ef, N, t) /\ \A v : v \in w.visited => v \in t.visited
         /\ \A entry : /\ w = [candidates |-> {entry}, results |-> <<entry>>, visited |-> {entry}]
                       /\ Full(ns, N, layer)
                       => \A v \in 1..N : v \in t.visited
<1> DEFINE score(x) == Score(data, ns[x].data)
           C == w.candidates
           current == CHOOSE c \in C : \A e \in C : score(c) > score(e) \/ (score(c) = score(e) /\ c >= e)
           worse == \A i \in DOMAIN w.results : score(current) < score(w.results[i])
           start == [w EXCEPT !.candidates = @ \ {current}]
           list == Hnsw!LinksAt(ns, current, layer)
           r == Hnsw!VisitAll(ns, data, ef, start, list)
           t == Hnsw!Turn(ns, data, ef, layer, w)
<1>1. C \subseteq 1..N
  BY DEF IsWalk
<1>2. t = IF C = {} THEN w ELSE IF worse /\ Len(w.results) >= ef THEN [w EXCEPT !.candidates = {}] ELSE r
  BY DEF Hnsw!Turn
<1>3. C # {} => current \in C
  BY <1>1, CurrentIsCandidate
<1>4. C # {} => /\ current \in 1..N /\ list \in Seq(1..N)
                /\ IsWalk(ns, data, ef, N, start) /\ start.visited = w.visited
  <2>1. C # {} => current \in 1..N /\ list \in Seq(1..N)
    BY <1>1, <1>3 DEF LinksIn
  <2> DEFINE D == C \ {current}
  <2>2. D \subseteq 1..N /\ start = [w EXCEPT !.candidates = D]
    BY <1>1
  <2> HIDE DEF D, start, list, current
  <2>3. IsWalk(ns, data, ef, N, start) /\ start.visited = w.visited
    BY <2>2, WalkOfCandidates
  <2> QED
    BY <2>1, <2>3
<1> HIDE DEF start, list, current
<1>5. C # {} => /\ IsWalk(ns, data, ef, N, r)
                /\ \A v : v \in r.visited <=> v \in w.visited \/ Reaches(list, v)
  <2> SUFFICES ASSUME C # {} PROVE /\ IsWalk(ns, data, ef, N, r)
                                   /\ \A v : v \in r.visited <=> v \in w.visited \/ Reaches(list, v)
    OBVIOUS
  <2>1. IsWalk(ns, data, ef, N, start) /\ start.visited = w.visited /\ list \in Seq(1..N)
    BY <1>4
  <2> HIDE DEF C
  <2>2. IsWalk(ns, data, ef, N, r) /\ \A v : v \in r.visited <=> v \in start.visited \/ Reaches(list, v)
    BY ONLY <2>1, Scored, N \in Nat, DataOfAll(ns, N, d), DataOf1(data, d), ef \in Nat, VisitAllFacts
  <2> QED
    BY <2>1, <2>2
<1>6. IsWalk(ns, data, ef, N, [w EXCEPT !.candidates = {}]) /\ [w EXCEPT !.candidates = {}].visited = w.visited
  <2> DEFINE D == {}
  <2>1. D \subseteq 1..N
    OBVIOUS
  <2> HIDE DEF D
  <2>2. IsWalk(ns, data, ef, N, [w EXCEPT !.candidates = D]) /\ [w EXCEPT !.candidates = D].visited = w.visited
    BY <2>1, WalkOfCandidates
  <2> QED
    BY <2>2 DEF D
<1> HIDE DEF r, worse, t
<1>7. IsWalk(ns, data, ef, N, t) /\ \A v : v \in w.visited => v \in t.visited
  BY <1>2, <1>5, <1>6
<1>8. ASSUME NEW entry, w = [candidates |-> {entry}, results |-> <<entry>>, visited |-> {entry}],
             Full(ns, N, layer), NEW v \in 1..N
      PROVE  v \in t.visited
  <2>1. C = {entry} /\ w.results = <<entry>> /\ w.visited = {entry}
    BY <1>8
  <2>2. current = entry /\ entry \in 1..N
    BY <1>1, <1>3, <2>1
  <2>3. ~worse
    <3>1. 1 \in DOMAIN w.results /\ w.results[1] = entry
      BY <2>1
    <3>2. score(entry) \in Int
      BY <2>2, ScoreIsInt DEF DataOfAll
    <3>3. ~(score(entry) < score(entry))
      <4> HIDE DEF score
      <4> QED
        BY <3>2
    <3> QED
      BY <2>2, <3>1, <3>3 DEF worse
  <2>4. t = r
    BY <1>2, <2>1, <2>3
  <2>5. v = entry \/ Reaches(list, v)
    BY <1>8, <2>2 DEF Full, list
  <2> QED
    BY <1>5, <2>1, <2>4, <2>5
<1> QED
  BY <1>7, <1>8 DEF t

LEMMA WalkFacts ==
  ASSUME Scored, NEW N \in Nat, NEW d, NEW ns, Len(ns) = N, DataOfAll(ns, N, d), NEW data, DataOf1(data, d),
         NEW layer, LinksIn(ns, N, layer), NEW ef \in Nat, ef >= 1, NEW entry \in 1..N
  PROVE  LET t == Hnsw!Walk(ns, data, ef, layer, entry) IN
         /\ IsWalk(ns, data, ef, N, t)
         /\ Full(ns, N, layer) => \A v \in 1..N : v \in t.visited
<1> DEFINE S == [candidates : SUBSET (1..N), results : Seq(1..N), visited : SUBSET (1..N)]
           first == [candidates |-> {entry}, results |-> <<entry>>, visited |-> {entry}]
           Reached(s, n) == /\ IsWalk(ns, data, ef, N, s) /\ (n = 0 => s = first)
                            /\ n # 0 /\ Full(ns, N, layer) => \A v \in 1..N : v \in s.visited
           stage == [n \in 0..N |-> {s \in S : Reached(s, n)}]
           step == [n \in 1..N |-> [s \in S |-> Hnsw!Turn(ns, data, ef, layer, s)]]
           after == CHOOSE g : g = [n \in 0..Len(ns) |->
                      IF n = 0 THEN first ELSE Hnsw!Turn(ns, data, ef, layer, g[n - 1])]
           t == Hnsw!Walk(ns, data, ef, layer, entry)
<1>1. N >= 1
  OBVIOUS
<1>2. t = after[N]
  BY DEF Hnsw!Walk
<1>3. \A s : IsWalk(ns, data, ef, N, s) => s \in S
  BY DEF IsWalk
<1>4. first \in S /\ Reached(first, 0)
  <2>1. first \in S
    OBVIOUS
  <2>2. /\ first.results = <<entry>> /\ first.visited = {entry} /\ first.candidates = {entry}
        /\ Len(<<entry>>) = 1 /\ DOMAIN <<entry>> = {1} /\ <<entry>>[1] = entry /\ 1..1 = {1} /\ 1 \in 1..1
    OBVIOUS
  <2> HIDE DEF first
  <2>3. IsWalk(ns, data, ef, N, first)
    BY <2>1, <2>2 DEF IsWalk, Once
  <2> QED
    BY <2>1, <2>3
<1>5. ASSUME NEW n \in 1..N, NEW s, Reached(s, n - 1)
      PROVE  Reached(Hnsw!Turn(ns, data, ef, layer, s), n)
  <2> DEFINE r == Hnsw!Turn(ns, data, ef, layer, s)
  <2> HIDE DEF first, S
  <2>1. IsWalk(ns, data, ef, N, s)
    BY <1>5
  <2>2. /\ IsWalk(ns, data, ef, N, r) /\ \A v : v \in s.visited => v \in r.visited
        /\ s = first /\ Full(ns, N, layer) => \A v \in 1..N : v \in r.visited
    BY <2>1, TurnFacts DEF first
  <2> HIDE DEF r
  <2>3. n # 0 /\ (n - 1 = 0 \/ n - 1 # 0)
    OBVIOUS
  <2>4. Reached(r, n)
    BY <1>5, <2>2, <2>3
  <2> QED
    BY <2>4 DEF r
<1> HIDE DEF Reached, first
<1>6. \A n \in 1..N : \A s \in S : step[n][s] = Hnsw!Turn(ns, data, ef, layer, s)
  <2> HIDE DEF S
  <2> QED
    OBVIOUS
<1>7. \A n \in 0..N : \A s \in S : s \in stage[n] <=> Reached(s, n)
  <2> HIDE DEF S
  <2> QED
    OBVIOUS
<1>8. stage \in [0..N -> SUBSET S]
  <2> HIDE DEF S
  <2> QED
    OBVIOUS
<1>9. first \in stage[0]
  <2> HIDE DEF S, stage
  <2> QED
    BY <1>1, <1>4, <1>7
<1>10. \A n \in 1..N : \A s \in stage[n - 1] : step[n][s] \in stage[n]
  <2> SUFFICES ASSUME NEW n \in 1..N, NEW s \in stage[n - 1] PROVE step[n][s] \in stage[n]
    OBVIOUS
  <2> HIDE DEF S, stage, step
  <2>1. n - 1 \in 0..N /\ n \in 0..N
    OBVIOUS
  <2>2. s \in S /\ Reached(s, n - 1)
    BY <1>7, <1>8, <2>1
  <2>3. Reached(Hnsw!Turn(ns, data, ef, layer, s), n)
    BY <1>5, <2>2
  <2>4. Hnsw!Turn(ns, data, ef, layer, s) \in S
    BY <1>3, <2>3 DEF Reached
  <2> QED
    BY <1>6, <1>7, <2>1, <2>2, <2>3, <2>4
<1>11. PICK g : Iterates(g, S, first, N, stage, step)
  <2> HIDE DEF S, stage, step
  <2>1. first \in S
    BY <1>4
  <2>2. Staged(S, first, N, stage, step)
    BY <1>8, <1>9, <1>10 DEF Staged
  <2> QED
    BY ONLY <2>1, <2>2, N \in Nat, StagedIteration
<1> HIDE DEF S, stage, step
<1>12. g = [n \in 0..N |-> IF n = 0 THEN first ELSE Hnsw!Turn(ns, data, ef, layer, g[n - 1])]
  <2>1. ASSUME NEW n \in 1..N PROVE g[n] = Hnsw!Turn(ns, data, ef, layer, g[n - 1])
    <3>1. n - 1 \in 0..N
      OBVIOUS
    <3> QED
      BY <1>6, <1>11, <3>1 DEF Iterates
  <2>2. \A n \in 0..N : n = 0 \/ n \in 1..N
    OBVIOUS
  <2>3. g[0] = first /\ DOMAIN g = 0..N /\ g = [n \in DOMAIN g |-> g[n]]
    BY <1>11 DEF Iterates
  <2> QED
    BY <2>1, <2>2, <2>3
<1>13. after = [n \in 0..N |-> IF n = 0 THEN first ELSE Hnsw!Turn(ns, data, ef, layer, after[n - 1])]
  BY <1>12
<1>14. after[0] = first /\ \A n \in 1..N : after[n] = Hnsw!Turn(ns, data, ef, layer, after[n - 1])
  <2> HIDE DEF after
  <2>1. \A n \in 0..N : after[n] = IF n = 0 THEN first ELSE Hnsw!Turn(ns, data, ef, layer, after[n - 1])
    BY <1>13
  <2>2. 0 \in 0..N /\ \A n \in 1..N : n \in 0..N /\ n # 0
    OBVIOUS
  <2> QED
    BY <2>1, <2>2
<1> HIDE DEF after
<1> DEFINE T == {n \in 0..N : Reached(after[n], n)}
<1>15. 0 \in T
  BY <1>4, <1>14
<1>16. ASSUME NEW n \in 0..N - 1, n \in T PROVE n + 1 \in T
  <2>1. n + 1 \in 1..N /\ n + 1 \in 0..N /\ (n + 1) - 1 = n
    OBVIOUS
  <2>2. Reached(after[n], n)
    BY <1>16
  <2>3. after[n + 1] = Hnsw!Turn(ns, data, ef, layer, after[n])
    BY <1>14, <2>1
  <2>4. Reached(after[n + 1], n + 1)
    BY <1>5, <2>1, <2>2, <2>3
  <2> QED
    BY <2>1, <2>4
<1>17. \A n \in 0..N : n \in T
  <2> HIDE DEF T
  <2> QED
    BY <1>15, <1>16, BoundedInduction
<1>18. Reached(t, N)
  <2>1. N \in 0..N
    OBVIOUS
  <2> QED
    BY <1>2, <1>17, <2>1
<1> HIDE DEF t
<1>19. N # 0
  BY <1>1
<1>20. IsWalk(ns, data, ef, N, t) /\ (Full(ns, N, layer) => \A v \in 1..N : v \in t.visited)
  BY <1>18, <1>19 DEF Reached
<1> QED
  BY <1>20 DEF t

\* What search_layer returns: nodes by descending score, none twice, and where every
\* node links to every other none that it leaves out is better.
IsFound(ns, data, ef, N, layer, t) ==
  /\ t \in Seq(1..N) /\ Once(t) /\ Len(t) >= 1 /\ Len(t) <= ef
  /\ \A i, j \in 1..Len(t) : i < j => Score(data, ns[t[i]].data) >= Score(data, ns[t[j]].data)
  /\ Full(ns, N, layer) => \A v \in 1..N :
       \/ Reaches(t, v)
       \/ Len(t) = ef /\ \A i \in 1..Len(t) : Score(data, ns[t[i]].data) >= Score(data, ns[v].data)

LEMMA SearchLayerFacts ==
  ASSUME Scored, NEW N \in Nat, NEW d, NEW ns, Len(ns) = N, DataOfAll(ns, N, d), NEW data, DataOf1(data, d),
         NEW layer, LinksIn(ns, N, layer), NEW ef \in Nat, ef >= 1, NEW entry \in 1..N
  PROVE  IsFound(ns, data, ef, N, layer, Hnsw!SearchLayer(ns, data, entry, ef, layer))
<1> DEFINE w == Hnsw!Walk(ns, data, ef, layer, entry)
           found == w.results
           t == Hnsw!Sorted(ns, data, found)
<1>1. IsWalk(ns, data, ef, N, w) /\ (Full(ns, N, layer) => \A v \in 1..N : v \in w.visited)
  BY WalkFacts
<1>2. Hnsw!SearchLayer(ns, data, entry, ef, layer) = t
  BY DEF Hnsw!SearchLayer
<1> HIDE DEF w
<1>3. found \in Seq(1..N) /\ Once(found) /\ Len(found) >= 1 /\ Len(found) <= ef /\ Len(found) \in Nat
  BY <1>1, LenProperties DEF IsWalk
<1>4. t \in Seq(1..N) /\ SortsInto(ns, data, found, t)
  <2> HIDE DEF found
  <2>1. found \in Seq(1..N) /\ Once(found)
    BY <1>3
  <2> QED
    BY ONLY <2>1, SortedFacts, Scored, N \in Nat, DataOfAll(ns, N, d), DataOf1(data, d)
<1> HIDE DEF t
<1>5. /\ Once(t) /\ Len(t) >= 1 /\ Len(t) <= ef /\ Len(t) = Len(found)
      /\ \A i, j \in 1..Len(t) : i < j => Score(data, ns[t[i]].data) >= Score(data, ns[t[j]].data)
      /\ \A i \in 1..Len(found) : Reaches(t, found[i])
      /\ \A i \in 1..Len(t) : \E j \in 1..Len(found) : t[i] = found[j]
  BY <1>3, <1>4 DEF SortsInto, Reaches
<1>6. ASSUME Full(ns, N, layer), NEW v \in 1..N, ~Reaches(t, v)
      PROVE  Len(t) = ef /\ \A i \in 1..Len(t) : Score(data, ns[t[i]].data) >= Score(data, ns[v].data)
  <2>1. v \in w.visited /\ \A i \in 1..Len(found) : found[i] # v
    BY <1>1, <1>5, <1>6
  <2>2. Len(found) = ef /\ \A i \in 1..Len(found) : Score(data, ns[found[i]].data) >= Score(data, ns[v].data)
    BY <1>1, <2>1 DEF IsWalk
  <2> QED
    BY <1>5, <2>2
<1>7. IsFound(ns, data, ef, N, layer, t)
  BY <1>4, <1>5, <1>6 DEF IsFound
<1> QED
  BY <1>2, <1>7

LEMMA DescendFacts ==
  ASSUME Scored, NEW N \in Nat, NEW d, NEW ns, Len(ns) = N, DataOfAll(ns, N, d), NEW data, DataOf1(data, d),
         \A layer \in Nat : LinksIn(ns, N, layer), NEW entry \in 1..N, NEW from \in Nat, NEW to \in Nat
  PROVE  Hnsw!Descend(ns, data, entry, from, to) \in 1..N
<1> DEFINE S == 1..N
           turns == from + 1
           next(s, n) == Hnsw!SearchLayer(ns, data, s, 1, from + 1 - n)[1]
           step == [n \in 1..turns |-> [s \in S |-> next(s, n)]]
           best == CHOOSE g : g = [n \in 0..turns |-> IF n = 0 THEN entry ELSE next(g[n - 1], n)]
<1>1. turns \in Nat /\ \A n \in 1..turns : from + 1 - n \in Nat
  OBVIOUS
<1>2. Hnsw!Descend(ns, data, entry, from, to) = IF from < to THEN entry ELSE best[from + 1 - to]
  BY DEF Hnsw!Descend
<1>3. ASSUME NEW n \in 1..turns, NEW s \in S PROVE next(s, n) \in S
  <2> DEFINE layer == from + 1 - n
             t == Hnsw!SearchLayer(ns, data, s, 1, layer)
  <2>1. LinksIn(ns, N, layer) /\ 1 \in Nat /\ 1 >= 1
    BY <1>1
  <2> HIDE DEF layer
  <2>2. IsFound(ns, data, 1, N, layer, t)
    BY <2>1, SearchLayerFacts
  <2> HIDE DEF t
  <2>3. t \in Seq(1..N) /\ 1 \in 1..Len(t)
    BY <2>2, LenProperties DEF IsFound
  <2> HIDE DEF next
  <2>4. t[1] \in 1..N
    BY <2>3, ElementOfSeq
  <2> QED
    BY <2>4 DEF next, t, layer
<1> HIDE DEF next, turns
<1>4. step \in [1..turns -> [S -> S]]
  BY <1>3
<1>5. \A n \in 1..turns : \A s \in S : step[n][s] = next(s, n)
  OBVIOUS
<1> DEFINE stage == [n \in 0..turns |-> S]
<1>6. PICK g : Iterates(g, S, entry, turns, stage, step)
  <2>1. entry \in S
    OBVIOUS
  <2>2. turns \in Nat
    BY <1>1
  <2>3. \A n \in 1..turns : n - 1 \in 0..turns /\ n \in 0..turns
    BY <1>1
  <2>4. stage \in [0..turns -> SUBSET S] /\ 0 \in 0..turns /\ \A n \in 0..turns : stage[n] = S
    BY <1>1
  <2> HIDE DEF S, step, stage
  <2>5. Staged(S, entry, turns, stage, step)
    BY <1>4, <2>1, <2>3, <2>4 DEF Staged
  <2> QED
    BY ONLY <2>1, <2>2, <2>5, StagedIteration
<1> HIDE DEF step
<1>7. g = [n \in 0..turns |-> IF n = 0 THEN entry ELSE next(g[n - 1], n)]
  <2>1. \A n \in 1..turns : n - 1 \in 0..turns
    BY <1>1
  <2>2. \A n \in 1..turns : g[n] = next(g[n - 1], n)
    BY <1>5, <1>6, <2>1 DEF Iterates
  <2>3. \A n \in 0..turns : n = 0 \/ n \in 1..turns
    BY <1>1
  <2>4. g[0] = entry /\ DOMAIN g = 0..turns /\ g = [n \in DOMAIN g |-> g[n]]
    BY <1>6 DEF Iterates
  <2> QED
    BY <2>2, <2>3, <2>4
<1>8. best = [n \in 0..turns |-> IF n = 0 THEN entry ELSE next(best[n - 1], n)]
  BY <1>7
<1>9. best[0] = entry /\ \A n \in 1..turns : best[n] = next(best[n - 1], n)
  <2> HIDE DEF best
  <2>1. \A n \in 0..turns : best[n] = IF n = 0 THEN entry ELSE next(best[n - 1], n)
    BY <1>8
  <2>2. 0 \in 0..turns /\ \A n \in 1..turns : n \in 0..turns /\ n # 0
    BY <1>1
  <2> QED
    BY <2>1, <2>2
<1> HIDE DEF best
<1> DEFINE T == {n \in 0..turns : best[n] \in S}
<1>10. 0 \in T
  BY <1>1, <1>9
<1>11. ASSUME NEW n \in 0..turns - 1, n \in T PROVE n + 1 \in T
  <2>1. n + 1 \in 1..turns /\ n + 1 \in 0..turns /\ (n + 1) - 1 = n
    BY <1>1
  <2>2. best[n] \in S
    BY <1>11
  <2> HIDE DEF S
  <2>3. best[n + 1] = next(best[n], n + 1)
    BY <1>9, <2>1
  <2> QED
    BY <1>3, <2>1, <2>2, <2>3
<1>12. \A n \in 0..turns : n \in T
  <2> HIDE DEF T
  <2> QED
    BY <1>1, <1>10, <1>11, BoundedInduction
<1>13. ~(from < to) => from + 1 - to \in 0..turns
  BY DEF turns
<1> QED
  BY <1>2, <1>12, <1>13

----------------------------------------------------------------------------
(* HnswVectorStore: the links made *)

\* A list without a double is no longer than what it lists, and if it is as long it
\* lists it all.
LEMMA OnceFits ==
  ASSUME NEW X, IsFiniteSet(X), NEW list \in Seq(X), Once(list)
  PROVE  /\ Len(list) <= Cardinality(X)
         /\ Len(list) = Cardinality(X) => \A x \in X : Reaches(list, x)
<1> DEFINE m == Len(list)
           R == {x \in X : Reaches(list, x)}
<1>1. m \in Nat /\ DOMAIN list = 1..m /\ list \in [1..m -> X]
  BY LenProperties
<1>2. \A i \in 1..m : list[i] \in R
  BY <1>1 DEF Reaches
<1>3. \A x \in R : \E i \in 1..m : list[i] = x
  BY DEF Reaches
<1>4. \A i, j \in 1..m : list[i] = list[j] => i = j
  BY <1>1 DEF Once
<1> HIDE DEF R, m
<1>5. list \in [1..m -> R]
  BY <1>1, <1>2
<1>6. list \in Bijection(1..m, R)
  BY ONLY <1>3, <1>4, <1>5, Fun_IsBij
<1>7. IsFiniteSet(1..m) /\ Cardinality(1..m) = m
  BY ONLY <1>1, FS_Interval
<1>8. ExistsBijection(1..m, R)
  BY ONLY <1>6 DEF ExistsBijection
<1>9. Cardinality(R) = m
  BY ONLY <1>7, <1>8, FS_Bijection
<1>10. R \in SUBSET X
  BY DEF R
<1>11. Cardinality(R) <= Cardinality(X) /\ (R # X => Cardinality(R) < Cardinality(X))
       /\ Cardinality(X) \in Nat /\ Cardinality(R) \in Nat
  BY ONLY IsFiniteSet(X), <1>10, FS_Subset, FS_CardinalityType
<1>12. m = Cardinality(X) => \A x \in X : Reaches(list, x)
  BY <1>9, <1>11 DEF R
<1> QED
  BY <1>9, <1>11, <1>12 DEF m

HnswNode == [id : HnswIds, data : Seq(Int), links : Seq(Seq(Nat))]

\* Links from node n in a layer, to some of the nodes up to top.
IsList(list, top, n, layer) ==
  list \in Seq(1..top) /\ Once(list) /\ Len(list) <= Hnsw!MaxLinks(layer) /\ ~Reaches(list, n)

\* The nodes as they are between two calls.
IsGraph(ns, N) ==
  /\ ns \in Seq(HnswNode) /\ Len(ns) = N
  /\ \A c \in 1..N : /\ Hnsw!LayersOf(ns, c) >= 1
                     /\ \A layer \in Nat : IsList(Hnsw!LinksAt(ns, c, layer), N, c, layer)

\* The nodes while one more is linked, from its top layer down: the layers below from
\* are as in the old ones, those above may link to the new node.
Grown(ns, old, N, from) ==
  /\ ns \in Seq(HnswNode) /\ Len(ns) = N
  /\ \A c \in 1..N : /\ ns[c].id = old[c].id /\ ns[c].data = old[c].data
                     /\ Hnsw!LayersOf(ns, c) = Hnsw!LayersOf(old, c)
                     /\ \A layer \in Nat :
                          IF layer < from THEN Hnsw!LinksAt(ns, c, layer) = Hnsw!LinksAt(old, c, layer)
                          ELSE IsList(Hnsw!LinksAt(ns, c, layer), N + 1, c, layer)

LEMMA ListLarger ==
  ASSUME NEW N \in Nat, NEW list, NEW c, NEW layer, IsList(list, N, c, layer)
  PROVE  IsList(list, N + 1, c, layer)
<1>1. list \in Seq(1..N) /\ 1..N \subseteq 1..N + 1
  BY DEF IsList
<1>2. list \in Seq(1..N + 1)
  BY <1>1
<1> QED
  BY <1>2 DEF IsList

LEMMA LimitIsNat ==
  ASSUME NEW layer
  PROVE  Hnsw!MaxLinks(layer) \in Nat /\ Hnsw!MaxLinks(layer) >= 1 /\ (layer = 0 => Hnsw!MaxLinks(layer) = 2 * M)
<1>1. M \in Nat \ {0}
  BY MCAssumption DEF Hnsw!HnswAssumption
<1> QED
  BY <1>1 DEF Hnsw!MaxLinks

\* Node n has other links in one layer, links[k].
Relinked(t, ns, n, k, cut) ==
  /\ t \in Seq(HnswNode) /\ Len(t) = Len(ns)
  /\ \A c \in 1..Len(ns) :
       /\ t[c].id = ns[c].id /\ t[c].data = ns[c].data
       /\ Hnsw!LayersOf(t, c) = Hnsw!LayersOf(ns, c)
       /\ \A layer \in Nat : Hnsw!LinksAt(t, c, layer) =
            IF c = n /\ layer + 1 = k THEN cut ELSE Hnsw!LinksAt(ns, c, layer)

LEMMA LinksReplaced ==
  ASSUME NEW ns \in Seq(HnswNode), NEW n \in 1..Len(ns), NEW k \in 1..Len(ns[n].links), NEW cut \in Seq(Nat)
  PROVE  Relinked([ns EXCEPT ![n].links[k] = cut], ns, n, k, cut)
<1> DEFINE t == [ns EXCEPT ![n].links[k] = cut]
           links == [ns[n].links EXCEPT ![k] = cut]
           node == [ns[n] EXCEPT !.links = links]
           N == Len(ns)
<1>1. N \in Nat /\ DOMAIN ns = 1..N /\ ns \in [1..N -> HnswNode] /\ \A c \in 1..N : ns[c] \in HnswNode
  BY LenProperties, ElementOfSeq
<1>2. ns[n] \in HnswNode /\ ns[n].links \in Seq(Seq(Nat))
  BY <1>1 DEF HnswNode
<1>3. Len(ns[n].links) \in Nat /\ ns[n].links \in [1..Len(ns[n].links) -> Seq(Nat)]
  BY <1>2, LenProperties
<1>4. /\ links \in [1..Len(ns[n].links) -> Seq(Nat)]
      /\ links[k] = cut /\ \A j \in 1..Len(ns[n].links) : j # k => links[j] = ns[n].links[j]
  BY <1>3
<1> HIDE DEF links
<1>5. links \in Seq(Seq(Nat)) /\ Len(links) = Len(ns[n].links)
  BY ONLY <1>3, <1>4, FunctionIsSeq
<1>6. node \in HnswNode /\ node.id = ns[n].id /\ node.data = ns[n].data /\ node.links = links
  BY <1>2, <1>5 DEF HnswNode
<1>7. t = [ns EXCEPT ![n] = node]
  BY DEF links
<1> HIDE DEF node
<1>8. t \in [1..N -> HnswNode] /\ t[n] = node /\ \A c \in 1..N : c # n => t[c] = ns[c]
  BY <1>1, <1>6, <1>7
<1> HIDE DEF t
<1>9. t \in Seq(HnswNode) /\ Len(t) = N
  <2> HIDE DEF N
  <2> QED
    BY ONLY <1>1, <1>8, FunctionIsSeq
<1>10. ASSUME NEW c \in 1..N
       PROVE  /\ t[c].id = ns[c].id /\ t[c].data = ns[c].data
              /\ Hnsw!LayersOf(t, c) = Hnsw!LayersOf(ns, c)
              /\ \A layer \in Nat : Hnsw!LinksAt(t, c, layer) =
                   IF c = n /\ layer + 1 = k THEN cut ELSE Hnsw!LinksAt(ns, c, layer)
  <2>1. CASE c # n
    BY <1>8, <2>1 DEF Hnsw!LayersOf, Hnsw!LinksAt
  <2>2. CASE c = n
    <3>1. t[c].id = ns[c].id /\ t[c].data = ns[c].data /\ t[c].links = links
      BY <1>6, <1>8, <2>2
    <3>2. Hnsw!LayersOf(t, c) = Hnsw!LayersOf(ns, c) /\ Hnsw!LayersOf(ns, c) = Len(ns[n].links)
      BY <1>5, <2>2, <3>1 DEF Hnsw!LayersOf
    <3>3. ASSUME NEW layer \in Nat
          PROVE  Hnsw!LinksAt(t, c, layer) = IF c = n /\ layer + 1 = k THEN cut ELSE Hnsw!LinksAt(ns, c, layer)
      <4>1. CASE layer < Len(ns[n].links)
        <5>1. layer + 1 \in 1..Len(ns[n].links)
          BY <1>3, <4>1
        <5>2. Hnsw!LinksAt(t, c, layer) = links[layer + 1] /\ Hnsw!LinksAt(ns, c, layer) = ns[n].links[layer + 1]
          BY <2>2, <3>1, <3>2, <4>1 DEF Hnsw!LinksAt
        <5> QED
          BY <1>4, <2>2, <5>1, <5>2
      <4>2. CASE ~(layer < Len(ns[n].links))
        <5>1. layer + 1 # k
          BY <1>3, <4>2
        <5> QED
          BY <3>2, <4>2, <5>1 DEF Hnsw!LinksAt
      <4> QED
        BY <4>1, <4>2
    <3> QED
      BY <3>1, <3>2, <3>3
  <2> QED
    BY <2>1, <2>2
<1> QED
  BY <1>9, <1>10 DEF t, N, Relinked

\* A list that does not reach the new node yet has room for it while there are no more
\* nodes than links are allowed.
LEMMA RoomForOne ==
  ASSUME NEW N \in Nat, NEW n \in 1..N, NEW layer, NEW list, IsList(list, N + 1, n, layer), ~Reaches(list, N + 1)
  PROVE  Len(list) < N
<1>1. list \in Seq(1..N + 1) /\ Once(list) /\ Len(list) \in Nat /\ DOMAIN list = 1..Len(list)
  BY LenProperties DEF IsList
<1> DEFINE X == (1..N) \ {n}
<1>2. \A i \in 1..Len(list) : list[i] \in 1..N + 1 /\ list[i] # n /\ list[i] # N + 1
  BY <1>1, ElementOfSeq DEF IsList, Reaches
<1>3. \A i \in 1..Len(list) : list[i] \in X
  BY <1>2
<1>4. IsFiniteSet(1..N) /\ Cardinality(1..N) = N
  <2>1. N \in Int /\ 1 \in Int /\ (1 > N => N = 0)
    OBVIOUS
  <2>2. IsFiniteSet(1..N) /\ Cardinality(1..N) = IF 1 > N THEN 0 ELSE N - 1 + 1
    BY ONLY <2>1, FS_Interval
  <2> QED
    BY <2>2
<1>5. IsFiniteSet(X) /\ Cardinality(X) = N - 1
  <2>1. n \in 1..N
    OBVIOUS
  <2> QED
    BY ONLY <1>4, <2>1, FS_RemoveElement
<1> HIDE DEF X
<1>6. list \in [1..Len(list) -> X]
  BY <1>1, <1>3
<1>7. list \in Seq(X)
  BY ONLY <1>1, <1>6, FunctionIsSeq
<1>8. Len(list) <= Cardinality(X)
  BY ONLY <1>1, <1>5, <1>7, OnceFits
<1> QED
  BY <1>1, <1>5, <1>8

LEMMA LinkBackFacts ==
  ASSUME Scored, NEW N \in Nat, NEW d, NEW old, NEW ns, NEW layer \in Nat, Grown(ns, old, N, layer),
         DataOfAll(ns, N, d), NEW data, DataOf1(data, d), NEW n \in 1..N
  PROVE  LET t == Hnsw!LinkBack(ns, N + 1, data, layer, n) IN
         /\ Grown(t, old, N, layer) /\ DataOfAll(t, N, d)
         /\ N <= Hnsw!MaxLinks(layer) =>
              /\ \A c \in 1..N : \A v : Reaches(Hnsw!LinksAt(ns, c, layer), v) => Reaches(Hnsw!LinksAt(t, c, layer), v)
              /\ layer < Hnsw!LayersOf(old, n) => Reaches(Hnsw!LinksAt(t, n, layer), N + 1)
<1> DEFINE t == Hnsw!LinkBack(ns, N + 1, data, layer, n)
           list == Hnsw!LinksAt(ns, n, layer)
           max == Hnsw!MaxLinks(layer)
           all == Append(list, N + 1)
           known == Append(ns, [id |-> Absent, data |-> data, links |-> <<>>])
           cut == IF Len(all) > max THEN Hnsw!Nearest(known, ns[n].data, all, max) ELSE all
           k == layer + 1
<1>1. /\ ns \in Seq(HnswNode) /\ Len(ns) = N /\ DOMAIN ns = 1..N
      /\ Hnsw!LayersOf(ns, n) = Hnsw!LayersOf(old, n)
      /\ IsList(list, N + 1, n, layer)
      /\ \A c \in 1..N : IsList(Hnsw!LinksAt(ns, c, layer), N + 1, c, layer)
  BY LenProperties DEF Grown
<1>2. max \in Nat /\ max >= 1
  BY LimitIsNat
<1>3. list \in Seq(1..N + 1) /\ Once(list) /\ Len(list) <= max /\ Len(list) \in Nat /\ DOMAIN list = 1..Len(list)
  BY <1>1, LenProperties DEF IsList
<1>4. N + 1 \in Hnsw!Range(list) <=> Reaches(list, N + 1)
  BY <1>3 DEF Hnsw!Range, Reaches
<1>5. layer >= Hnsw!LayersOf(ns, n) \/ Reaches(list, N + 1) => t = ns
  BY <1>4 DEF Hnsw!LinkBack
<1>6. ~(layer >= Hnsw!LayersOf(ns, n) \/ Reaches(list, N + 1)) => t = [ns EXCEPT ![n].links[k] = cut]
  BY <1>4 DEF Hnsw!LinkBack
<1> HIDE DEF t
<1>7. CASE layer >= Hnsw!LayersOf(ns, n) \/ Reaches(list, N + 1)
  <2>1. t = ns
    BY <1>5, <1>7
  <2>2. Hnsw!LayersOf(ns, n) \in Nat
    <3>1. ns[n] \in HnswNode
      BY <1>1, ElementOfSeq
    <3> QED
      BY <3>1, LenProperties DEF HnswNode, Hnsw!LayersOf
  <2>3. layer < Hnsw!LayersOf(old, n) => Reaches(list, N + 1)
    BY <1>1, <1>7, <2>2
  <2> HIDE DEF list
  <2> QED
    BY <2>1, <2>3 DEF t, list
<1>8. CASE ~(layer >= Hnsw!LayersOf(ns, n) \/ Reaches(list, N + 1))
  <2>1. t = [ns EXCEPT ![n].links[k] = cut]
    BY <1>6, <1>8
  <2>2. /\ ns[n] \in HnswNode /\ ns[n].links \in Seq(Seq(Nat)) /\ Hnsw!LayersOf(ns, n) = Len(ns[n].links)
        /\ Len(ns[n].links) \in Nat
    <3>1. ns[n] \in HnswNode
      BY <1>1, ElementOfSeq
    <3> QED
      BY <3>1, LenProperties DEF HnswNode, Hnsw!LayersOf
  <2>3. n \in 1..Len(ns) /\ k \in 1..Len(ns[n].links)
    BY <1>1, <1>8, <2>2
  <2>4. /\ all \in Seq(1..N + 1) /\ Once(all) /\ Len(all) = Len(list) + 1
        /\ \A i \in 1..Len(list) : all[i] = list[i]
        /\ all[Len(list) + 1] = N + 1
    <3>1. \A i \in 1..Len(list) : list[i] # N + 1
      BY <1>8 DEF Reaches
    <3>2. N + 1 \in 1..N + 1 /\ list \in Seq(1..N + 1) /\ Once(list)
      BY <1>3
    <3> DEFINE top == N + 1
    <3> HIDE DEF list, top
    <3> QED
      BY ONLY <3>1, <3>2, OnceAppended DEF top
  <2>5. \A i \in 1..Len(all) : i \in 1..Len(list) \/ i = Len(list) + 1
    BY <1>3, <2>4
  <2>6. \A i \in 1..Len(all) : all[i] # n
    BY <1>1, <2>4, <2>5 DEF IsList, Reaches
  <2>7. DataOfAll(known, N + 1, d) /\ DataOf1(ns[n].data, d)
    <3> DEFINE node == [id |-> Absent, data |-> data, links |-> <<>>]
    <3>1. \A c \in 1..N : known[c] = ns[c]
      BY <1>1, AppendProperties
    <3>2. known[N + 1] = node
      BY <1>1, AppendProperties
    <3> HIDE DEF known
    <3>3. known[N + 1].data = data
      BY <3>2
    <3>4. \A c \in 1..N + 1 : c \in 1..N \/ c = N + 1
      OBVIOUS
    <3> QED
      BY <3>1, <3>3, <3>4 DEF DataOfAll
  <2>8. IsList(cut, N + 1, n, layer)
    <3>1. CASE Len(all) > max
      <4> DEFINE top == N + 1
                 theirs == ns[n].data
                 r == Hnsw!Nearest(known, theirs, all, max)
      <4>1. r \in Seq(1..top) /\ IsNearest(known, theirs, all, max, r)
        <5>1. /\ top \in Nat /\ DataOfAll(known, top, d) /\ DataOf1(theirs, d)
              /\ all \in Seq(1..top) /\ Once(all) /\ max \in Nat
          BY <1>2, <2>4, <2>7
        <5> HIDE DEF known, all, max, top, theirs
        <5> QED
          BY ONLY <5>1, Scored, NearestFacts DEF r
      <4> HIDE DEF r
      <4>2. r \in Seq(1..N + 1) /\ Once(r) /\ Len(r) = max /\ \A i \in 1..Len(r) : \E j \in 1..Len(all) : r[i] = all[j]
        BY <1>2, <1>3, <2>4, <3>1, <4>1 DEF IsNearest
      <4>3. ~Reaches(r, n)
        BY <2>6, <4>2 DEF Reaches
      <4>4. Len(r) <= max
        BY <1>2, <4>2
      <4> QED
        BY <3>1, <4>2, <4>3, <4>4 DEF IsList, r
    <3>2. CASE ~(Len(all) > max)
      <4>1. Len(all) <= max
        BY <1>2, <1>3, <2>4, <3>2
      <4>2. ~Reaches(all, n)
        BY <2>6 DEF Reaches
      <4> HIDE DEF all
      <4> QED
        BY <2>4, <3>2, <4>1, <4>2 DEF IsList
    <3> QED
      BY <3>1, <3>2
  <2>9. N <= max => cut = all
    <3>1. Len(list) < N
      BY <1>1, <1>8, RoomForOne
    <3>2. N <= max => ~(Len(all) > max)
      BY <1>2, <1>3, <2>4, <3>1
    <3> HIDE DEF all, max
    <3> QED
      BY <3>2
  <2>10. cut \in Seq(Nat)
    <3>1. cut \in Seq(1..N + 1) /\ 1..N + 1 \subseteq Nat
      BY <2>8 DEF IsList
    <3> HIDE DEF cut
    <3> QED
      BY <3>1
  <2> HIDE DEF cut
  <2>11. Relinked(t, ns, n, k, cut)
    <3>1. ns \in Seq(HnswNode)
      BY <1>1
    <3> HIDE DEF k
    <3> QED
      BY ONLY <2>1, <2>3, <2>10, <3>1, LinksReplaced
  <2>12. \A l \in Nat : l + 1 = k <=> l = layer
    OBVIOUS
  <2>13. /\ t \in Seq(HnswNode) /\ Len(t) = N
         /\ \A c \in 1..N :
              /\ t[c].id = ns[c].id /\ t[c].data = ns[c].data
              /\ Hnsw!LayersOf(t, c) = Hnsw!LayersOf(ns, c)
              /\ \A l \in Nat : Hnsw!LinksAt(t, c, l) =
                   IF c = n /\ l = layer THEN cut ELSE Hnsw!LinksAt(ns, c, l)
    <3> HIDE DEF k
    <3> QED
      BY <1>1, <2>11, <2>12 DEF Relinked
  <2> HIDE DEF k
  <2>14. ASSUME NEW c \in 1..N, NEW l \in Nat
         PROVE  IF l < layer THEN Hnsw!LinksAt(t, c, l) = Hnsw!LinksAt(old, c, l)
                ELSE IsList(Hnsw!LinksAt(t, c, l), N + 1, c, l)
    <3>1. IF l < layer THEN Hnsw!LinksAt(ns, c, l) = Hnsw!LinksAt(old, c, l)
          ELSE IsList(Hnsw!LinksAt(ns, c, l), N + 1, c, l)
      BY DEF Grown
    <3>2. CASE c = n /\ l = layer
      <4>1. ~(l < layer) /\ Hnsw!LinksAt(t, c, l) = cut
        BY <2>13, <3>2
      <4> QED
        BY <2>8, <3>2, <4>1
    <3>3. CASE ~(c = n /\ l = layer)
      BY <2>13, <3>1, <3>3
    <3> QED
      BY <3>2, <3>3
  <2>15. \A c \in 1..N : /\ t[c].id = old[c].id /\ t[c].data = old[c].data
                         /\ Hnsw!LayersOf(t, c) = Hnsw!LayersOf(old, c)
    BY <2>13 DEF Grown
  <2>16. Grown(t, old, N, layer)
    BY <2>13, <2>14, <2>15 DEF Grown
  <2>17. DataOfAll(t, N, d)
    BY <2>13 DEF DataOfAll
  <2>18. ASSUME N <= max, NEW c \in 1..N, NEW v, Reaches(Hnsw!LinksAt(ns, c, layer), v)
         PROVE  Reaches(Hnsw!LinksAt(t, c, layer), v)
    <3>1. CASE c = n
      <4>1. Hnsw!LinksAt(t, c, layer) = all /\ Reaches(list, v)
        BY <2>9, <2>13, <2>18, <3>1
      <4>2. \A i \in 1..Len(list) : i \in 1..Len(all) /\ all[i] = list[i]
        BY <1>3, <2>4
      <4> QED
        BY <4>1, <4>2 DEF Reaches
    <3>2. CASE c # n
      BY <2>13, <2>18, <3>2
    <3> QED
      BY <3>1, <3>2
  <2>19. ASSUME N <= max PROVE Reaches(Hnsw!LinksAt(t, n, layer), N + 1)
    <3>1. Hnsw!LinksAt(t, n, layer) = all
      BY <2>9, <2>13, <2>19
    <3>2. Len(list) + 1 \in 1..Len(all)
      BY <1>3, <2>4
    <3> QED
      BY <2>4, <3>1, <3>2 DEF Reaches
  <2> QED
    BY <2>16, <2>17, <2>18, <2>19 DEF t
<1> QED
  BY <1>7, <1>8

LEMMA LinkAllBackFacts ==
  ASSUME Scored, NEW N \in Nat, NEW d, NEW old, NEW ns, NEW layer \in Nat, Grown(ns, old, N, layer),
         DataOfAll(ns, N, d), NEW data, DataOf1(data, d), NEW chosen \in Seq(1..N)
  PROVE  LET t == Hnsw!LinkAllBack(ns, N + 1, data, layer, chosen) IN
         /\ Grown(t, old, N, layer) /\ DataOfAll(t, N, d)
         /\ N <= Hnsw!MaxLinks(layer) =>
              /\ \A c \in 1..N : \A v : Reaches(Hnsw!LinksAt(ns, c, layer), v) => Reaches(Hnsw!LinksAt(t, c, layer), v)
              /\ \A c \in 1..N : Reaches(chosen, c) /\ layer < Hnsw!LayersOf(old, c)
                                   => Reaches(Hnsw!LinksAt(t, c, layer), N + 1)
<1> DEFINE m == Len(chosen)
           S == Seq(HnswNode)
           at(s, c) == Hnsw!LinksAt(s, c, layer)
           next(s, i) == Hnsw!LinkBack(s, N + 1, data, layer, chosen[i])
           Back(s, i) ==
             /\ Grown(s, old, N, layer) /\ DataOfAll(s, N, d)
             /\ N <= Hnsw!MaxLinks(layer) =>
                  /\ \A c \in 1..N : \A v : Reaches(at(ns, c), v) => Reaches(at(s, c), v)
                  /\ \A j \in 1..i : layer < Hnsw!LayersOf(old, chosen[j]) => Reaches(at(s, chosen[j]), N + 1)
           stage == [i \in 0..m |-> {s \in S : Back(s, i)}]
           step == [i \in 1..m |-> [s \in S |-> next(s, i)]]
           after == CHOOSE g : g = [i \in 0..m |-> IF i = 0 THEN ns ELSE next(g[i - 1], i)]
           t == Hnsw!LinkAllBack(ns, N + 1, data, layer, chosen)
<1>1. m \in Nat /\ \A i \in 1..m : chosen[i] \in 1..N
  BY LenProperties, ElementOfSeq
<1>2. t = after[m]
  BY DEF Hnsw!LinkAllBack
<1>3. \A s, i : Back(s, i) => s \in S
  BY DEF Grown
<1>4. ns \in S /\ Back(ns, 0)
  <2>1. \A j : j \notin 1..0
    OBVIOUS
  <2>2. Back(ns, 0)
    BY <2>1
  <2> HIDE DEF S, Back
  <2> QED
    BY <1>3, <2>2
<1>5. ASSUME NEW i \in 1..m, NEW s, Back(s, i - 1)
      PROVE  Back(next(s, i), i)
  <2> DEFINE r == next(s, i)
             n == chosen[i]
  <2>1. /\ Grown(s, old, N, layer) /\ DataOfAll(s, N, d)
        /\ N <= Hnsw!MaxLinks(layer) =>
             /\ \A c \in 1..N : \A v : Reaches(at(ns, c), v) => Reaches(at(s, c), v)
             /\ \A j \in 1..i - 1 : layer < Hnsw!LayersOf(old, chosen[j]) => Reaches(at(s, chosen[j]), N + 1)
    BY <1>5
  <2> HIDE DEF at
  <2>2. /\ Grown(r, old, N, layer) /\ DataOfAll(r, N, d)
        /\ N <= Hnsw!MaxLinks(layer) =>
             /\ \A c \in 1..N : \A v : Reaches(at(s, c), v) => Reaches(at(r, c), v)
             /\ layer < Hnsw!LayersOf(old, n) => Reaches(at(r, n), N + 1)
    <3>1. n \in 1..N
      BY <1>1
    <3>2. Grown(s, old, N, layer) /\ DataOfAll(s, N, d)
      BY <2>1
    <3> HIDE DEF n
    <3> QED
      BY ONLY <3>1, <3>2, Scored, N \in Nat, layer \in Nat, DataOf1(data, d), LinkBackFacts DEF at, n
  <2>3. \A j \in 1..i : j \in 1..i - 1 \/ j = i
    OBVIOUS
  <2>4. \A j \in 1..m : chosen[j] \in 1..N
    BY <1>1
  <2>5. \A j \in 1..i - 1 : j \in 1..m
    BY <1>1
  <2> HIDE DEF r
  <2>6. N <= Hnsw!MaxLinks(layer) =>
          /\ \A c \in 1..N : \A v : Reaches(at(ns, c), v) => Reaches(at(r, c), v)
          /\ \A j \in 1..i : layer < Hnsw!LayersOf(old, chosen[j]) => Reaches(at(r, chosen[j]), N + 1)
    <3> SUFFICES ASSUME N <= Hnsw!MaxLinks(layer)
                 PROVE  /\ \A c \in 1..N : \A v : Reaches(at(ns, c), v) => Reaches(at(r, c), v)
                        /\ \A j \in 1..i : layer < Hnsw!LayersOf(old, chosen[j]) => Reaches(at(r, chosen[j]), N + 1)
      OBVIOUS
    <3>1. \A c \in 1..N : \A v : Reaches(at(ns, c), v) => Reaches(at(r, c), v)
      BY <2>1, <2>2
    <3>2. ASSUME NEW j \in 1..i, layer < Hnsw!LayersOf(old, chosen[j]) PROVE Reaches(at(r, chosen[j]), N + 1)
      <4>1. CASE j = i
        BY <2>2, <3>2, <4>1
      <4>2. CASE j \in 1..i - 1
        <5>1. Reaches(at(s, chosen[j]), N + 1) /\ chosen[j] \in 1..N
          BY <2>1, <2>4, <2>5, <3>2, <4>2
        <5> QED
          BY <2>2, <5>1
      <4> QED
        BY <2>3, <4>1, <4>2
    <3> QED
      BY <3>1, <3>2
  <2> QED
    BY <2>2, <2>6 DEF r, at
<1> HIDE DEF Back, at, next
<1>6. \A i \in 1..m : \A s \in S : step[i][s] = next(s, i)
  <2> HIDE DEF S
  <2> QED
    OBVIOUS
<1>7. \A i \in 0..m : \A s \in S : s \in stage[i] <=> Back(s, i)
  <2> HIDE DEF S
  <2> QED
    OBVIOUS
<1>8. stage \in [0..m -> SUBSET S]
  <2> HIDE DEF S
  <2> QED
    OBVIOUS
<1>9. ns \in stage[0]
  <2> HIDE DEF S, stage
  <2> QED
    BY <1>1, <1>4, <1>7
<1>10. \A i \in 1..m : \A s \in stage[i - 1] : step[i][s] \in stage[i]
  <2> SUFFICES ASSUME NEW i \in 1..m, NEW s \in stage[i - 1] PROVE step[i][s] \in stage[i]
    OBVIOUS
  <2> HIDE DEF S, stage, step
  <2>1. i - 1 \in 0..m /\ i \in 0..m
    OBVIOUS
  <2>2. s \in S /\ Back(s, i - 1)
    BY <1>7, <1>8, <2>1
  <2>3. Back(next(s, i), i)
    BY <1>5, <2>2
  <2>4. next(s, i) \in S
    BY <1>3, <2>3
  <2> QED
    BY <1>6, <1>7, <2>1, <2>2, <2>3, <2>4
<1>11. PICK g : Iterates(g, S, ns, m, stage, step)
  <2> HIDE DEF S, stage, step, m
  <2>1. ns \in S
    BY <1>4
  <2>2. m \in Nat
    BY <1>1
  <2>3. Staged(S, ns, m, stage, step)
    BY <1>8, <1>9, <1>10 DEF Staged
  <2> QED
    BY ONLY <2>1, <2>2, <2>3, StagedIteration
<1> HIDE DEF S, stage, step
<1>12. g = [i \in 0..m |-> IF i = 0 THEN ns ELSE next(g[i - 1], i)]
  <2>1. ASSUME NEW i \in 1..m PROVE g[i] = next(g[i - 1], i)
    <3>1. i - 1 \in 0..m
      OBVIOUS
    <3> QED
      BY <1>6, <1>11, <3>1 DEF Iterates
  <2>2. \A i \in 0..m : i = 0 \/ i \in 1..m
    BY <1>1
  <2>3. g[0] = ns /\ DOMAIN g = 0..m /\ g = [i \in DOMAIN g |-> g[i]]
    BY <1>11 DEF Iterates
  <2> HIDE DEF m
  <2> QED
    BY <2>1, <2>2, <2>3
<1>13. after = [i \in 0..m |-> IF i = 0 THEN ns ELSE next(after[i - 1], i)]
  BY <1>12
<1>14. after[0] = ns /\ \A i \in 1..m : after[i] = next(after[i - 1], i)
  <2> HIDE DEF after
  <2>1. \A i \in 0..m : after[i] = IF i = 0 THEN ns ELSE next(after[i - 1], i)
    BY <1>13
  <2>2. 0 \in 0..m /\ \A i \in 1..m : i \in 0..m /\ i # 0
    BY <1>1
  <2> HIDE DEF m
  <2> QED
    BY <2>1, <2>2
<1> HIDE DEF after, m
<1> DEFINE T == {i \in 0..m : Back(after[i], i)}
<1>15. 0 \in T
  BY <1>1, <1>4, <1>14
<1>16. ASSUME NEW i \in 0..m - 1, i \in T PROVE i + 1 \in T
  <2>1. i + 1 \in 1..m /\ i + 1 \in 0..m /\ (i + 1) - 1 = i
    BY <1>1
  <2>2. Back(after[i], i)
    BY <1>16
  <2>3. after[i + 1] = next(after[i], i + 1)
    BY <1>14, <2>1
  <2>4. Back(after[i + 1], i + 1)
    BY <1>5, <2>1, <2>2, <2>3
  <2> QED
    BY <2>1, <2>4
<1>17. \A i \in 0..m : i \in T
  <2> HIDE DEF T
  <2> QED
    BY <1>1, <1>15, <1>16, BoundedInduction
<1>18. Back(t, m)
  <2>1. m \in 0..m
    BY <1>1
  <2> QED
    BY <1>2, <1>17, <2>1
<1> HIDE DEF t
<1>19. /\ Grown(t, old, N, layer) /\ DataOfAll(t, N, d)
       /\ N <= Hnsw!MaxLinks(layer) =>
            /\ \A c \in 1..N : \A v : Reaches(at(ns, c), v) => Reaches(at(t, c), v)
            /\ \A j \in 1..m : layer < Hnsw!LayersOf(old, chosen[j]) => Reaches(at(t, chosen[j]), N + 1)
  BY <1>18 DEF Back
<1>20. \A c : Reaches(chosen, c) => \E j \in 1..m : chosen[j] = c
  BY DEF Reaches, m
<1>21. N <= Hnsw!MaxLinks(layer) =>
         \A c \in 1..N : Reaches(chosen, c) /\ layer < Hnsw!LayersOf(old, c) => Reaches(at(t, c), N + 1)
  BY <1>19, <1>20
<1> QED
  BY <1>19, <1>21 DEF t, at

\* The links of the new node, which will be N + 1, in its layers up to level.
OwnLinks(links, N, level) ==
  /\ links \in Seq(Seq(Nat)) /\ Len(links) = level + 1
  /\ \A l \in 0..level : IsList(links[l + 1], N, N + 1, l)

\* In layer 0 the new node links to every other, and they to it and as they did.
Joined(linked, old, N) ==
  \A c \in 1..N : /\ Reaches(linked.links[1], c)
                  /\ Reaches(Hnsw!LinksAt(linked.nodes, c, 0), N + 1)
                  /\ \A v : Reaches(Hnsw!LinksAt(old, c, 0), v) => Reaches(Hnsw!LinksAt(linked.nodes, c, 0), v)

\* Few enough nodes that no link of layer 0 is cut.
Uncut(old, N) == Full(old, N, 0) /\ N <= 2 * M /\ 2 * M <= EfConstruction

LEMMA OnceAll ==
  ASSUME NEW N \in Nat, NEW list \in Seq(1..N), Once(list)
  PROVE  Len(list) <= N /\ (Len(list) >= N => \A c \in 1..N : Reaches(list, c))
<1>1. IsFiniteSet(1..N) /\ Cardinality(1..N) = N
  <2>1. N \in Int /\ 1 \in Int /\ (1 > N => N = 0)
    OBVIOUS
  <2>2. IsFiniteSet(1..N) /\ Cardinality(1..N) = IF 1 > N THEN 0 ELSE N - 1 + 1
    BY ONLY <2>1, FS_Interval
  <2> QED
    BY <2>2
<1>2. Len(list) \in Nat
  BY LenProperties
<1> DEFINE X == 1..N
<1>3. list \in Seq(X) /\ IsFiniteSet(X)
  BY <1>1
<1> HIDE DEF X
<1>4. Len(list) <= Cardinality(X) /\ (Len(list) = Cardinality(X) => \A x \in X : Reaches(list, x))
  BY ONLY <1>3, Once(list), OnceFits
<1> QED
  BY <1>1, <1>2, <1>4 DEF X

\* The layers above one are done.
GrownAbove(ns, old, N, layer) == Grown(ns, old, N, layer + 1)

LEMMA GrownDown ==
  ASSUME NEW N \in Nat, NEW old, IsGraph(old, N), NEW ns, NEW layer \in Nat, GrownAbove(ns, old, N, layer)
  PROVE  Grown(ns, old, N, layer) /\ \A c \in 1..N : Hnsw!LinksAt(ns, c, layer) = Hnsw!LinksAt(old, c, layer)
<1>1. ASSUME NEW c \in 1..N PROVE Hnsw!LinksAt(ns, c, layer) = Hnsw!LinksAt(old, c, layer)
  <2>1. layer < layer + 1
    OBVIOUS
  <2> QED
    BY <2>1 DEF Grown, GrownAbove
<1>2. ASSUME NEW c \in 1..N, NEW l \in Nat
      PROVE  IF l < layer THEN Hnsw!LinksAt(ns, c, l) = Hnsw!LinksAt(old, c, l)
             ELSE IsList(Hnsw!LinksAt(ns, c, l), N + 1, c, l)
  <2>1. IF l < layer + 1 THEN Hnsw!LinksAt(ns, c, l) = Hnsw!LinksAt(old, c, l)
        ELSE IsList(Hnsw!LinksAt(ns, c, l), N + 1, c, l)
    BY DEF Grown, GrownAbove
  <2>2. IsList(Hnsw!LinksAt(old, c, l), N + 1, c, l)
    BY ListLarger DEF IsGraph
  <2>3. l < layer \/ l = layer \/ ~(l < layer + 1)
    OBVIOUS
  <2>4. l < layer => l < layer + 1
    OBVIOUS
  <2> QED
    BY <1>1, <2>1, <2>2, <2>3, <2>4
<1>3. /\ ns \in Seq(HnswNode) /\ Len(ns) = N
      /\ \A c \in 1..N : /\ ns[c].id = old[c].id /\ ns[c].data = old[c].data
                         /\ Hnsw!LayersOf(ns, c) = Hnsw!LayersOf(old, c)
  BY DEF Grown, GrownAbove
<1>4. Grown(ns, old, N, layer)
  BY <1>2, <1>3 DEF Grown
<1> QED
  BY <1>1, <1>4

LEMMA LinkedInFacts ==
  ASSUME Scored, NEW N \in Nat, NEW d, NEW old, IsGraph(old, N), NEW level \in Nat, NEW layer \in 0..level,
         NEW linked, Grown(linked.nodes, old, N, layer + 1), DataOfAll(linked.nodes, N, d),
         OwnLinks(linked.links, N, level), NEW data, DataOf1(data, d), NEW entry \in 1..N
  PROVE  LET t == Hnsw!LinkedIn(layer, data, entry, linked) IN
         /\ Grown(t.nodes, old, N, layer) /\ DataOfAll(t.nodes, N, d) /\ OwnLinks(t.links, N, level)
         /\ t = [nodes |-> t.nodes, links |-> t.links]
         /\ layer = 0 /\ Uncut(old, N) => Joined(t, old, N)
<1> DEFINE ns == linked.nodes
           max == Hnsw!MaxLinks(layer)
           found == Hnsw!SearchLayer(ns, data, entry, EfConstruction, layer)
           chosen == Hnsw!Nearest(ns, data, found, max)
           t == Hnsw!LinkedIn(layer, data, entry, linked)
           back == Hnsw!LinkAllBack(ns, N + 1, data, layer, chosen)
           links == [linked.links EXCEPT ![layer + 1] = chosen]
<1>1. layer \in Nat /\ Len(ns) = N /\ ns \in Seq(HnswNode)
  BY DEF Grown
<1>2. Grown(ns, old, N, layer) /\ \A c \in 1..N : Hnsw!LinksAt(ns, c, layer) = Hnsw!LinksAt(old, c, layer)
  <2>1. GrownAbove(ns, old, N, layer)
    BY DEF GrownAbove
  <2> HIDE DEF ns
  <2> QED
    BY ONLY <1>1, <2>1, N \in Nat, IsGraph(old, N), GrownDown
<1>3. max \in Nat /\ max >= 1 /\ (layer = 0 => max = 2 * M)
  BY LimitIsNat
<1>4. EfConstruction \in Nat /\ EfConstruction >= 1 /\ M \in Nat
  BY MCAssumption DEF Hnsw!HnswAssumption
<1>5. LinksIn(ns, N, layer)
  BY <1>1, <1>2 DEF LinksIn, IsGraph, IsList
<1>6. t = [nodes |-> back, links |-> links]
  BY <1>1 DEF Hnsw!LinkedIn
<1> HIDE DEF ns, found, max
<1>7. IsFound(ns, data, EfConstruction, N, layer, found)
  <2>1. DataOfAll(ns, N, d)
    BY DEF ns
  <2> QED
    BY <1>1, <1>4, <1>5, <2>1, SearchLayerFacts DEF found
<1>8. found \in Seq(1..N) /\ Once(found)
  BY <1>7 DEF IsFound
<1>9. chosen \in Seq(1..N) /\ IsNearest(ns, data, found, max, chosen)
  <2>1. DataOfAll(ns, N, d)
    BY DEF ns
  <2> QED
    BY ONLY <1>3, <1>8, <2>1, N \in Nat, DataOf1(data, d), Scored, NearestFacts
<1> HIDE DEF chosen
<1>10. Len(found) \in Nat /\ Len(chosen) \in Nat
  BY <1>8, <1>9, LenProperties
<1>11. Once(chosen) /\ Len(chosen) <= max
  BY <1>3, <1>9, <1>10 DEF IsNearest
<1>12. IsList(chosen, N, N + 1, layer)
  <2>1. \A i \in 1..Len(chosen) : chosen[i] \in 1..N
    BY <1>9, ElementOfSeq, LenProperties
  <2>2. N + 1 \notin 1..N
    OBVIOUS
  <2> QED
    BY <1>9, <1>11, <2>1, <2>2 DEF IsList, Reaches, max
<1>13. OwnLinks(links, N, level)
  <2>1. /\ linked.links \in Seq(Seq(Nat)) /\ Len(linked.links) = level + 1
        /\ linked.links \in [1..level + 1 -> Seq(Nat)]
        /\ \A l \in 0..level : IsList(linked.links[l + 1], N, N + 1, l)
    BY LenProperties DEF OwnLinks
  <2>2. chosen \in Seq(Nat)
    <3>1. 1..N \subseteq Nat
      OBVIOUS
    <3> QED
      BY <1>9, <3>1
  <2>3. layer + 1 \in 1..level + 1 /\ level + 1 \in Nat
    OBVIOUS
  <2>4. links \in [1..level + 1 -> Seq(Nat)]
    BY <2>1, <2>2, <2>3
  <2>5. links \in Seq(Seq(Nat)) /\ Len(links) = level + 1
    BY ONLY <2>3, <2>4, FunctionIsSeq
  <2>6. ASSUME NEW l \in 0..level PROVE IsList(links[l + 1], N, N + 1, l)
    <3>1. l + 1 \in 1..level + 1 /\ (l + 1 = layer + 1 => l = layer)
      OBVIOUS
    <3>2. CASE l = layer
      BY <1>12, <2>1, <2>3, <3>2
    <3>3. CASE l # layer
      BY <2>1, <3>1, <3>3
    <3> QED
      BY <3>2, <3>3
  <2> HIDE DEF links
  <2> QED
    BY <2>5, <2>6 DEF OwnLinks
<1>14. /\ Grown(back, old, N, layer) /\ DataOfAll(back, N, d)
       /\ N <= max =>
            /\ \A c \in 1..N : \A v : Reaches(Hnsw!LinksAt(ns, c, layer), v) => Reaches(Hnsw!LinksAt(back, c, layer), v)
            /\ \A c \in 1..N : Reaches(chosen, c) /\ layer < Hnsw!LayersOf(old, c)
                                 => Reaches(Hnsw!LinksAt(back, c, layer), N + 1)
  <2>1. DataOfAll(ns, N, d)
    BY DEF ns
  <2>2. chosen \in Seq(1..N)
    BY <1>9
  <2> QED
    BY ONLY <1>1, <1>2, <2>1, <2>2, Scored, N \in Nat, DataOf1(data, d), LinkAllBackFacts DEF max
<1> HIDE DEF back, links, t
<1>15. t.nodes = back /\ t.links = links /\ t = [nodes |-> t.nodes, links |-> t.links]
  BY <1>6
<1>16. ASSUME layer = 0, Uncut(old, N) PROVE Joined(t, old, N)
  <2>1. Full(old, N, 0) /\ N <= max /\ N <= EfConstruction
    BY <1>3, <1>4, <1>16 DEF Uncut
  <2>2. Full(ns, N, layer)
    BY <1>2, <1>16, <2>1 DEF Full
  <2>3. \A c \in 1..N : Reaches(found, c)
    <3>1. Len(found) <= N /\ (Len(found) >= N => \A c \in 1..N : Reaches(found, c))
      BY <1>8, OnceAll
    <3>2. (\A c \in 1..N : Reaches(found, c)) \/ Len(found) = EfConstruction
      BY <1>7, <2>2 DEF IsFound
    <3> QED
      BY <1>4, <1>10, <2>1, <3>1, <3>2
  <2>4. \A c \in 1..N : Reaches(chosen, c)
    <3>1. Len(chosen) <= N /\ (Len(chosen) >= N => \A c \in 1..N : Reaches(chosen, c))
      BY <1>9, <1>11, OnceAll
    <3>2. (\A c \in 1..N : Reaches(chosen, c)) \/ Len(chosen) = max
      BY <1>9, <2>3 DEF IsNearest, Reaches
    <3> QED
      BY <1>3, <1>10, <2>1, <3>1, <3>2
  <2>5. links[1] = chosen
    <3>1. linked.links \in [1..level + 1 -> Seq(Nat)] /\ 1 \in 1..level + 1
      BY LenProperties DEF OwnLinks
    <3> QED
      BY <1>16, <3>1 DEF links
  <2>6. \A c \in 1..N : layer < Hnsw!LayersOf(old, c)
    <3>1. \A c \in 1..N : old[c] \in HnswNode
      BY ElementOfSeq DEF IsGraph
    <3>2. \A c \in 1..N : Hnsw!LayersOf(old, c) \in Nat
      BY <3>1, LenProperties DEF HnswNode, Hnsw!LayersOf
    <3> QED
      BY <1>16, <3>2 DEF IsGraph
  <2> QED
    BY <1>2, <1>14, <1>15, <1>16, <2>1, <2>4, <2>5, <2>6 DEF Joined
<1> QED
  BY <1>13, <1>14, <1>15, <1>16 DEF t

LEMMA LinkedFacts ==
  ASSUME Scored, NEW N \in Nat, NEW d, NEW old, IsGraph(old, N), DataOfAll(old, N, d), NEW level \in Nat,
         NEW top \in 0..level, NEW own, OwnLinks(own, N, level), NEW data, DataOf1(data, d), NEW entry \in 1..N
  PROVE  LET t == Hnsw!Linked(old, data, entry, top, own) IN
         /\ Grown(t.nodes, old, N, 0) /\ DataOfAll(t.nodes, N, d) /\ OwnLinks(t.links, N, level)
         /\ Uncut(old, N) => Joined(t, old, N)
<1> DEFINE turns == top + 1
           S == [nodes : Seq(HnswNode), links : Seq(Seq(Nat))]
           base == [nodes |-> old, links |-> own]
           next(s, n) == Hnsw!LinkedIn(top + 1 - n, data, entry, s)
           Sound(s, n) == /\ s \in S /\ Grown(s.nodes, old, N, turns - n) /\ DataOfAll(s.nodes, N, d)
                          /\ OwnLinks(s.links, N, level)
                          /\ n = turns /\ Uncut(old, N) => Joined(s, old, N)
           stage == [n \in 0..turns |-> {s \in S : Sound(s, n)}]
           step == [n \in 1..turns |-> [s \in S |-> next(s, n)]]
           after == CHOOSE g : g = [n \in 0..turns |-> IF n = 0 THEN base ELSE next(g[n - 1], n)]
           t == Hnsw!Linked(old, data, entry, top, own)
<1>1. top \in Nat /\ turns \in Nat /\ turns # 0
  OBVIOUS
<1>2. t = after[turns]
  BY DEF Hnsw!Linked
<1>3. \A s, n : Sound(s, n) => s \in S
  OBVIOUS
<1>4. base \in S /\ Sound(base, 0)
  <2>1. base \in S /\ base.nodes = old /\ base.links = own
    BY DEF OwnLinks, IsGraph
  <2> HIDE DEF base, S
  <2>2. ASSUME NEW c \in 1..N, NEW l \in Nat
        PROVE  IF l < turns THEN Hnsw!LinksAt(old, c, l) = Hnsw!LinksAt(old, c, l)
               ELSE IsList(Hnsw!LinksAt(old, c, l), N + 1, c, l)
    <3>1. IsList(Hnsw!LinksAt(old, c, l), N, c, l)
      BY DEF IsGraph
    <3> QED
      BY <3>1, ListLarger
  <2> HIDE DEF turns
  <2>3. Grown(old, old, N, turns)
    BY <2>2 DEF Grown, IsGraph
  <2>4. turns - 0 = turns
    BY <1>1
  <2> QED
    BY <1>1, <2>1, <2>3, <2>4
<1>5. ASSUME NEW n \in 1..turns, NEW s, Sound(s, n - 1)
      PROVE  Sound(next(s, n), n)
  <2> DEFINE layer == top + 1 - n
             r == next(s, n)
  <2>1. layer \in 0..level /\ turns - (n - 1) = layer + 1 /\ turns - n = layer /\ (n = turns => layer = 0)
    OBVIOUS
  <2>2. Grown(s.nodes, old, N, layer + 1) /\ DataOfAll(s.nodes, N, d) /\ OwnLinks(s.links, N, level)
    <3> HIDE DEF S, layer, turns
    <3> QED
      BY <1>5, <2>1
  <2> HIDE DEF layer, S, turns
  <2>3. /\ Grown(r.nodes, old, N, layer) /\ DataOfAll(r.nodes, N, d) /\ OwnLinks(r.links, N, level)
        /\ r = [nodes |-> r.nodes, links |-> r.links]
        /\ layer = 0 /\ Uncut(old, N) => Joined(r, old, N)
    <3>1. layer \in 0..level
      BY <2>1
    <3> QED
      BY ONLY <2>2, <3>1, Scored, N \in Nat, IsGraph(old, N), level \in Nat, DataOf1(data, d), entry \in 1..N,
              LinkedInFacts DEF layer
  <2> HIDE DEF r
  <2>4. r \in S
    BY <2>3 DEF S, Grown, OwnLinks
  <2>5. Sound(r, n)
    BY <2>1, <2>3, <2>4
  <2> QED
    BY <2>5 DEF r
<1> HIDE DEF Sound, next, turns, base
<1>6. \A n \in 1..turns : \A s \in S : step[n][s] = next(s, n)
  <2> HIDE DEF S
  <2> QED
    OBVIOUS
<1>7. \A n \in 0..turns : \A s \in S : s \in stage[n] <=> Sound(s, n)
  <2> HIDE DEF S
  <2> QED
    OBVIOUS
<1>8. stage \in [0..turns -> SUBSET S]
  <2> HIDE DEF S
  <2> QED
    OBVIOUS
<1>9. base \in stage[0]
  <2> HIDE DEF S, stage
  <2> QED
    BY <1>1, <1>4, <1>7
<1>10. \A n \in 1..turns : \A s \in stage[n - 1] : step[n][s] \in stage[n]
  <2> SUFFICES ASSUME NEW n \in 1..turns, NEW s \in stage[n - 1] PROVE step[n][s] \in stage[n]
    OBVIOUS
  <2> HIDE DEF S, stage, step
  <2>1. n - 1 \in 0..turns /\ n \in 0..turns
    BY <1>1
  <2>2. s \in S /\ Sound(s, n - 1)
    BY <1>7, <1>8, <2>1
  <2>3. Sound(next(s, n), n)
    BY <1>5, <2>2
  <2>4. next(s, n) \in S
    BY <1>3, <2>3
  <2> QED
    BY <1>6, <1>7, <2>1, <2>2, <2>3, <2>4
<1>11. PICK g : Iterates(g, S, base, turns, stage, step)
  <2> HIDE DEF S, stage, step
  <2>1. base \in S
    BY <1>4
  <2>2. turns \in Nat
    BY <1>1
  <2>3. Staged(S, base, turns, stage, step)
    BY <1>8, <1>9, <1>10 DEF Staged
  <2> QED
    BY ONLY <2>1, <2>2, <2>3, StagedIteration
<1> HIDE DEF S, stage, step
<1>12. g = [n \in 0..turns |-> IF n = 0 THEN base ELSE next(g[n - 1], n)]
  <2>1. ASSUME NEW n \in 1..turns PROVE g[n] = next(g[n - 1], n)
    <3>1. n - 1 \in 0..turns
      BY <1>1
    <3> QED
      BY <1>6, <1>11, <3>1 DEF Iterates
  <2>2. \A n \in 0..turns : n = 0 \/ n \in 1..turns
    BY <1>1
  <2>3. g[0] = base /\ DOMAIN g = 0..turns /\ g = [n \in DOMAIN g |-> g[n]]
    BY <1>11 DEF Iterates
  <2> QED
    BY <2>1, <2>2, <2>3
<1>13. after = [n \in 0..turns |-> IF n = 0 THEN base ELSE next(after[n - 1], n)]
  BY <1>12
<1>14. after[0] = base /\ \A n \in 1..turns : after[n] = next(after[n - 1], n)
  <2> HIDE DEF after
  <2>1. \A n \in 0..turns : after[n] = IF n = 0 THEN base ELSE next(after[n - 1], n)
    BY <1>13
  <2>2. 0 \in 0..turns /\ \A n \in 1..turns : n \in 0..turns /\ n # 0
    BY <1>1
  <2> QED
    BY <2>1, <2>2
<1> HIDE DEF after
<1> DEFINE T == {n \in 0..turns : Sound(after[n], n)}
<1>15. 0 \in T
  BY <1>1, <1>4, <1>14
<1>16. ASSUME NEW n \in 0..turns - 1, n \in T PROVE n + 1 \in T
  <2>1. n + 1 \in 1..turns /\ n + 1 \in 0..turns /\ (n + 1) - 1 = n
    BY <1>1
  <2>2. Sound(after[n], n)
    BY <1>16
  <2>3. after[n + 1] = next(after[n], n + 1)
    BY <1>14, <2>1
  <2>4. Sound(after[n + 1], n + 1)
    BY <1>5, <2>1, <2>2, <2>3
  <2> QED
    BY <2>1, <2>4
<1>17. \A n \in 0..turns : n \in T
  <2> HIDE DEF T
  <2> QED
    BY <1>1, <1>15, <1>16, BoundedInduction
<1>18. Sound(t, turns)
  <2>1. turns \in 0..turns
    BY <1>1
  <2> QED
    BY <1>2, <1>17, <2>1
<1> HIDE DEF t
<1>19. turns - turns = 0
  BY <1>1
<1>20. /\ Grown(t.nodes, old, N, 0) /\ DataOfAll(t.nodes, N, d) /\ OwnLinks(t.links, N, level)
       /\ Uncut(old, N) => Joined(t, old, N)
  BY <1>18, <1>19 DEF Sound
<1> QED
  BY <1>20 DEF t

\* The new node is stored behind the others.
LEMMA NodeAppended ==
  ASSUME NEW N \in Nat, NEW d, NEW old, IsGraph(old, N), NEW linked, Grown(linked.nodes, old, N, 0),
         DataOfAll(linked.nodes, N, d), NEW level \in Nat, OwnLinks(linked.links, N, level),
         NEW id \in HnswIds, NEW data, DataOf1(data, d)
  PROVE  LET t == Append(linked.nodes, [id |-> id, data |-> data, links |-> linked.links]) IN
         /\ IsGraph(t, N + 1) /\ DataOfAll(t, N + 1, d)
         /\ \A c \in 1..N : t[c].id = old[c].id /\ t[c].data = old[c].data
         /\ t[N + 1].id = id /\ t[N + 1].data = data
         /\ Joined(linked, old, N) /\ Full(old, N, 0) => Full(t, N + 1, 0)
<1> DEFINE ns == linked.nodes
           node == [id |-> id, data |-> data, links |-> linked.links]
           t == Append(ns, node)
<1>1. /\ ns \in Seq(HnswNode) /\ Len(ns) = N
      /\ \A c \in 1..N : /\ ns[c].id = old[c].id /\ ns[c].data = old[c].data
                         /\ Hnsw!LayersOf(ns, c) = Hnsw!LayersOf(old, c)
                         /\ \A l \in Nat : IsList(Hnsw!LinksAt(ns, c, l), N + 1, c, l)
  <2>1. \A l \in Nat : ~(l < 0)
    OBVIOUS
  <2> QED
    BY <2>1 DEF Grown
<1>2. node \in HnswNode /\ node.id = id /\ node.data = data /\ node.links = linked.links
  BY DEF HnswNode, OwnLinks, DataOf1
<1> HIDE DEF node
<1>3. /\ t \in Seq(HnswNode) /\ Len(t) = N + 1 /\ t[N + 1] = node /\ \A c \in 1..N : t[c] = ns[c]
  <2> HIDE DEF ns
  <2> QED
    BY <1>1, <1>2, AppendProperties
<1> HIDE DEF t
<1>4. \A c \in 1..N + 1 : c \in 1..N \/ c = N + 1
  OBVIOUS
<1>5. ASSUME NEW c \in 1..N
      PROVE  Hnsw!LayersOf(t, c) = Hnsw!LayersOf(ns, c) /\ \A l \in Nat : Hnsw!LinksAt(t, c, l) = Hnsw!LinksAt(ns, c, l)
  <2> HIDE DEF ns
  <2> QED
    BY <1>3 DEF Hnsw!LayersOf, Hnsw!LinksAt
<1>6. Len(linked.links) = level + 1 /\ Hnsw!LayersOf(t, N + 1) = level + 1
  BY <1>2, <1>3 DEF OwnLinks, Hnsw!LayersOf
<1>7. ASSUME NEW l \in Nat PROVE IsList(Hnsw!LinksAt(t, N + 1, l), N + 1, N + 1, l)
  <2>1. CASE l \in 0..level
    <3>1. Hnsw!LinksAt(t, N + 1, l) = linked.links[l + 1]
      BY <1>2, <1>3, <1>6, <2>1 DEF Hnsw!LinksAt
    <3>2. IsList(linked.links[l + 1], N, N + 1, l)
      BY <2>1 DEF OwnLinks
    <3>3. IsList(linked.links[l + 1], N + 1, N + 1, l)
      <4> DEFINE list == linked.links[l + 1]
      <4>1. list \in Seq(1..N) /\ 1..N \subseteq 1..N + 1
        BY <3>2 DEF IsList
      <4>2. list \in Seq(1..N + 1)
        <5> HIDE DEF list
        <5> QED
          BY <4>1
      <4> QED
        BY <3>2, <4>2 DEF IsList
    <3> QED
      BY <3>1, <3>3
  <2>2. CASE l \notin 0..level
    <3>1. ~(l < level + 1)
      BY <2>2
    <3>2. Hnsw!LinksAt(t, N + 1, l) = <<>>
      BY <1>6, <3>1 DEF Hnsw!LinksAt
    <3>3. <<>> \in Seq(1..N + 1) /\ Once(<<>>) /\ Len(<<>>) = 0 /\ ~Reaches(<<>>, N + 1)
      BY DEF Once, Reaches
    <3>4. 0 <= Hnsw!MaxLinks(l)
      BY LimitIsNat
    <3> QED
      BY <3>2, <3>3, <3>4 DEF IsList
  <2> QED
    BY <2>1, <2>2
<1>8. IsGraph(t, N + 1)
  <2>1. ASSUME NEW c \in 1..N + 1
        PROVE  Hnsw!LayersOf(t, c) >= 1 /\ \A l \in Nat : IsList(Hnsw!LinksAt(t, c, l), N + 1, c, l)
    <3>1. CASE c \in 1..N
      BY <1>1, <1>5, <3>1 DEF IsGraph
    <3>2. CASE c = N + 1
      <4>1. level + 1 >= 1
        OBVIOUS
      <4> QED
        BY <1>6, <1>7, <3>2, <4>1
    <3> QED
      BY <1>4, <3>1, <3>2
  <2> QED
    BY <1>3, <2>1 DEF IsGraph
<1>9. DataOfAll(t, N + 1, d)
  BY <1>2, <1>3, <1>4 DEF DataOfAll
<1>10. ASSUME Joined(linked, old, N), Full(old, N, 0) PROVE Full(t, N + 1, 0)
  <2>1. 0 \in Nat /\ 0 \in 0..level /\ 0 + 1 = 1
    OBVIOUS
  <2>2. Hnsw!LinksAt(t, N + 1, 0) = linked.links[1]
    <3>1. 0 < level + 1
      OBVIOUS
    <3> QED
      BY <1>2, <1>3, <1>6, <2>1, <3>1 DEF Hnsw!LinksAt
  <2>3. ASSUME NEW c \in 1..N + 1, NEW v \in 1..N + 1, v # c PROVE Reaches(Hnsw!LinksAt(t, c, 0), v)
    <3>1. CASE c = N + 1
      <4>1. v \in 1..N
        BY <1>4, <2>3, <3>1
      <4> QED
        BY <1>10, <2>2, <3>1, <4>1 DEF Joined
    <3>2. CASE c \in 1..N
      <4>1. Hnsw!LinksAt(t, c, 0) = Hnsw!LinksAt(ns, c, 0)
        BY <1>5, <3>2
      <4>2. CASE v = N + 1
        BY <1>10, <3>2, <4>1, <4>2 DEF Joined
      <4>3. CASE v \in 1..N
        <5>1. Reaches(Hnsw!LinksAt(old, c, 0), v)
          BY <1>10, <2>3, <3>2, <4>3 DEF Full
        <5> QED
          BY <1>10, <3>2, <4>1, <5>1 DEF Joined
      <4> QED
        BY <1>4, <4>2, <4>3
    <3> QED
      BY <1>4, <3>1, <3>2
  <2> QED
    BY <2>3 DEF Full
<1> QED
  BY <1>1, <1>2, <1>3, <1>8, <1>9, <1>10 DEF t, node

LEMMA InsertedFacts ==
  ASSUME Scored, NEW N \in Nat, NEW d, IsGraph(nodes, N), DataOfAll(nodes, N, d), entry_point = N,
         NEW vector, vector.id \in HnswIds, DataOf1(vector.data, d), NEW level \in Nat
  PROVE  LET t == Hnsw!Inserted(vector, level) IN
         /\ IsGraph(t, N + 1) /\ DataOfAll(t, N + 1, d)
         /\ \A c \in 1..N : t[c].id = nodes[c].id /\ t[c].data = nodes[c].data
         /\ t[N + 1].id = vector.id /\ t[N + 1].data = vector.data
         /\ N = 0 \/ Uncut(nodes, N) => Full(t, N + 1, 0)
<1> DEFINE none == [i \in 1..level + 1 |-> <<>>]
           start == Hnsw!Descend(nodes, vector.data, entry_point, Hnsw!LayersOf(nodes, entry_point) - 1, level)
           top == Hnsw!LeastOf(level, Len(nodes) - 1)
           linked == IF entry_point = 0 THEN [nodes |-> nodes, links |-> none]
                     ELSE Hnsw!Linked(nodes, vector.data, start, top, none)
           id == vector.id
           data == vector.data
           t == Append(linked.nodes, [id |-> id, data |-> data, links |-> linked.links])
<1>1. Hnsw!Inserted(vector, level) = t
  BY DEF Hnsw!Inserted
<1>2. OwnLinks(none, N, level)
  <2>1. level + 1 \in Nat /\ \A l \in 0..level : l + 1 \in 1..level + 1
    OBVIOUS
  <2>2. none \in [1..level + 1 -> Seq(Nat)]
    OBVIOUS
  <2>3. none \in Seq(Seq(Nat)) /\ Len(none) = level + 1
    BY ONLY <2>1, <2>2, FunctionIsSeq
  <2>4. \A l \in 0..level : none[l + 1] = <<>>
    BY <2>1
  <2>5. ASSUME NEW l \in 0..level PROVE IsList(<<>>, N, N + 1, l)
    <3>1. <<>> \in Seq(1..N) /\ Once(<<>>) /\ Len(<<>>) = 0 /\ ~Reaches(<<>>, N + 1)
      BY DEF Once, Reaches
    <3>2. 0 <= Hnsw!MaxLinks(l)
      BY LimitIsNat
    <3> QED
      BY <3>1, <3>2 DEF IsList
  <2> HIDE DEF none
  <2> QED
    BY <2>3, <2>4, <2>5 DEF OwnLinks
<1>3. Len(nodes) = N /\ nodes \in Seq(HnswNode)
  BY DEF IsGraph
<1> HIDE DEF none, start, top
<1>4. /\ Grown(linked.nodes, nodes, N, 0) /\ DataOfAll(linked.nodes, N, d) /\ OwnLinks(linked.links, N, level)
      /\ N = 0 \/ Uncut(nodes, N) => Joined(linked, nodes, N)
  <2>1. CASE N = 0
    <3>1. linked = [nodes |-> nodes, links |-> none]
      BY <2>1
    <3>2. linked.nodes = nodes /\ linked.links = none
      BY <3>1
    <3>3. \A c : c \notin 1..N
      BY <2>1
    <3> HIDE DEF linked
    <3> QED
      BY <1>2, <1>3, <3>2, <3>3 DEF Grown, Joined
  <2>2. CASE N # 0
    <3>1. entry_point \in 1..N
      BY <2>2
    <3>2. Hnsw!LayersOf(nodes, entry_point) \in Nat /\ Hnsw!LayersOf(nodes, entry_point) >= 1
      <4>1. nodes[entry_point] \in HnswNode
        BY <1>3, <3>1, ElementOfSeq
      <4> QED
        BY <3>1, <4>1, LenProperties DEF IsGraph, HnswNode, Hnsw!LayersOf
    <3>3. Hnsw!LayersOf(nodes, entry_point) - 1 \in Nat
      BY <3>2
    <3>4. \A layer \in Nat : LinksIn(nodes, N, layer)
      BY DEF IsGraph, IsList, LinksIn
    <3>5. start \in 1..N
      BY ONLY <1>3, <3>1, <3>3, <3>4, Scored, N \in Nat, DataOfAll(nodes, N, d), DataOf1(vector.data, d),
              level \in Nat, DescendFacts DEF start
    <3>6. top \in 0..level
      BY <1>3, <2>2 DEF top, Hnsw!LeastOf
    <3>7. linked = Hnsw!Linked(nodes, vector.data, start, top, none)
      BY <2>2
    <3>8. /\ Grown(linked.nodes, nodes, N, 0) /\ DataOfAll(linked.nodes, N, d) /\ OwnLinks(linked.links, N, level)
          /\ Uncut(nodes, N) => Joined(linked, nodes, N)
      BY ONLY <1>2, <3>5, <3>6, <3>7, Scored, N \in Nat, IsGraph(nodes, N), DataOfAll(nodes, N, d),
              level \in Nat, DataOf1(vector.data, d), LinkedFacts
    <3> QED
      BY <2>2, <3>8
  <2> QED
    BY <2>1, <2>2
<1> HIDE DEF linked
<1>5. /\ IsGraph(t, N + 1) /\ DataOfAll(t, N + 1, d)
      /\ \A c \in 1..N : t[c].id = nodes[c].id /\ t[c].data = nodes[c].data
      /\ t[N + 1].id = id /\ t[N + 1].data = data
      /\ Joined(linked, nodes, N) /\ Full(nodes, N, 0) => Full(t, N + 1, 0)
  <2>1. id \in HnswIds /\ DataOf1(data, d)
    OBVIOUS
  <2>2. Grown(linked.nodes, nodes, N, 0) /\ DataOfAll(linked.nodes, N, d) /\ OwnLinks(linked.links, N, level)
    BY <1>4
  <2> HIDE DEF id, data
  <2> QED
    BY ONLY <2>1, <2>2, N \in Nat, IsGraph(nodes, N), level \in Nat, NodeAppended
<1>6. N = 0 \/ Uncut(nodes, N) => Full(nodes, N, 0)
  <2>1. N = 0 => \A c : c \notin 1..N
    OBVIOUS
  <2> QED
    BY <2>1 DEF Uncut, Full
<1> HIDE DEF t
<1> QED
  BY <1>1, <1>4, <1>5, <1>6

----------------------------------------------------------------------------
(* HnswVectorStore: its invariant *)

HnswVector == [id : HnswIds, dimension : Nat \ {0}, data : Seq(Int)]
NodeIds(ns) == [i \in DOMAIN ns |-> ns[i].id]

\* No link of layer 0 was cut yet, nor a node missed.
StillSmall(N) == N <= 2 * M + 1 /\ 2 * M <= EfConstruction

\* The inductive invariant: a graph of nodes of one dimension, the last of them the
\* entry point, in which all nodes know each other while they are few.
HnswInv ==
  /\ IsGraph(nodes, Len(nodes)) /\ entry_point = Len(nodes)
  /\ dims \in Nat /\ (nodes # <<>> => dims > 0) /\ DataOfAll(nodes, Len(nodes), dims)
  /\ Finds(positions, HnswIds, NodeIds(nodes))
  /\ pending \in Seq(HnswVector) /\ (pending # <<>> => reply = Hnsw!Busy)
  /\ StillSmall(Len(nodes)) => Full(nodes, Len(nodes), 0)

LEMMA HnswAssumptions ==
  /\ HnswBatches \subseteq Seq(HnswVector) /\ Absent \notin Seq(Int)
  /\ M \in Nat /\ M >= 1 /\ MaxLevel \in Nat
  /\ EfSearch \in Nat /\ EfSearch >= 1 /\ EfConstruction \in Nat
<1>1. Hnsw!HnswAssumption
  BY MCAssumption
<1>2. {M, EfConstruction, EfSearch} \subseteq Nat \ {0} /\ MaxLevel \in Nat /\ Absent \notin Seq(Int)
  BY <1>1 DEF Hnsw!HnswAssumption
<1>3. HnswBatches \subseteq Seq(HnswVector)
  BY ONLY <1>1 DEF Hnsw!HnswAssumption, HnswVector
<1> QED
  BY <1>2, <1>3

LEMMA HnswKinds ==
  /\ Hnsw!Ok # Hnsw!Busy /\ Hnsw!Err # Hnsw!Busy
  /\ \A n, data, ids : /\ Hnsw!Answer("found", n, data, ids) # Hnsw!Busy
                       /\ Hnsw!Answer("none", n, data, ids) # Hnsw!Busy
                       /\ Hnsw!Answer("ranked", n, data, ids) # Hnsw!Busy
BY DEF Hnsw!Ok, Hnsw!Err, Hnsw!Busy, Hnsw!Answer

LEMMA NodeIdsFacts ==
  ASSUME NEW ns \in Seq(HnswNode)
  PROVE  /\ NodeIds(ns) \in Seq(HnswIds) /\ Len(NodeIds(ns)) = Len(ns) /\ DOMAIN NodeIds(ns) = 1..Len(ns)
         /\ \A i \in 1..Len(ns) : NodeIds(ns)[i] = ns[i].id
<1>1. Len(ns) \in Nat /\ DOMAIN ns = 1..Len(ns) /\ \A i \in 1..Len(ns) : ns[i] \in HnswNode
  BY LenProperties, ElementOfSeq
<1> DEFINE ids == NodeIds(ns)
<1>2. ids \in [1..Len(ns) -> HnswIds]
  BY <1>1 DEF NodeIds, HnswNode
<1>3. \A i \in 1..Len(ns) : ids[i] = ns[i].id
  BY <1>1 DEF NodeIds
<1> HIDE DEF ids
<1>4. ids \in Seq(HnswIds) /\ Len(ids) = Len(ns)
  BY ONLY <1>1, <1>2, FunctionIsSeq
<1> QED
  BY <1>2, <1>3, <1>4 DEF ids

LEMMA EmptyGraph ==
  ASSUME NEW d
  PROVE  /\ IsGraph(<<>>, 0) /\ DataOfAll(<<>>, 0, d) /\ Full(<<>>, 0, 0)
         /\ Finds([id \in HnswIds |-> 0], HnswIds, NodeIds(<<>>))
<1>1. \A c : c \notin 1..0
  OBVIOUS
<1>2. NodeIds(<<>>) = <<>>
  BY DEF NodeIds
<1>3. Finds([id \in HnswIds |-> 0], HnswIds, NodeIds(<<>>))
  BY <1>2, FindsNone
<1>4. <<>> \in Seq(HnswNode) /\ Len(<<>>) = 0
  OBVIOUS
<1> QED
  BY <1>1, <1>3, <1>4 DEF IsGraph, DataOfAll, Full

LEMMA HnswInvInit == Hnsw!Init => HnswInv
<1> SUFFICES ASSUME Hnsw!Init PROVE HnswInv
  OBVIOUS
<1>1. /\ nodes = <<>> /\ positions = [id \in HnswIds |-> 0] /\ dims = 0 /\ entry_point = 0 /\ pending = <<>>
      /\ Len(<<>>) = 0 /\ <<>> \in Seq(HnswVector)
  BY DEF Hnsw!Init
<1>2. IsGraph(<<>>, 0) /\ DataOfAll(<<>>, 0, 0) /\ Full(<<>>, 0, 0)
      /\ Finds([id \in HnswIds |-> 0], HnswIds, NodeIds(<<>>))
  BY EmptyGraph
<1> QED
  BY <1>1, <1>2 DEF HnswInv

\* Node k has other data.
LEMMA DataReplaced ==
  ASSUME NEW N \in Nat, NEW ns, IsGraph(ns, N), NEW k \in 1..N, NEW data \in Seq(Int)
  PROVE  LET t == [ns EXCEPT ![k].data = data] IN
         /\ IsGraph(t, N) /\ DOMAIN t = DOMAIN ns /\ NodeIds(t) = NodeIds(ns)
         /\ \A c \in 1..N : t[c].data = IF c = k THEN data ELSE ns[c].data
         /\ Full(ns, N, 0) => Full(t, N, 0)
<1> DEFINE t == [ns EXCEPT ![k].data = data]
           node == [ns[k] EXCEPT !.data = data]
<1>1. ns \in Seq(HnswNode) /\ Len(ns) = N /\ DOMAIN ns = 1..N /\ ns \in [1..N -> HnswNode]
      /\ \A c \in 1..N : ns[c] \in HnswNode
  BY LenProperties, ElementOfSeq DEF IsGraph
<1>2. node \in HnswNode /\ node.id = ns[k].id /\ node.data = data /\ node.links = ns[k].links
  <2>1. ns[k] \in HnswNode
    BY <1>1
  <2> QED
    BY <2>1 DEF HnswNode
<1>3. t = [ns EXCEPT ![k] = node]
  OBVIOUS
<1> HIDE DEF node
<1>4. t \in [1..N -> HnswNode] /\ t[k] = node /\ \A c \in 1..N : c # k => t[c] = ns[c]
  BY <1>1, <1>2, <1>3
<1> HIDE DEF t
<1>5. t \in Seq(HnswNode) /\ Len(t) = N /\ DOMAIN t = 1..N
  <2>1. t \in Seq(HnswNode) /\ Len(t) = N
    BY ONLY <1>4, N \in Nat, FunctionIsSeq
  <2> QED
    BY <1>4, <2>1
<1>6. \A c \in 1..N : t[c].id = ns[c].id /\ t[c].links = ns[c].links /\ t[c].data = IF c = k THEN data ELSE ns[c].data
  BY <1>2, <1>4
<1>7. \A c \in 1..N : /\ Hnsw!LayersOf(t, c) = Hnsw!LayersOf(ns, c)
                      /\ \A layer : Hnsw!LinksAt(t, c, layer) = Hnsw!LinksAt(ns, c, layer)
  BY <1>6 DEF Hnsw!LayersOf, Hnsw!LinksAt
<1>8. IsGraph(t, N)
  BY <1>5, <1>7 DEF IsGraph
<1>9. NodeIds(t) = NodeIds(ns)
  BY <1>1, <1>5, <1>6 DEF NodeIds
<1>10. Full(ns, N, 0) => Full(t, N, 0)
  BY <1>7 DEF Full
<1> QED
  BY <1>1, <1>5, <1>6, <1>8, <1>9, <1>10 DEF t

\* The vector that is stored next.
LEMMA HnswHead ==
  ASSUME HnswInv, pending # <<>>
  PROVE  /\ Head(pending).id \in HnswIds /\ Head(pending).dimension \in Nat \ {0} /\ Head(pending).data \in Seq(Int)
         /\ Tail(pending) \in Seq(HnswVector)
<1>1. pending \in Seq(HnswVector)
  BY DEF HnswInv
<1>2. Head(pending) \in HnswVector /\ Tail(pending) \in Seq(HnswVector)
  BY <1>1
<1> QED
  BY <1>2 DEF HnswVector

LEMMA HnswReplaced == HnswInv /\ Hnsw!Replace => HnswInv'
<1> SUFFICES ASSUME HnswInv, Hnsw!Replace PROVE HnswInv'
  OBVIOUS
<1> DEFINE vector == Head(pending)
           N == Len(nodes)
           k == positions[vector.id]
           t == [nodes EXCEPT ![k].data = vector.data]
<1>1. /\ pending # <<>> /\ k # 0 /\ (dims = 0 \/ vector.dimension = dims) /\ Len(vector.data) = vector.dimension
      /\ nodes' = t /\ dims' = vector.dimension /\ pending' = Tail(pending)
      /\ positions' = positions /\ entry_point' = entry_point /\ reply' = reply
  BY DEF Hnsw!Replace, Hnsw!Fits
<1>2. /\ vector.id \in HnswIds /\ vector.dimension \in Nat \ {0} /\ vector.data \in Seq(Int)
      /\ Tail(pending) \in Seq(HnswVector)
  BY <1>1, HnswHead
<1>3. IsGraph(nodes, N) /\ N \in Nat /\ nodes \in Seq(HnswNode)
  BY LenProperties DEF HnswInv, IsGraph
<1>4. k \in 1..N
  <2>1. DOMAIN NodeIds(nodes) = 1..N
    BY <1>3, NodeIdsFacts
  <2> QED
    BY <1>1, <1>2, <2>1 DEF HnswInv, Finds
<1>5. /\ IsGraph(t, N) /\ DOMAIN t = DOMAIN nodes /\ NodeIds(t) = NodeIds(nodes)
      /\ \A c \in 1..N : t[c].data = IF c = k THEN vector.data ELSE nodes[c].data
      /\ Full(nodes, N, 0) => Full(t, N, 0)
  <2> HIDE DEF k, vector
  <2> QED
    BY ONLY <1>2, <1>3, <1>4, DataReplaced
<1> HIDE DEF t
<1>6. Len(t) = N
  BY <1>5 DEF IsGraph
<1>7. nodes # <<>> /\ vector.dimension = dims
  <2>1. nodes # <<>>
    BY <1>4
  <2> QED
    BY <1>1, <2>1 DEF HnswInv
<1>8. DataOfAll(t, N, dims)
  BY <1>1, <1>2, <1>5, <1>7 DEF DataOfAll, DataOf1, HnswInv
<1>9. reply = Hnsw!Busy
  BY <1>1 DEF HnswInv
<1> HIDE DEF vector, k, N
<1>10. HnswInv'
  <2>1. Len(nodes') = N /\ entry_point' = N /\ dims' \in Nat /\ dims' > 0 /\ dims' = dims
    BY <1>1, <1>2, <1>6, <1>7 DEF HnswInv, N
  <2>2. IsGraph(nodes', Len(nodes')) /\ DataOfAll(nodes', Len(nodes'), dims')
    BY <1>1, <1>5, <1>8, <2>1
  <2>3. Finds(positions', HnswIds, NodeIds(nodes'))
    BY <1>1, <1>5 DEF HnswInv
  <2>4. pending' \in Seq(HnswVector) /\ reply' = Hnsw!Busy
    BY <1>1, <1>2, <1>9
  <2>5. StillSmall(Len(nodes')) => Full(nodes', Len(nodes'), 0)
    BY <1>1, <1>5, <2>1 DEF HnswInv, N
  <2> QED
    BY <2>1, <2>2, <2>3, <2>4, <2>5 DEF HnswInv
<1> QED
  BY <1>10

\* The nodes when one more is linked.
LEMMA NodesInserted ==
  ASSUME Scored, HnswInv, Hnsw!Insert
  PROVE  LET vector == Head(pending)
             N == Len(nodes)
         IN /\ IsGraph(nodes', N + 1) /\ DataOfAll(nodes', N + 1, vector.dimension)
            /\ \A c \in 1..N : nodes'[c].id = nodes[c].id /\ nodes'[c].data = nodes[c].data
            /\ nodes'[N + 1].id = vector.id /\ nodes'[N + 1].data = vector.data
            /\ N = 0 \/ Uncut(nodes, N) => Full(nodes', N + 1, 0)
<1> DEFINE vector == Head(pending)
           N == Len(nodes)
           d == vector.dimension
<1>1. /\ pending # <<>> /\ positions[vector.id] = 0
      /\ (dims = 0 \/ d = dims) /\ Len(vector.data) = d
      /\ positions' = [positions EXCEPT ![vector.id] = N + 1] /\ entry_point' = N + 1
      /\ dims' = d /\ pending' = Tail(pending) /\ reply' = reply
  BY DEF Hnsw!Insert, Hnsw!Fits
<1>2. PICK level \in 0..Hnsw!LeastOf(MaxLevel, Len(nodes)) : nodes' = Hnsw!Inserted(vector, level)
  BY DEF Hnsw!Insert
<1>3. /\ vector.id \in HnswIds /\ d \in Nat \ {0} /\ vector.data \in Seq(Int)
      /\ Tail(pending) \in Seq(HnswVector)
  BY <1>1, HnswHead
<1>4. IsGraph(nodes, N) /\ N \in Nat /\ nodes \in Seq(HnswNode) /\ entry_point = N
  BY LenProperties DEF HnswInv, IsGraph
<1>5. level \in Nat
  BY <1>4, HnswAssumptions DEF Hnsw!LeastOf
<1>6. DataOfAll(nodes, N, d)
  <2>1. CASE nodes = <<>>
    <3>1. N = 0 /\ \A c : c \notin 1..0
      BY <2>1
    <3> QED
      BY <3>1 DEF DataOfAll
  <2>2. CASE nodes # <<>>
    <3>1. d = dims
      BY <1>1, <2>2 DEF HnswInv
    <3> QED
      BY <3>1 DEF HnswInv
  <2> QED
    BY <2>1, <2>2
<1> HIDE DEF vector, d, N
<1>7. /\ IsGraph(nodes', N + 1) /\ DataOfAll(nodes', N + 1, d)
      /\ \A c \in 1..N : nodes'[c].id = nodes[c].id /\ nodes'[c].data = nodes[c].data
      /\ nodes'[N + 1].id = vector.id /\ nodes'[N + 1].data = vector.data
      /\ N = 0 \/ Uncut(nodes, N) => Full(nodes', N + 1, 0)
  <2>1. DataOf1(vector.data, d)
    BY <1>1, <1>3 DEF DataOf1
  <2> DEFINE t == Hnsw!Inserted(vector, level)
  <2>2. /\ IsGraph(t, N + 1) /\ DataOfAll(t, N + 1, d)
        /\ \A c \in 1..N : t[c].id = nodes[c].id /\ t[c].data = nodes[c].data
        /\ t[N + 1].id = vector.id /\ t[N + 1].data = vector.data
        /\ N = 0 \/ Uncut(nodes, N) => Full(t, N + 1, 0)
    BY ONLY <1>3, <1>4, <1>5, <1>6, <2>1, Scored, InsertedFacts
  <2>3. nodes' = t
    BY <1>2
  <2> HIDE DEF t
  <2> QED
    BY <2>2, <2>3
<1> QED
  BY <1>7 DEF vector, d, N

LEMMA HnswInserted == Scored /\ HnswInv /\ Hnsw!Insert => HnswInv'
<1> SUFFICES ASSUME Scored, HnswInv, Hnsw!Insert PROVE HnswInv'
  OBVIOUS
<1> DEFINE vector == Head(pending)
           N == Len(nodes)
           d == vector.dimension
           ids == NodeIds(nodes)
<1>1. /\ pending # <<>> /\ positions[vector.id] = 0
      /\ (dims = 0 \/ d = dims) /\ Len(vector.data) = d
      /\ positions' = [positions EXCEPT ![vector.id] = N + 1] /\ entry_point' = N + 1
      /\ dims' = d /\ pending' = Tail(pending) /\ reply' = reply
  BY DEF Hnsw!Insert, Hnsw!Fits
<1>2. /\ vector.id \in HnswIds /\ d \in Nat \ {0} /\ vector.data \in Seq(Int)
      /\ Tail(pending) \in Seq(HnswVector)
  BY <1>1, HnswHead
<1>3. IsGraph(nodes, N) /\ N \in Nat /\ nodes \in Seq(HnswNode) /\ entry_point = N
  BY LenProperties DEF HnswInv, IsGraph
<1>4. /\ IsGraph(nodes', N + 1) /\ DataOfAll(nodes', N + 1, d)
      /\ \A c \in 1..N : nodes'[c].id = nodes[c].id
      /\ nodes'[N + 1].id = vector.id
      /\ N = 0 \/ Uncut(nodes, N) => Full(nodes', N + 1, 0)
  BY NodesInserted
<1> HIDE DEF vector, d, N
<1>5. nodes' \in Seq(HnswNode) /\ Len(nodes') = N + 1
  BY <1>4 DEF IsGraph
<1>6. Finds(positions', HnswIds, NodeIds(nodes'))
  <2>1. /\ ids \in Seq(HnswIds) /\ Len(ids) = N /\ DOMAIN ids = 1..N
        /\ \A i \in 1..N : ids[i] = nodes[i].id
    BY <1>3, NodeIdsFacts DEF N
  <2> DEFINE new == NodeIds(nodes')
             more == Append(ids, vector.id)
  <2>2. /\ new \in Seq(HnswIds) /\ Len(new) = N + 1 /\ DOMAIN new = 1..N + 1
        /\ \A i \in 1..N + 1 : new[i] = nodes'[i].id
    BY <1>5, NodeIdsFacts
  <2>3. Finds(positions, HnswIds, ids)
    BY DEF HnswInv
  <2> HIDE DEF ids, new
  <2>4. /\ more \in Seq(HnswIds) /\ Len(more) = N + 1
        /\ \A i \in 1..N : more[i] = ids[i]
        /\ more[N + 1] = vector.id
        /\ Finds([positions EXCEPT ![vector.id] = N + 1], HnswIds, more)
    <3> DEFINE id == vector.id
    <3>1. id \in HnswIds /\ positions[id] = 0
      BY <1>1, <1>2
    <3> HIDE DEF id
    <3>2. /\ Append(ids, id) \in Seq(HnswIds) /\ Len(Append(ids, id)) = Len(ids) + 1
          /\ \A i \in 1..Len(ids) : Append(ids, id)[i] = ids[i]
          /\ Append(ids, id)[Len(ids) + 1] = id
          /\ Finds([positions EXCEPT ![id] = Len(ids) + 1], HnswIds, Append(ids, id))
      BY ONLY <2>1, <2>3, <3>1, FindsAppended
    <3> QED
      BY <2>1, <3>2 DEF id
  <2> HIDE DEF more
  <2>5. DOMAIN more = 1..N + 1
    BY <2>4, LenProperties
  <2>6. ASSUME NEW i \in 1..N + 1 PROVE new[i] = more[i]
    <3>1. i \in 1..N \/ i = N + 1
      BY <1>3
    <3> QED
      BY <1>4, <2>1, <2>2, <2>4, <3>1
  <2>7. new = more
    <3>1. new = [i \in 1..N + 1 |-> new[i]] /\ more = [i \in 1..N + 1 |-> more[i]]
      BY <2>2, <2>4, <2>5
    <3> QED
      BY <2>6, <3>1
  <2> QED
    BY <1>1, <2>4, <2>7 DEF new
<1>7. StillSmall(N + 1) => Full(nodes', N + 1, 0)
  <2>1. StillSmall(N + 1) => StillSmall(N) /\ N <= 2 * M /\ 2 * M <= EfConstruction
    BY <1>3, HnswAssumptions DEF StillSmall
  <2>2. StillSmall(N) => Full(nodes, N, 0)
    BY DEF HnswInv, N
  <2> QED
    BY <1>4, <2>1, <2>2 DEF Uncut
<1>8. reply = Hnsw!Busy
  BY <1>1 DEF HnswInv
<1> QED
  BY <1>1, <1>2, <1>4, <1>5, <1>6, <1>7, <1>8 DEF HnswInv

LEMMA HnswRejected == HnswInv /\ Hnsw!RejectVector => HnswInv'
<1> SUFFICES ASSUME HnswInv, Hnsw!RejectVector PROVE HnswInv'
  OBVIOUS
<1>1. /\ pending # <<>> /\ dims' = (IF dims = 0 THEN Head(pending).dimension ELSE dims)
      /\ pending' = <<>> /\ nodes' = nodes /\ positions' = positions /\ entry_point' = entry_point
  BY DEF Hnsw!RejectVector
<1>2. Head(pending).dimension \in Nat \ {0}
  BY <1>1, HnswHead
<1>3. DataOfAll(nodes, Len(nodes), dims')
  <2>1. CASE dims = 0
    <3>1. nodes = <<>>
      BY <2>1 DEF HnswInv
    <3>2. Len(nodes) = 0 /\ \A c : c \notin 1..0
      BY <3>1
    <3> QED
      BY <3>2 DEF DataOfAll
  <2>2. CASE dims # 0
    BY <1>1, <2>2 DEF HnswInv
  <2> QED
    BY <2>1, <2>2
<1>4. dims' \in Nat /\ (nodes # <<>> => dims' > 0)
  BY <1>1, <1>2 DEF HnswInv
<1>5. <<>> \in Seq(HnswVector)
  OBVIOUS
<1> QED
  BY <1>1, <1>3, <1>4, <1>5 DEF HnswInv

LEMMA HnswQuiet == HnswInv /\ Hnsw!Idle => pending = <<>>
BY DEF HnswInv, Hnsw!Idle

LEMMA HnswCleared == HnswInv /\ Hnsw!Clear => HnswInv'
<1> SUFFICES ASSUME HnswInv, Hnsw!Clear PROVE HnswInv'
  OBVIOUS
<1>1. /\ nodes' = <<>> /\ positions' = [id \in HnswIds |-> 0] /\ dims' = 0 /\ entry_point' = 0
      /\ pending' = pending /\ pending = <<>>
      /\ Len(<<>>) = 0 /\ <<>> \in Seq(HnswVector)
  BY HnswQuiet DEF Hnsw!Clear
<1>2. IsGraph(<<>>, 0) /\ DataOfAll(<<>>, 0, 0) /\ Full(<<>>, 0, 0)
      /\ Finds([id \in HnswIds |-> 0], HnswIds, NodeIds(<<>>))
  BY EmptyGraph
<1> QED
  BY <1>1, <1>2 DEF HnswInv

LEMMA HnswReopened == HnswInv /\ Hnsw!Reopen => HnswInv' /\ positions' = positions
<1> SUFFICES ASSUME HnswInv, Hnsw!Reopen PROVE HnswInv' /\ positions' = positions
  OBVIOUS
<1> DEFINE N == Len(nodes)
           ids == NodeIds(nodes)
           ix == [id \in HnswIds |-> IF \E n \in DOMAIN nodes : nodes[n].id = id
                                     THEN CHOOSE n \in DOMAIN nodes : nodes[n].id = id ELSE 0]
<1>1. /\ positions' = ix /\ nodes' = nodes /\ dims' = dims /\ entry_point' = entry_point
      /\ pending' = pending /\ pending = <<>>
  BY HnswQuiet DEF Hnsw!Reopen
<1>2. nodes \in Seq(HnswNode) /\ DOMAIN nodes = 1..N
  BY LenProperties DEF HnswInv, IsGraph
<1>3. ids \in Seq(HnswIds) /\ DOMAIN ids = 1..N /\ \A i \in 1..N : ids[i] = nodes[i].id
  BY <1>2, NodeIdsFacts
<1>4. Finds(positions, HnswIds, ids) /\ Once(ids)
  BY FindsOnce DEF HnswInv
<1> HIDE DEF ids, N
<1>5. /\ \A id \in HnswIds : (\A i \in DOMAIN ids : ids[i] # id) => ix[id] = 0
      /\ \A id \in HnswIds : (\E i \in DOMAIN ids : ids[i] = id) => ix[id] \in DOMAIN ids /\ ids[ix[id]] = id
  BY <1>2, <1>3
<1>6. ix = [id \in HnswIds |-> ix[id]]
  OBVIOUS
<1> HIDE DEF ix
<1>7. Finds(ix, HnswIds, ids)
  BY ONLY <1>3, <1>4, <1>5, <1>6, FindsRebuilt
<1>8. ix = positions
  BY ONLY <1>4, <1>7, FindsUnique
<1> QED
  BY <1>1, <1>8 DEF HnswInv

LEMMA HnswInvNext == Scored /\ HnswInv /\ [Hnsw!Next]_(Hnsw!vars) => HnswInv'
<1> SUFFICES ASSUME Scored, HnswInv, [Hnsw!Next]_(Hnsw!vars) PROVE HnswInv'
  OBVIOUS
<1>1. CASE UNCHANGED <<nodes, positions, dims, entry_point>> /\ pending' = <<>>
  <2>1. <<>> \in Seq(HnswVector)
    OBVIOUS
  <2> QED
    BY <1>1, <2>1 DEF HnswInv
<1>2. ASSUME NEW batch \in HnswBatches, Hnsw!BeginAdd(batch) PROVE HnswInv'
  <2>1. batch \in Seq(HnswVector)
    BY HnswAssumptions
  <2>2. /\ pending' = batch /\ reply' = Hnsw!Busy
        /\ UNCHANGED <<nodes, positions, dims, entry_point>>
    BY <1>2 DEF Hnsw!BeginAdd
  <2> QED
    BY <2>1, <2>2 DEF HnswInv, Hnsw!Busy, Hnsw!Answer
<1>3. CASE Hnsw!Replace
  BY <1>3, HnswReplaced
<1>4. CASE Hnsw!Insert
  BY <1>4, HnswInserted
<1>5. CASE Hnsw!RejectVector
  BY <1>5, HnswRejected
<1>6. CASE Hnsw!EndAdd
  BY <1>1, <1>6 DEF Hnsw!EndAdd
<1>7. CASE Hnsw!Clear
  BY <1>7, HnswCleared
<1>8. ASSUME NEW id \in HnswIds, Hnsw!Find(id) PROVE HnswInv'
  BY <1>1, <1>8, HnswQuiet DEF Hnsw!Find
<1>9. ASSUME NEW q \in Queries, Hnsw!Search(q) PROVE HnswInv'
  BY <1>1, <1>9, HnswQuiet DEF Hnsw!Search
<1>10. CASE Hnsw!Reopen
  BY <1>10, HnswReopened
<1>11. CASE UNCHANGED Hnsw!vars
  BY <1>11 DEF Hnsw!vars, HnswInv
<1> QED
  BY <1>2, <1>3, <1>4, <1>5, <1>6, <1>7, <1>8, <1>9, <1>10, <1>11 DEF Hnsw!Next

LEMMA HnswInvImplies == HnswInv => Hnsw!GraphIsSound
<1> SUFFICES ASSUME HnswInv PROVE Hnsw!GraphIsSound
  OBVIOUS
<1> DEFINE N == Len(nodes)
<1>1. nodes \in Seq(HnswNode) /\ N \in Nat /\ DOMAIN nodes = 1..N /\ entry_point = N
  BY LenProperties DEF HnswInv, IsGraph
<1>2. (entry_point = 0) <=> (nodes = <<>>)
  BY <1>1
<1>3. entry_point \in 0..N
  BY <1>1
<1>4. ASSUME NEW n \in 1..N, NEW layer \in 0..Hnsw!LayersOf(nodes, n) - 1
      PROVE  LET list == Hnsw!LinksAt(nodes, n, layer) IN
             /\ Hnsw!Range(list) \subseteq (1..N) \ {n}
             /\ Hnsw!IsInjective(list)
             /\ Len(list) <= Hnsw!MaxLinks(layer)
  <2> DEFINE list == Hnsw!LinksAt(nodes, n, layer)
  <2>1. layer \in Nat
    OBVIOUS
  <2>2. IsList(list, N, n, layer)
    BY <2>1 DEF HnswInv, IsGraph
  <2> HIDE DEF list
  <2>3. /\ list \in Seq(1..N) /\ DOMAIN list = 1..Len(list) /\ Once(list) /\ ~Reaches(list, n)
        /\ Len(list) <= Hnsw!MaxLinks(layer)
    BY <2>2, LenProperties DEF IsList
  <2>4. \A i \in DOMAIN list : list[i] \in 1..N /\ list[i] # n
    BY <2>3, ElementOfSeq DEF Reaches
  <2>5. Hnsw!Range(list) \subseteq (1..N) \ {n}
    BY <2>4 DEF Hnsw!Range
  <2>6. Hnsw!IsInjective(list)
    BY <2>3 DEF Hnsw!IsInjective, Once
  <2> QED
    BY <2>3, <2>5, <2>6 DEF list
<1> QED
  BY <1>1, <1>2, <1>3, <1>4 DEF Hnsw!GraphIsSound

LEMMA HnswSteps ==
  StoresNext \/ UNCHANGED storesVars =>
    part' = part /\ (part = "hnsw" => [Hnsw!Next]_(Hnsw!vars))
BY DEF StoresNext, storesVars, otherVars, Hnsw!vars

LEMMA HnswInvariant ==
  ASSUME Scored
  PROVE  StoresSpec => [](part = "hnsw" => HnswInv)
<1>1. StoresInit => (part = "hnsw" => HnswInv)
  BY HnswInvInit DEF StoresInit
<1>2. (part = "hnsw" => HnswInv) /\ [StoresNext]_storesVars => (part = "hnsw" => HnswInv)'
  BY HnswInvNext, HnswSteps, Scored
<1> QED
  BY <1>1, <1>2, PTL DEF StoresSpec

----------------------------------------------------------------------------
(* HnswVectorStore implements VectorMap while no link was cut *)

\* What search compares are numbers.
Searchable ==
  Scored /\ \A q \in Queries : q.data \in Seq(Int) /\ q.top_k \in Nat /\ q.min_score \in Int

\* What the refinement mapping substitutes: the store is saved as it is, not as a map.
HnswContent == [id \in HnswIds |-> IF positions[id] # 0 THEN nodes[positions[id]].data ELSE Absent]
HnswFile == [readable |-> FALSE, dimension |-> 0, content |-> [id \in HnswIds |-> Absent]]

LEMMA HnswMappedVars ==
  /\ Hnsw!Map!vars = <<HnswContent, dims, pending, reply, HnswFile>>
  /\ Hnsw!Map!Idle <=> reply # Hnsw!Busy
  /\ Hnsw!Map!Stored = {id \in HnswIds : HnswContent[id] # Absent}
  /\ Hnsw!Map!Ok = Hnsw!Ok /\ Hnsw!Map!Err = Hnsw!Err /\ Hnsw!Map!Busy = Hnsw!Busy
BY DEF Hnsw!Map!vars, Hnsw!Map!Idle, Hnsw!Map!Busy, Hnsw!Map!Answer, Hnsw!Map!Stored,
       HnswContent, HnswFile, Hnsw!Busy, Hnsw!Answer, Hnsw!Map!Ok, Hnsw!Ok, Hnsw!Map!Err, Hnsw!Err

LEMMA SameHnswMapCount == \A S : Hnsw!Map!Cardinality(S) = Cardinality(S)
BY Zenon DEF Hnsw!Map!Cardinality, Cardinality

\* The stored ids are those of the nodes.
LEMMA HnswStored ==
  ASSUME HnswInv
  PROVE  /\ \A id \in HnswIds : id \in Hnsw!Map!Stored <=> positions[id] # 0
         /\ \A c \in 1..Len(nodes) :
              /\ nodes[c].id \in Hnsw!Map!Stored /\ HnswContent[nodes[c].id] = nodes[c].data
              /\ nodes[c].id \in HnswIds /\ positions[nodes[c].id] = c
         /\ \A id \in Hnsw!Map!Stored :
              /\ id \in HnswIds /\ Len(HnswContent[id]) = dims
              /\ positions[id] \in 1..Len(nodes) /\ nodes[positions[id]].id = id
<1> DEFINE N == Len(nodes)
           ids == NodeIds(nodes)
<1>1. nodes \in Seq(HnswNode) /\ N \in Nat
  BY LenProperties DEF HnswInv, IsGraph
<1>2. /\ ids \in Seq(HnswIds) /\ DOMAIN ids = 1..N
      /\ \A c \in 1..N : ids[c] = nodes[c].id
  BY <1>1, NodeIdsFacts
<1>3. Finds(positions, HnswIds, ids)
  BY DEF HnswInv
<1> HIDE DEF ids
<1>4. \A c \in 1..N : nodes[c].id \in HnswIds /\ positions[nodes[c].id] = c
  <2>1. \A c \in 1..N : ids[c] \in HnswIds
    BY <1>2, ElementOfSeq, LenProperties
  <2> QED
    BY <1>2, <1>3, <2>1 DEF Finds
<1>5. \A id \in HnswIds : positions[id] # 0 => positions[id] \in 1..N /\ nodes[positions[id]].id = id
  BY <1>2, <1>3 DEF Finds
<1>6. \A c \in 1..N : nodes[c].data \in Seq(Int) /\ Len(nodes[c].data) = dims
  BY DEF HnswInv, DataOfAll, DataOf1
<1>7. \A id \in HnswIds : HnswContent[id] = IF positions[id] # 0 THEN nodes[positions[id]].data ELSE Absent
  BY DEF HnswContent
<1> HIDE DEF N
<1>8. \A id \in HnswIds : positions[id] # 0 => HnswContent[id] # Absent /\ Len(HnswContent[id]) = dims
  BY <1>5, <1>6, <1>7, HnswAssumptions
<1>9. \A id \in HnswIds : HnswContent[id] # Absent <=> positions[id] # 0
  BY <1>7, <1>8
<1>10. \A id : id \in Hnsw!Map!Stored <=> id \in HnswIds /\ HnswContent[id] # Absent
  BY HnswMappedVars
<1>11. \A c \in 1..N : c # 0
  BY <1>1
<1> QED
  BY <1>4, <1>5, <1>7, <1>8, <1>9, <1>10, <1>11 DEF N

LEMMA HnswRefinesInit == Hnsw!Init => Hnsw!Map!Init
<1> SUFFICES ASSUME Hnsw!Init PROVE Hnsw!Map!Init
  OBVIOUS
<1>1. HnswContent = [id \in HnswIds |-> Absent]
  BY DEF HnswContent, Hnsw!Init
<1>2. Hnsw!Map!NoFile = HnswFile
  BY DEF Hnsw!Map!NoFile, HnswFile
<1> QED
  BY <1>1, <1>2, HnswMappedVars DEF Hnsw!Init, Hnsw!Map!Init, HnswContent, HnswFile

\* A vector that fits is stored, as a new node or in place of an old one.
LEMMA HnswUpserted ==
  ASSUME pending # <<>>, Hnsw!Fits(Head(pending)), dims' = Head(pending).dimension,
         pending' = Tail(pending), reply' = reply,
         \A id \in HnswIds : HnswContent'[id] = IF id = Head(pending).id THEN Head(pending).data ELSE HnswContent[id]
  PROVE  Hnsw!Map!Upsert
<1> DEFINE v == Head(pending)
<1>1. HnswContent' = [id \in HnswIds |-> HnswContent'[id]] /\ HnswContent = [id \in HnswIds |-> HnswContent[id]]
  BY DEF HnswContent
<1>2. UNCHANGED HnswFile
  BY DEF HnswFile
<1>3. HnswContent' = [HnswContent EXCEPT ![v.id] = v.data]
  <2> HIDE DEF v
  <2>1. \A id \in HnswIds : HnswContent'[id] = IF id = v.id THEN v.data ELSE HnswContent[id]
    BY DEF v
  <2> QED
    BY <1>1, <2>1
<1>4. v.dimension = Len(v.data) /\ dims \in {0, v.dimension}
  BY DEF Hnsw!Fits
<1> QED
  BY <1>2, <1>3, <1>4 DEF Hnsw!Map!Upsert, HnswContent, HnswFile

LEMMA HnswRefinesReplace ==
  ASSUME HnswInv, Hnsw!Replace
  PROVE  Hnsw!Map!Upsert
<1> DEFINE vector == Head(pending)
           N == Len(nodes)
           k == positions[vector.id]
           t == [nodes EXCEPT ![k].data = vector.data]
<1>1. /\ pending # <<>> /\ k # 0 /\ Hnsw!Fits(vector)
      /\ nodes' = t /\ dims' = vector.dimension /\ pending' = Tail(pending)
      /\ positions' = positions /\ reply' = reply
  BY DEF Hnsw!Replace
<1>2. vector.id \in HnswIds /\ vector.data \in Seq(Int)
  BY <1>1, HnswHead
<1>3. IsGraph(nodes, N) /\ N \in Nat
  BY LenProperties DEF HnswInv, IsGraph
<1>4. \A id \in HnswIds : positions[id] # 0 => positions[id] \in 1..N /\ nodes[positions[id]].id = id
  BY HnswStored
<1>5. k \in 1..N /\ nodes[k].id = vector.id
  BY <1>1, <1>2, <1>4
<1>6. \A c \in 1..N : t[c].data = IF c = k THEN vector.data ELSE nodes[c].data
  <2> HIDE DEF k, vector
  <2> QED
    BY ONLY <1>2, <1>3, <1>5, DataReplaced
<1> HIDE DEF t, k, N, vector
<1>7. ASSUME NEW id \in HnswIds
      PROVE  HnswContent'[id] = IF id = vector.id THEN vector.data ELSE HnswContent[id]
  <2>1. HnswContent'[id] = IF positions[id] # 0 THEN t[positions[id]].data ELSE Absent
    BY <1>1 DEF HnswContent
  <2>2. HnswContent[id] = IF positions[id] # 0 THEN nodes[positions[id]].data ELSE Absent
    BY DEF HnswContent
  <2>3. positions[id] = k <=> id = vector.id
    BY <1>1, <1>4, <1>5 DEF k
  <2> QED
    BY <1>1, <1>4, <1>6, <2>1, <2>2, <2>3
<1> QED
  BY <1>1, <1>7, HnswUpserted DEF vector

LEMMA HnswRefinesInsert ==
  ASSUME Scored, HnswInv, Hnsw!Insert
  PROVE  Hnsw!Map!Upsert
<1> DEFINE vector == Head(pending)
           N == Len(nodes)
<1>1. /\ pending # <<>> /\ positions[vector.id] = 0 /\ Hnsw!Fits(vector)
      /\ positions' = [positions EXCEPT ![vector.id] = N + 1]
      /\ dims' = vector.dimension /\ pending' = Tail(pending) /\ reply' = reply
  BY DEF Hnsw!Insert
<1>2. vector.id \in HnswIds
  BY <1>1, HnswHead
<1>3. N \in Nat /\ positions \in [HnswIds -> Nat]
  BY LenProperties DEF HnswInv, IsGraph, Finds
<1>4. \A id \in HnswIds : positions[id] # 0 => positions[id] \in 1..N
  BY HnswStored
<1>5. (\A c \in 1..N : nodes'[c].data = nodes[c].data) /\ nodes'[N + 1].data = vector.data
  BY NodesInserted
<1> HIDE DEF vector, N
<1>6. ASSUME NEW id \in HnswIds
      PROVE  HnswContent'[id] = IF id = vector.id THEN vector.data ELSE HnswContent[id]
  <2>1. HnswContent'[id] = IF positions'[id] # 0 THEN nodes'[positions'[id]].data ELSE Absent
    BY DEF HnswContent
  <2>2. HnswContent[id] = IF positions[id] # 0 THEN nodes[positions[id]].data ELSE Absent
    BY DEF HnswContent
  <2>3. positions'[id] = IF id = vector.id THEN N + 1 ELSE positions[id]
    BY <1>1, <1>3
  <2> QED
    BY <1>3, <1>4, <1>5, <2>1, <2>2, <2>3
<1> QED
  BY <1>1, <1>6, HnswUpserted DEF vector

\* A call that changes no vector.
LEMMA HnswSameContent ==
  ASSUME UNCHANGED <<nodes, positions>>
  PROVE  UNCHANGED <<HnswContent, HnswFile>>
BY DEF HnswContent, HnswFile

LEMMA HnswRefinesClear ==
  ASSUME Hnsw!Clear
  PROVE  Hnsw!Map!Clear
<1>1. HnswContent' = [id \in HnswIds |-> Absent]
  BY DEF HnswContent, Hnsw!Clear
<1>2. UNCHANGED HnswFile
  BY DEF HnswFile
<1> QED
  BY <1>1, <1>2, HnswMappedVars DEF Hnsw!Clear, Hnsw!Idle, Hnsw!Map!Clear, HnswContent, HnswFile

LEMMA HnswRefinesFind ==
  ASSUME HnswInv, NEW id \in HnswIds, Hnsw!Find(id)
  PROVE  Hnsw!Map!Find(id)
<1>1. UNCHANGED <<HnswContent, HnswFile, dims, pending>> /\ reply # Hnsw!Busy
  BY HnswSameContent DEF Hnsw!Find, Hnsw!Idle
<1>2. positions[id] # 0 <=> id \in Hnsw!Map!Stored
  BY HnswStored
<1>3. positions[id] # 0 => nodes[positions[id]].data = HnswContent[id]
  BY DEF HnswContent
<1>4. reply' = IF id \in Hnsw!Map!Stored THEN Hnsw!Answer("found", 0, HnswContent[id], <<>>)
                                         ELSE Hnsw!Answer("none", 0, <<>>, <<>>)
  BY <1>2, <1>3 DEF Hnsw!Find
<1> QED
  BY <1>1, <1>4, HnswMappedVars
  DEF Hnsw!Map!Find, Hnsw!Map!Answer, Hnsw!Answer, HnswContent, HnswFile

\* The nodes found that score enough.
HnswEnough(q, found) == {i \in DOMAIN found : Score(q.data, nodes[found[i]].data) >= q.min_score}

LEMMA SearchableMeansComparable == Searchable => Comparable
BY DEF Searchable, Scored, Comparable

\* A search reads its results off what the walk through layer 0 found.
LEMMA HnswFound ==
  ASSUME Searchable, HnswInv, NEW q \in Queries, Len(q.data) = dims, nodes # <<>>
  PROVE  \E found, width :
           /\ width \in Nat /\ width >= q.top_k /\ IsFound(nodes, q.data, width, Len(nodes), 0, found)
           /\ Hnsw!Results(q) = [i \in 1..Hnsw!LeastOf(q.top_k, Cardinality(HnswEnough(q, found))) |->
                                   nodes[found[i]].id]
<1> DEFINE N == Len(nodes)
           data == q.data
           from == Hnsw!LayersOf(nodes, entry_point) - 1
           start == Hnsw!Descend(nodes, data, entry_point, from, 1)
           width == IF EfSearch > q.top_k THEN EfSearch ELSE q.top_k
           found == Hnsw!SearchLayer(nodes, data, start, width, 0)
           enough == {i \in DOMAIN found : Score(data, nodes[found[i]].data) >= q.min_score}
<1>1. Hnsw!Results(q) = [i \in 1..Hnsw!LeastOf(q.top_k, Hnsw!Cardinality(enough)) |-> nodes[found[i]].id]
  BY DEF Hnsw!Results
<1>2. enough = HnswEnough(q, found) /\ Hnsw!Cardinality(enough) = Cardinality(enough)
  BY HnswSameCount DEF HnswEnough
<1>3. Scored /\ data \in Seq(Int) /\ q.top_k \in Nat
  BY DEF Searchable
<1>4. width \in Nat /\ width >= 1 /\ width >= q.top_k
  BY <1>3, HnswAssumptions
<1> HIDE DEF width
<1>5. nodes \in Seq(HnswNode) /\ N \in Nat /\ entry_point \in 1..N /\ DataOfAll(nodes, N, dims)
  BY LenProperties DEF HnswInv, IsGraph
<1>6. DataOf1(data, dims)
  BY <1>3 DEF DataOf1
<1>7. \A layer \in Nat : LinksIn(nodes, N, layer)
  BY DEF HnswInv, IsGraph, IsList, LinksIn
<1>8. from \in Nat
  <2>1. nodes[entry_point] \in HnswNode
    BY <1>5, ElementOfSeq
  <2>2. Hnsw!LayersOf(nodes, entry_point) \in Nat /\ Hnsw!LayersOf(nodes, entry_point) >= 1
    BY <1>5, <2>1, LenProperties DEF HnswInv, IsGraph, HnswNode, Hnsw!LayersOf
  <2> QED
    BY <2>2
<1> HIDE DEF from, data
<1>9. start \in 1..N
  <2>1. 1 \in Nat /\ Len(nodes) = N
    OBVIOUS
  <2> HIDE DEF N
  <2> QED
    BY ONLY <1>3, <1>5, <1>6, <1>7, <1>8, <2>1, DescendFacts
<1>10. IsFound(nodes, data, width, N, 0, found)
  <2>1. LinksIn(nodes, N, 0) /\ Len(nodes) = N
    BY <1>7
  <2> HIDE DEF N, start
  <2> QED
    BY ONLY <1>3, <1>4, <1>5, <1>6, <1>9, <2>1, SearchLayerFacts
<1> HIDE DEF found
<1> QED
  BY <1>1, <1>2, <1>4, <1>10 DEF data, N

\* While all nodes know each other, what search returns is the ranking that the
\* map promises: the walk visits every node.
LEMMA HnswRanking ==
  ASSUME Searchable, HnswInv, NEW q \in Queries, Len(q.data) = dims, nodes # <<>>, StillSmall(Len(nodes))
  PROVE  Hnsw!Map!IsRanking(q, Hnsw!Results(q))
<1> DEFINE N == Len(nodes)
           ids == Hnsw!Results(q)
           of(c) == Score(q.data, nodes[c].data)
           worth == [id \in HnswIds |-> Score(q.data, HnswContent[id])]
           enough == {id \in Hnsw!Map!Stored : worth[id] >= q.min_score}
           chosen == {ids[n] : n \in DOMAIN ids}
<1>1. PICK found, width :
        /\ width \in Nat /\ width >= q.top_k /\ IsFound(nodes, q.data, width, N, 0, found)
        /\ ids = [i \in 1..Hnsw!LeastOf(q.top_k, Cardinality(HnswEnough(q, found))) |-> nodes[found[i]].id]
  BY HnswFound
<1> DEFINE L == Len(found)
           E == HnswEnough(q, found)
           e == Cardinality(E)
           size == Hnsw!LeastOf(q.top_k, e)
<1>2. q.top_k \in Nat /\ q.min_score \in Int /\ q.data \in Seq(Int) /\ Scored
  BY DEF Searchable
<1>3. /\ found \in Seq(1..N) /\ Once(found) /\ L \in Nat /\ DOMAIN found = 1..L
      /\ \A i \in 1..L : found[i] \in 1..N
      /\ \A i, j \in 1..L : i < j => of(found[i]) >= of(found[j])
  BY <1>1, LenProperties, ElementOfSeq DEF IsFound
<1>4. \A c \in 1..N : of(c) \in Int
  BY <1>2, ScoreIsInt DEF HnswInv, DataOfAll, DataOf1
<1>5. \A c \in 1..N : Reaches(found, c) \/ (L = width /\ \A i \in 1..L : of(found[i]) >= of(c))
  <2>1. Full(nodes, N, 0)
    BY DEF HnswInv
  <2> QED
    BY <1>1, <2>1 DEF IsFound
<1>6. \A i \in 1..L : i \in E <=> of(found[i]) >= q.min_score
  BY <1>3 DEF HnswEnough
<1>7. \A c \in 1..N : /\ nodes[c].id \in Hnsw!Map!Stored /\ nodes[c].id \in HnswIds
                      /\ worth[nodes[c].id] = of(c) /\ positions[nodes[c].id] = c
  BY HnswStored
<1>8. \A id \in Hnsw!Map!Stored : id \in HnswIds /\ positions[id] \in 1..N /\ nodes[positions[id]].id = id
  BY HnswStored
<1> HIDE DEF of, worth, N, L
<1>9. e \in 0..L /\ E = 1..e
  <2>1. E \subseteq 1..L
    BY <1>3 DEF HnswEnough
  <2>2. ASSUME NEW i \in 1..L, NEW j \in 1..L, i < j, j \in E PROVE i \in E
    <3>1. of(found[i]) \in Int /\ of(found[j]) \in Int /\ of(found[i]) >= of(found[j]) /\ of(found[j]) >= q.min_score
      BY <1>3, <1>4, <1>6, <2>2
    <3>2. of(found[i]) >= q.min_score
      BY <1>2, <3>1
    <3> QED
      BY <1>6, <3>2
  <2> HIDE DEF E
  <2> QED
    BY ONLY <1>3, <2>1, <2>2, PrefixCounted
<1>10. size \in Nat /\ size <= e /\ size <= q.top_k /\ (size = q.top_k \/ size = e)
  BY <1>2, <1>9 DEF Hnsw!LeastOf
<1>11. ids = [i \in 1..size |-> nodes[found[i]].id]
  BY <1>1
<1> HIDE DEF ids, E, e, size
<1>12. \A n \in 1..size : n \in 1..L /\ n \in E /\ ids[n] = nodes[found[n]].id /\ found[n] \in 1..N
  BY <1>3, <1>9, <1>10, <1>11
<1>13. ids \in [1..size -> HnswIds]
  <2>1. \A n \in 1..size : ids[n] \in HnswIds
    BY <1>7, <1>12
  <2> QED
    BY <1>11, <2>1
<1>14. \A i, j \in 1..size : ids[i] = ids[j] => i = j
  <2> SUFFICES ASSUME NEW i \in 1..size, NEW j \in 1..size, ids[i] = ids[j] PROVE i = j
    OBVIOUS
  <2>1. found[i] = found[j]
    BY <1>7, <1>12
  <2> QED
    BY <1>3, <1>12, <2>1 DEF Once
<1>15. \A n \in 1..size : worth[ids[n]] = of(found[n])
  BY <1>7, <1>12
<1>16. \A n \in 1..size : ids[n] \in enough
  <2> SUFFICES ASSUME NEW n \in 1..size PROVE ids[n] \in enough
    OBVIOUS
  <2>1. worth[ids[n]] >= q.min_score
    BY <1>6, <1>12, <1>15
  <2> QED
    BY <1>7, <1>12, <2>1
<1>17. \A i, j \in 1..size : i < j => worth[ids[i]] >= worth[ids[j]]
  BY <1>3, <1>12, <1>15
<1>18. ASSUME NEW id \in enough, \A n \in 1..size : ids[n] # id
       PROVE  size = q.top_k /\ \A n \in 1..size : worth[ids[n]] >= worth[id]
  <2> DEFINE c == positions[id]
  <2>1. c \in 1..N /\ nodes[c].id = id /\ worth[id] = of(c) /\ of(c) >= q.min_score
    BY <1>7, <1>8
  <2> HIDE DEF c
  <2>2. CASE Reaches(found, c)
    <3>1. PICK j \in 1..L : found[j] = c
      BY <2>2 DEF Reaches, L
    <3>2. j \in E
      BY <1>6, <2>1, <3>1
    <3>3. j \notin 1..size
      BY <1>12, <1>18, <2>1, <3>1
    <3>4. size < j /\ j <= e
      BY <1>3, <1>9, <1>10, <3>2, <3>3
    <3>5. ASSUME NEW n \in 1..size PROVE worth[ids[n]] >= worth[id]
      <4>1. n \in 1..L /\ n < j
        BY <1>12, <1>3, <1>10, <3>4
      <4> QED
        BY <1>3, <1>15, <2>1, <3>1, <4>1
    <3> QED
      BY <1>9, <1>10, <3>4, <3>5
  <2>3. CASE L = width /\ \A i \in 1..L : of(found[i]) >= of(c)
    <3>1. ASSUME NEW i \in 1..L PROVE i \in E
      <4>1. of(found[i]) \in Int /\ of(c) \in Int /\ of(found[i]) >= of(c)
        BY <1>3, <1>4, <2>1, <2>3
      <4>2. of(found[i]) >= q.min_score
        BY <1>2, <2>1, <4>1
      <4> QED
        BY <1>6, <4>2
    <3>2. e = L
      <4>1. L = 0 \/ L \in 1..L
        BY <1>3
      <4>2. L = 0 \/ L \in E
        BY <3>1, <4>1
      <4> QED
        BY <1>3, <1>9, <4>2
    <3>3. size = q.top_k
      BY <1>1, <1>2, <1>10, <2>3, <3>2, <1>3
    <3> QED
      BY <1>12, <1>15, <2>1, <2>3, <3>3
  <2> QED
    BY <1>5, <2>1, <2>2, <2>3
<1>19. IsBest(ids, enough, worth, q.top_k)
  <2> DEFINE k == q.top_k
             I == HnswIds
  <2>1. /\ size \in Nat /\ k \in Nat /\ size <= k /\ ids \in [1..size -> I]
        /\ \A i, j \in 1..size : ids[i] = ids[j] => i = j
    BY <1>2, <1>10, <1>13, <1>14
  <2>2. /\ \A n \in 1..size : ids[n] \in enough
        /\ \A i, j \in 1..size : i < j => worth[ids[i]] >= worth[ids[j]]
    BY <1>16, <1>17
  <2> HIDE DEF enough
  <2>3. NoneBetter(ids, size, enough, worth, k)
    BY <1>18 DEF NoneBetter
  <2> HIDE DEF k, I
  <2>4. IsBest(ids, enough, worth, k)
    BY ONLY <2>1, <2>2, <2>3, SortedIsBest
  <2> QED
    BY <2>4 DEF k
<1>20. \A id \in Hnsw!Map!Stored : worth[id] = Score(q.data, HnswContent[id])
  BY <1>8 DEF worth
<1>21. Hnsw!Map!IsRanking(q, ids) <=>
         LET score(id) == Score(q.data, HnswContent[id])
             fit == {id \in Hnsw!Map!Stored : score(id) >= q.min_score}
         IN /\ chosen \subseteq fit
            /\ Cardinality(chosen) = Len(ids)
            /\ Len(ids) = q.top_k \/ (Len(ids) < q.top_k /\ chosen = fit)
            /\ \A i, j \in DOMAIN ids : i < j => score(ids[i]) >= score(ids[j])
            /\ \A id \in fit \ chosen : \A i \in DOMAIN ids : score(ids[i]) >= score(id)
  BY SameHnswMapCount DEF Hnsw!Map!IsRanking, HnswContent
<1>22. enough = {id \in Hnsw!Map!Stored : Score(q.data, HnswContent[id]) >= q.min_score}
  BY <1>20
<1>23. \A i \in DOMAIN ids : ids[i] \in enough
  BY <1>19 DEF IsBest
<1> HIDE DEF enough, chosen
<1>24. enough \subseteq Hnsw!Map!Stored
  BY <1>22
<1> QED
  BY <1>19, <1>20, <1>21, <1>22, <1>23, <1>24 DEF ids, chosen, IsBest

LEMMA HnswRefinesSearch ==
  ASSUME Searchable, HnswInv, StillSmall(Len(nodes)), NEW q \in Queries, Hnsw!Search(q)
  PROVE  Hnsw!Map!Search(q)
<1> DEFINE none == Hnsw!Map!Stored = {} \/ q.top_k = 0
<1>1. UNCHANGED <<HnswContent, HnswFile, dims, pending>> /\ reply # Hnsw!Busy
  BY HnswSameContent DEF Hnsw!Search, Hnsw!Idle
<1>2. nodes = <<>> <=> Hnsw!Map!Stored = {}
  <2>1. nodes \in Seq(HnswNode) /\ Len(nodes) \in Nat
    BY LenProperties DEF HnswInv, IsGraph
  <2>2. nodes = <<>> => Hnsw!Map!Stored = {}
    <3>1. nodes = <<>> => \A c : c \notin 1..Len(nodes)
      OBVIOUS
    <3> QED
      BY <3>1, HnswStored
  <2>3. nodes # <<>> => 1 \in 1..Len(nodes)
    BY <2>1
  <2> QED
    BY <2>2, <2>3, HnswStored
<1>3. \/ none /\ reply' = Hnsw!Answer("ranked", 0, <<>>, <<>>)
      \/ ~none /\ Len(q.data) # dims /\ reply' = Hnsw!Err
      \/ ~none /\ Len(q.data) = dims /\ Hnsw!IsZero(q.data) /\ reply' = Hnsw!Answer("ranked", 0, <<>>, <<>>)
      \/ /\ ~none /\ Len(q.data) = dims /\ ~Hnsw!IsZero(q.data)
         /\ reply' = Hnsw!Answer("ranked", 0, <<>>, Hnsw!Results(q))
  BY <1>2 DEF Hnsw!Search
<1>4. Hnsw!Answer("ranked", 0, <<>>, Hnsw!Results(q)).ids = Hnsw!Results(q)
  BY DEF Hnsw!Answer
<1>5. ~none /\ Len(q.data) = dims => Hnsw!Map!IsRanking(q, Hnsw!Results(q))
  BY <1>2, HnswRanking
<1>6. Hnsw!Map!Search(q) <=>
        /\ Hnsw!Map!Idle
        /\ IF none
           THEN reply' = Hnsw!Answer("ranked", 0, <<>>, <<>>)
           ELSE IF Len(q.data) # dims
           THEN reply' = Hnsw!Map!Err
           ELSE IF Hnsw!IsZero(q.data)
           THEN reply' = Hnsw!Answer("ranked", 0, <<>>, <<>>)
           ELSE /\ reply' = Hnsw!Answer("ranked", 0, <<>>, reply'.ids)
                /\ Hnsw!Map!IsRanking(q, reply'.ids)
        /\ UNCHANGED <<HnswContent, dims, pending, HnswFile>>
  BY DEF Hnsw!Map!Search, Hnsw!Map!Answer, Hnsw!Answer, Hnsw!Map!IsZero, Hnsw!IsZero, HnswContent, HnswFile
<1> HIDE DEF none
<1> QED
  BY <1>1, <1>3, <1>4, <1>5, <1>6, HnswMappedVars

LEMMA HnswRefines ==
  Searchable /\ HnswInv /\ StillSmall(Len(nodes)) /\ [Hnsw!Next]_(Hnsw!vars)
    => [Hnsw!Map!Next]_(Hnsw!Map!vars)
<1> SUFFICES ASSUME Searchable, HnswInv, StillSmall(Len(nodes)), [Hnsw!Next]_(Hnsw!vars)
             PROVE  [Hnsw!Map!Next]_(Hnsw!Map!vars)
  OBVIOUS
<1>1. ASSUME NEW batch \in HnswBatches, Hnsw!BeginAdd(batch) PROVE Hnsw!Map!Next
  <2>1. UNCHANGED <<HnswContent, HnswFile>>
    BY <1>1, HnswSameContent DEF Hnsw!BeginAdd
  <2>2. Hnsw!Map!BeginAdd(batch)
    BY <1>1, <2>1, HnswMappedVars DEF Hnsw!BeginAdd, Hnsw!Idle, Hnsw!Map!BeginAdd, HnswContent, HnswFile
  <2> QED
    BY <2>2 DEF Hnsw!Map!Next
<1>2. CASE Hnsw!Replace
  BY <1>2, HnswRefinesReplace DEF Hnsw!Map!Next
<1>3. CASE Hnsw!Insert
  BY <1>3, HnswRefinesInsert DEF Hnsw!Map!Next, Searchable
<1>4. CASE Hnsw!RejectVector
  <2>1. UNCHANGED <<HnswContent, HnswFile>>
    BY <1>4, HnswSameContent DEF Hnsw!RejectVector
  <2>2. Hnsw!Map!Reject
    BY <1>4, <2>1, HnswMappedVars DEF Hnsw!RejectVector, Hnsw!Fits, Hnsw!Map!Reject, HnswContent, HnswFile
  <2> QED
    BY <2>2 DEF Hnsw!Map!Next
<1>5. CASE Hnsw!EndAdd
  <2>1. UNCHANGED <<HnswContent, HnswFile>>
    BY <1>5, HnswSameContent DEF Hnsw!EndAdd
  <2>2. Hnsw!Map!EndAdd
    BY <1>5, <2>1, HnswMappedVars DEF Hnsw!EndAdd, Hnsw!Idle, Hnsw!Map!EndAdd, HnswContent, HnswFile
  <2> QED
    BY <2>2 DEF Hnsw!Map!Next
<1>6. CASE Hnsw!Clear
  BY <1>6, HnswRefinesClear DEF Hnsw!Map!Next
<1>7. ASSUME NEW id \in HnswIds, Hnsw!Find(id) PROVE Hnsw!Map!Next
  BY <1>7, HnswRefinesFind DEF Hnsw!Map!Next
<1>8. ASSUME NEW q \in Queries, Hnsw!Search(q) PROVE Hnsw!Map!Next
  BY <1>8, HnswRefinesSearch DEF Hnsw!Map!Next
<1>9. CASE UNCHANGED <<nodes, positions, dims, pending, reply>>
  <2>1. UNCHANGED <<HnswContent, HnswFile>>
    BY <1>9, HnswSameContent
  <2> QED
    BY <1>9, <2>1, HnswMappedVars DEF Hnsw!Map!vars, HnswContent, HnswFile
<1>10. CASE Hnsw!Reopen
  BY <1>9, <1>10, HnswReopened DEF Hnsw!Reopen
<1>11. CASE UNCHANGED Hnsw!vars
  BY <1>9, <1>11 DEF Hnsw!vars
<1> QED
  BY <1>1, <1>2, <1>3, <1>4, <1>5, <1>6, <1>7, <1>8, <1>10, <1>11 DEF Hnsw!Next

----------------------------------------------------------------------------
\* All stores: arrays, buffer, scale and graph fit together after any calls, for any
\* dimensions, batches, capacities and widths.
THEOREM StoresLayoutIsSound ==
  ASSUME Scored
  PROVE  StoresSpec => []LayoutIsSound
<1>1. StoreInv => TypeOK /\ OneDimension
  BY DEF StoreInv, Even, OneDimension
<1>2. /\ StoreInv
      /\ part = "compact" => CompactInv
      /\ part = "quantized" => QuantizedInv
      /\ part = "hnsw" => HnswInv
      => LayoutIsSound
  BY <1>1, CompactInvImplies, QuantizedInvImplies, HnswInvImplies
  DEF LayoutIsSound, CompactTypeOK, BufferIsTiled, QuantizedIsTiled, QuantizedIsNear, GraphIsSound
<1>3. StoresSpec => [](part = "hnsw" => HnswInv)
  BY HnswInvariant, Scored
<1> QED
  BY <1>2, <1>3, InMemoryInv, CompactInvariant, QuantizedInvariant, PTL

\* All stores with a map to promise implement it: add, find, remove, search, save
\* and load answer what a map would.  For HnswVectorStore this is said of the sizes
\* at which no link of layer 0 was cut, and needs a walk, when a node is added, as
\* wide as its list of links is long.
THEOREM StoresImplementMaps ==
  ASSUME Searchable, 2 * M <= EfConstruction
  PROVE  StoresSpec => StoresAnswerLikeMaps
<1>1. StoresSpec => InMemoryImplementsMap
  <2>1. StoresInit => Map!Init
    BY RefineInit DEF StoresInit
  <2>2. StoreInv /\ StoreInv' /\ [StoresNext]_storesVars => (part = "in_memory" => [Map!Next]_(Map!vars))
    BY Searchable, SearchableMeansComparable, InMemorySteps, RefineNext
  <2> QED
    BY <2>1, <2>2, InMemoryInv, PTL DEF StoresSpec, InMemoryImplementsMap
<1>2. StoresSpec => CompactImplementsMap
  <2>1. StoresInit => (part = "compact" => Compact!Map!Init)
    BY CompactRefinesInit DEF StoresInit
  <2>2. (part = "compact" => CompactInv) /\ [StoresNext]_storesVars
          => (part = "compact" => [Compact!Map!Next]_(Compact!Map!vars))
    BY Searchable, SearchableMeansComparable, CompactSteps, CompactRefines
  <2> QED
    BY <2>1, <2>2, CompactInvariant, PTL DEF StoresSpec, CompactImplementsMap
<1>3. StoresSpec => HnswImplementsMap
  <2>1. StoresInit => (part = "hnsw" => Hnsw!Map!Init)
    BY HnswRefinesInit DEF StoresInit
  <2>2. (part = "hnsw" => HnswInv) /\ [StoresNext]_storesVars
          => (part = "hnsw" /\ Len(nodes) <= 2 * M + 1 => [Hnsw!Map!Next]_(Hnsw!Map!vars))
    <3>1. Len(nodes) <= 2 * M + 1 => StillSmall(Len(nodes))
      BY DEF StillSmall
    <3> QED
      BY <3>1, Searchable, HnswSteps, HnswRefines
  <2>3. Scored
    BY Searchable DEF Searchable
  <2>4. StoresSpec => [](part = "hnsw" => HnswInv)
    BY <2>3, HnswInvariant
  <2> QED
    BY <2>1, <2>2, <2>4, PTL DEF StoresSpec, HnswImplementsMap
<1> QED
  BY <1>1, <1>2, <1>3 DEF StoresAnswerLikeMaps
=============================================================================
