------------------------ MODULE ToolExecutor_proofs ------------------------
(***************************************************************************)
(* Proofs about ToolExecutor, for any number of callers, any keys, limits, *)
(* retries and pauses, and any TTL.                                        *)
(***************************************************************************)
EXTENDS ToolExecutor, DataLemmas

Entry == [key : Cacheable, stored : Ages, seen : Ages]

\* An entry of the cache: its look at the files is at most a timeout older than
\* the entry, and no older than what a call alone on the key has reported.
GoodEntry(entry) ==
  /\ entry.seen <= entry.stored + Timeout
  /\ entry.seen <= newest[entry.key]

\* The thread of an attempt, and what it has sent, serve the call its caller is
\* waiting for; a call has one of the two, and only while it waits.
OneAttempt ==
  \A c \in Callers :
    /\ worker[c] # NoWorker =>
         pc[c] = "waiting" /\ channel[c] = Nothing /\ worker[c].key = current[c]
    /\ channel[c] # Nothing => pc[c] = "waiting"
    /\ channel[c].kind = "ok" => channel[c].key = current[c]
    /\ pc[c] # "idle" => current[c] \in Keys

\* A look at the files happened during the attempt that reports it, and is newer
\* than what the calls alone on its key have reported.
LooksAreRecent ==
  \A c \in Callers :
    /\ worker[c].seen # NotYet =>
         worker[c].seen <= elapsed[c] /\ worker[c].seen <= newest[worker[c].key]
    /\ channel[c].kind = "ok" =>
         channel[c].seen <= elapsed[c] /\ channel[c].seen <= newest[channel[c].key]

CacheIsGood == \A i \in DOMAIN cache : GoodEntry(cache[i])

\* The time of so many attempts; the pause before a retry; and the pauses before
\* the first so many retries, twice.
TimeOf(attempts) == attempts * Timeout
PauseOf(a) == Backoff * a
PausesTwice(a) == Backoff * (a * (a + 1))

\* No wait and no sleep lasts longer than it should, and the time spent is that of
\* the attempts and pauses so far.
TimeIsAccountedFor ==
  \A c \in Callers :
    /\ pc[c] = "idle" => elapsed[c] = 0 /\ spent[c] = 0 /\ attempt[c] = 0
    /\ pc[c] = "waiting" =>
         /\ elapsed[c] <= Timeout
         /\ 2 * spent[c] <= 2 * TimeOf(attempt[c]) + PausesTwice(attempt[c])
                            + 2 * elapsed[c]
    /\ pc[c] = "sleeping" =>
         /\ attempt[c] > 0
         /\ elapsed[c] <= PauseOf(attempt[c])
         /\ 2 * spent[c] <= 2 * TimeOf(attempt[c]) + PausesTwice(attempt[c] - 1)
                            + 2 * elapsed[c]

ExecutorInv ==
  /\ TypeOK
  /\ OneAttempt
  /\ LooksAreRecent
  /\ CacheIsGood
  /\ BoundedStaleness
  /\ TimeIsAccountedFor

----------------------------------------------------------------------------
LEMMA Constants ==
  /\ MaxRetries \in Nat /\ Backoff \in Nat /\ TTL \in Nat /\ MaxAbandoned \in Nat
  /\ Timeout \in Nat \ {0} /\ Capacity \in Nat \ {0} /\ Cacheable \subseteq Keys
  /\ AgeCap \in Nat /\ AgeCap = TTL + Timeout + 1 /\ NotYet = AgeCap + 1
  /\ Ages = 0..AgeCap
BY ExecutorConstants DEF AgeCap, NotYet, Ages

\* The cache: popping and pushing keep it a sequence of entries with keys of their
\* own, and the entries that stay are those of other keys.
IsCache(s) ==
  /\ s \in Seq(Entry)
  /\ Len(s) <= Capacity
  /\ \A i, j \in DOMAIN s : s[i].key = s[j].key => i = j

LEMMA CacheTyped ==
  ASSUME NEW s
  PROVE  IsCache(s) <=> /\ s \in SeqOf(Entry, Capacity)
                        /\ \A i, j \in DOMAIN s : s[i].key = s[j].key => i = j
<1>1. ASSUME s \in Seq(Entry), Len(s) <= Capacity PROVE s \in SeqOf(Entry, Capacity)
  <2>1. s \in [1..Len(s) -> Entry] /\ Len(s) \in 0..Capacity
    BY <1>1, ExecutorConstants, LenProperties
  <2> QED
    BY <2>1 DEF SeqOf
<1>2. ASSUME s \in SeqOf(Entry, Capacity) PROVE s \in Seq(Entry) /\ Len(s) <= Capacity
  <2>1. PICK m \in 0..Capacity : s \in [1..m -> Entry]
    BY <1>2 DEF SeqOf
  <2>2. m \in Nat /\ s \in Seq(Entry)
    BY <2>1, ExecutorConstants, SeqDef
  <2> QED
    BY <2>1, <2>2, LenProperties
<1> QED
  BY <1>1, <1>2 DEF IsCache

LEMMA WithoutKeyFacts ==
  ASSUME IsCache(cache), NEW k
  PROVE  /\ IsCache(WithoutKey(k))
         /\ \A j \in DOMAIN WithoutKey(k) :
              /\ WithoutKey(k)[j].key # k
              /\ \E i \in DOMAIN cache : WithoutKey(k)[j] = cache[i]
         /\ Cached(k) # {} => Len(WithoutKey(k)) < Capacity
<1>0. Len(cache) \in Nat /\ DOMAIN cache = 1..Len(cache) /\ Capacity \in Nat
  BY ExecutorConstants DEF IsCache
<1>1. CASE Cached(k) = {}
  BY <1>1 DEF WithoutKey, Cached
<1>2. CASE Cached(k) # {}
  <2>1. PICK i \in DOMAIN cache : i \in Cached(k) /\ WithoutKey(k) = RemoveAt(cache, i)
    BY <1>2 DEF WithoutKey, Cached
  <2>2. cache[i].key = k
    BY <2>1 DEF Cached
  <2> DEFINE r == RemoveAt(cache, i)
  <2>3. /\ r \in Seq(Entry) /\ Len(r) = Len(cache) - 1
        /\ \A j \in 1..Len(cache) - 1 : r[j] = IF j < i THEN cache[j] ELSE cache[j + 1]
    <3>1. cache \in Seq(Entry) /\ i \in 1..Len(cache)
      BY <1>0 DEF IsCache
    <3> QED
      BY <3>1, RemoveAtFacts
  <2> HIDE DEF r
  <2>4. DOMAIN r = 1..Len(cache) - 1
    BY <2>3
  <2>5. ASSUME NEW j \in DOMAIN r
        PROVE  r[j].key # k /\ \E n \in DOMAIN cache : r[j] = cache[n]
    <3>1. PICK n \in DOMAIN cache : r[j] = cache[n] /\ n # i
      BY <1>0, <2>3, <2>4
    <3> QED
      BY <2>1, <2>2, <3>1 DEF IsCache
  <2>6. ASSUME NEW m \in DOMAIN r, NEW n \in DOMAIN r, r[m].key = r[n].key PROVE m = n
    <3> DEFINE at(j) == IF j < i THEN j ELSE j + 1
    <3>1. \A j \in DOMAIN r : r[j] = cache[at(j)] /\ at(j) \in DOMAIN cache
      BY <1>0, <2>3, <2>4
    <3>2. at(m) = at(n)
      <4> HIDE DEF at
      <4> QED
        BY <2>6, <3>1 DEF IsCache
    <3> QED
      BY <1>0, <2>4, <3>2
  <2>7. IsCache(r) /\ Len(r) < Capacity
    BY <1>0, <2>3, <2>6 DEF IsCache
  <2> QED
    BY <2>1, <2>5, <2>7 DEF r
<1> QED
  BY <1>1, <1>2

LEMMA PushFacts ==
  ASSUME NEW s, IsCache(s), Len(s) < Capacity, NEW entry \in Entry,
         \A j \in DOMAIN s : s[j].key # entry.key
  PROVE  /\ IsCache(Append(s, entry))
         /\ \A j \in DOMAIN Append(s, entry) :
              \/ Append(s, entry)[j] = entry
              \/ \E i \in DOMAIN s : Append(s, entry)[j] = s[i]
<1> DEFINE r == Append(s, entry)
<1>1. /\ r \in Seq(Entry) /\ Len(r) = Len(s) + 1 /\ r[Len(s) + 1] = entry
      /\ \A i \in 1..Len(s) : r[i] = s[i]
      /\ Len(s) \in Nat /\ DOMAIN s = 1..Len(s) /\ DOMAIN r = 1..Len(s) + 1
  BY AppendProperties DEF IsCache
<1> HIDE DEF r
<1>2. Len(r) <= Capacity
  BY <1>1, ExecutorConstants
<1>3. ASSUME NEW i \in DOMAIN r, NEW j \in DOMAIN r, r[i].key = r[j].key PROVE i = j
  BY <1>1, <1>3 DEF IsCache
<1>4. ASSUME NEW j \in DOMAIN r PROVE r[j] = entry \/ \E i \in DOMAIN s : r[j] = s[i]
  BY <1>1
<1> QED
  BY <1>1, <1>2, <1>3, <1>4 DEF IsCache, r

\* A hit: the entry becomes the last one.
LEMMA PromotedFacts ==
  ASSUME IsCache(cache), NEW i \in DOMAIN cache
  PROVE  /\ IsCache(Promoted(cache[i]))
         /\ \A j \in DOMAIN Promoted(cache[i]) :
              \E n \in DOMAIN cache : Promoted(cache[i])[j] = cache[n]
<1>1. cache[i] \in Entry /\ i \in Cached(cache[i].key)
  BY DEF IsCache, Cached
<1>2. /\ IsCache(WithoutKey(cache[i].key)) /\ Len(WithoutKey(cache[i].key)) < Capacity
      /\ \A j \in DOMAIN WithoutKey(cache[i].key) :
           /\ WithoutKey(cache[i].key)[j].key # cache[i].key
           /\ \E n \in DOMAIN cache : WithoutKey(cache[i].key)[j] = cache[n]
  BY <1>1, WithoutKeyFacts
<1> QED
  BY <1>1, <1>2, PushFacts DEF Promoted

\* A result kept: the other entries are those of other keys.
LEMMA PutFacts ==
  ASSUME IsCache(cache), NEW k \in Cacheable, NEW seen \in Ages
  PROVE  /\ IsCache(Put(k, seen))
         /\ \A j \in DOMAIN Put(k, seen) :
              \/ Put(k, seen)[j] = [key |-> k, stored |-> 0, seen |-> seen]
              \/ /\ Put(k, seen)[j].key # k
                 /\ \E i \in DOMAIN cache : Put(k, seen)[j] = cache[i]
<1> DEFINE others == WithoutKey(k)
           room == IF Len(others) < Capacity THEN others ELSE Tail(others)
           new == [key |-> k, stored |-> 0, seen |-> seen]
<1>1. /\ IsCache(others)
      /\ \A j \in DOMAIN others :
           others[j].key # k /\ \E i \in DOMAIN cache : others[j] = cache[i]
  BY WithoutKeyFacts
<1> HIDE DEF others
<1>2. /\ IsCache(room) /\ Len(room) < Capacity
      /\ \A j \in DOMAIN room : \E i \in DOMAIN others : room[j] = others[i]
  <2>1. CASE Len(others) < Capacity
    BY <1>1, <2>1
  <2>2. CASE ~(Len(others) < Capacity)
    <3>1. Len(others) = Capacity /\ Capacity \in Nat \ {0} /\ others \in Seq(Entry)
      BY <1>1, <2>2, ExecutorConstants DEF IsCache
    <3>2. /\ Tail(others) \in Seq(Entry) /\ Len(Tail(others)) = Len(others) - 1
          /\ \A j \in 1..Len(Tail(others)) : Tail(others)[j] = others[j + 1]
      BY <3>1, HeadTailProperties
    <3>3. DOMAIN Tail(others) = 1..Capacity - 1 /\ DOMAIN others = 1..Capacity
      BY <3>1, <3>2
    <3>4. \A i, j \in DOMAIN Tail(others) :
            Tail(others)[i].key = Tail(others)[j].key => i = j
      BY <1>1, <3>1, <3>2, <3>3 DEF IsCache
    <3>5. IsCache(Tail(others)) /\ Len(Tail(others)) < Capacity
      BY <3>1, <3>2, <3>4 DEF IsCache
    <3>6. \A j \in DOMAIN Tail(others) : \E i \in DOMAIN others : Tail(others)[j] = others[i]
      BY <3>1, <3>2, <3>3
    <3> QED
      BY <2>2, <3>5, <3>6
  <2> QED
    BY <2>1, <2>2
<1>3. new \in Entry /\ new.key = k
  BY Constants DEF Entry
<1> HIDE DEF room, new
<1>4. \A j \in DOMAIN room : room[j].key # new.key
  BY <1>1, <1>2, <1>3
<1>5. /\ IsCache(Append(room, new))
      /\ \A j \in DOMAIN Append(room, new) :
           Append(room, new)[j] = new \/ \E i \in DOMAIN room : Append(room, new)[j] = room[i]
  BY <1>2, <1>3, <1>4, PushFacts
<1>6. Put(k, seen) = Append(room, new)
  BY DEF Put, room, new, others
<1> QED
  BY <1>1, <1>2, <1>5, <1>6 DEF new

----------------------------------------------------------------------------
\* Types.
Control ==
  /\ pc \in [Callers -> {"idle", "waiting", "sleeping"}]
  /\ current \in [Callers -> Keys \cup {"none"}]
  /\ attempt \in [Callers -> 0..MaxRetries]
  /\ elapsed \in [Callers -> Nat] /\ spent \in [Callers -> Nat]
  /\ answer \in Answers
  /\ newest \in [Keys -> Ages]

Threads ==
  /\ worker \in [Callers -> Looking \cup {NoWorker}]
  /\ channel \in [Callers -> Outcomes \cup {Nothing}]
  /\ abandoned \subseteq [owner : Callers, key : Keys]

LEMMA TypeParts ==
  /\ TypeOK <=> IsCache(cache) /\ Control /\ Threads
  /\ TypeOK' <=> IsCache(cache') /\ Control' /\ Threads'
BY CacheTyped DEF TypeOK, Control, Threads, Entry

LEMMA ReturnTypes ==
  ASSUME Control, NEW c \in Callers, NEW result \in Answers, Return(c, result)
  PROVE  Control'
<1>1. result.kind = "ok" => result.key \in Keys /\ result.seen \in Ages
  BY DEF Answers, Nothing, Error
<1>2. newest' \in [Keys -> Ages]
  BY <1>1 DEF Control, Return
<1> QED
  BY <1>2, Constants DEF Control, Return

LEMMA ReportedTypes ==
  ASSUME NEW key \in Keys, NEW seen \in Ages, NEW outcome,
         outcome.key = key, outcome.seen = seen
  PROVE  /\ Reported(outcome, "tool") \in Answers
         /\ Reported(outcome, "cache") \in Answers
BY DEF Reported, Answers

LEMMA ErrorTypes == Error \in Answers /\ Nothing \in Answers
BY DEF Answers

LEMMA FailedTypes ==
  ASSUME Control, NEW c \in Callers, NEW flag, Failed(c, flag)
  PROVE  Control'
<1>1. CASE ShouldRetry(c, flag)
  <2>1. attempt[c] + 1 \in 0..MaxRetries
    BY <1>1, Constants DEF ShouldRetry, Control
  <2> QED
    BY <1>1, <2>1, ErrorTypes DEF Failed, Control, Silent
<1>2. CASE ~ShouldRetry(c, flag)
  BY <1>2, ErrorTypes, ReturnTypes DEF Failed
<1> QED
  BY <1>1, <1>2

LEMMA StartTypes ==
  ASSUME Threads, NEW c \in Callers, NEW k \in Keys, StartAttempt(c, k)
  PROVE  /\ worker' \in [Callers -> Looking \cup {NoWorker}]
         /\ channel' \in [Callers -> Outcomes \cup {Nothing}]
BY Constants DEF Threads, StartAttempt, Looking

LEMMA CallTypes ==
  ASSUME TypeOK, NEW c \in Callers, NEW k \in Keys, Call(c, k)
  PROVE  TypeOK'
<1> USE TypeParts
<1>1. CASE CacheHit(c, k)
  <2>1. PICK i \in Cached(k) :
          Fresh(cache[i]) /\ cache' = Promoted(cache[i]) /\ Return(c, Reported(cache[i], "cache"))
    BY <1>1 DEF CacheHit
  <2>2. i \in DOMAIN cache /\ cache[i] \in Entry
    BY DEF Cached, IsCache
  <2>3. IsCache(cache')
    BY <2>1, <2>2, PromotedFacts
  <2>4. Reported(cache[i], "cache") \in Answers
    BY <2>2, Constants, ReportedTypes DEF Entry
  <2>5. Control'
    BY <2>1, <2>4, ReturnTypes
  <2>6. Threads'
    BY <1>1 DEF CacheHit, Threads
  <2> QED
    BY <2>3, <2>5, <2>6
<1>2. ASSUME Miss(k) PROVE IsCache(cache')
  BY <1>2, WithoutKeyFacts DEF Miss
<1>3. CASE Rejected(c, k)
  <2>1. Control'
    BY <1>3, ErrorTypes, ReturnTypes DEF Rejected
  <2> QED
    BY <1>2, <1>3, <2>1 DEF Rejected, Threads
<1>4. CASE Accepted(c, k)
  <2>1. Threads'
    BY <1>4, StartTypes DEF Accepted, Threads
  <2>2. Control'
    BY <1>4, ErrorTypes DEF Accepted, StartAttempt, Silent, Control
  <2> QED
    BY <1>2, <1>4, <2>1, <2>2 DEF Accepted
<1> QED
  BY <1>1, <1>3, <1>4 DEF Call

LEMMA CallerTypes ==
  ASSUME TypeOK, OneAttempt, NEW c \in Callers, CallerStep(c)
  PROVE  TypeOK'
<1> USE TypeParts
<1>1. CASE ReceiveResult(c)
  <2>1. channel[c].kind = "ok" /\ pc[c] = "waiting"
    BY <1>1 DEF ReceiveResult, Received
  <2>2. channel[c].key \in Keys /\ channel[c].seen \in Ages /\ channel[c].key = current[c]
    BY <2>1 DEF Threads, Outcomes, Nothing, Error, Internal, OneAttempt
  <2>3. IsCache(cache')
    BY <1>1, <2>2, PutFacts DEF ReceiveResult
  <2>4. Reported(channel[c], "tool") \in Answers
    BY <2>2, ReportedTypes
  <2>5. Control'
    BY <1>1, <2>4, ReturnTypes DEF ReceiveResult
  <2>6. Threads'
    BY <1>1 DEF ReceiveResult, Received, Threads
  <2> QED
    BY <2>3, <2>5, <2>6
<1>2. CASE ReceiveError(c)
  <2>1. Control'
    BY <1>2, ErrorTypes, ReturnTypes DEF ReceiveError
  <2> QED
    BY <1>2, <2>1 DEF ReceiveError, Received, Threads
<1>3. CASE ReceivePanic(c)
  <2>1. Control'
    BY <1>3, FailedTypes DEF ReceivePanic
  <2> QED
    BY <1>3, <2>1 DEF ReceivePanic, Received, Threads
<1>4. CASE GiveUp(c)
  <2>1. Control'
    BY <1>4, FailedTypes DEF GiveUp
  <2>2. current[c] \in Keys
    BY <1>4 DEF GiveUp, OneAttempt
  <2>3. Threads'
    BY <1>4, <2>2 DEF GiveUp, Threads
  <2> QED
    BY <1>4, <2>1, <2>3 DEF GiveUp
<1>5. CASE Resume(c)
  <2>1. current[c] \in Keys
    BY <1>5 DEF Resume, OneAttempt
  <2>2. Threads'
    BY <1>5, <2>1, StartTypes DEF Resume, Threads
  <2>3. Control'
    BY <1>5, ErrorTypes DEF Resume, StartAttempt, Silent, Control
  <2> QED
    BY <1>5, <2>2, <2>3 DEF Resume
<1> QED
  BY <1>1, <1>2, <1>3, <1>4, <1>5 DEF CallerStep

LEMMA OlderFacts ==
  ASSUME NEW age \in Ages
  PROVE  /\ Older(age) \in Ages
         /\ Older(age) <= age + 1
         /\ age <= Older(age)
         /\ \A other \in Ages : age <= other => Older(age) <= Older(other)
BY Constants DEF Older

\* One entry of the cache after a tick.
Aged(entry) == [entry EXCEPT !.stored = Older(@), !.seen = Older(@)]

LEMMA AgedFacts ==
  ASSUME NEW entry \in Entry
  PROVE  /\ Aged(entry) \in Entry
         /\ Aged(entry).key = entry.key
         /\ Aged(entry).stored = Older(entry.stored)
         /\ Aged(entry).seen = Older(entry.seen)
BY OlderFacts DEF Entry, Aged

LEMMA TickedCache ==
  ASSUME IsCache(cache), Tick
  PROVE  /\ IsCache(cache')
         /\ DOMAIN cache' = DOMAIN cache
         /\ \A i \in DOMAIN cache : cache'[i] = Aged(cache[i]) /\ cache[i] \in Entry
<1>1. Len(cache) \in Nat /\ DOMAIN cache = 1..Len(cache)
      /\ \A i \in DOMAIN cache : cache[i] \in Entry
  BY DEF IsCache
<1>2. cache' = [i \in 1..Len(cache) |-> Aged(cache[i])]
  BY <1>1 DEF Tick, Aged
<1>3. \A i \in DOMAIN cache : Aged(cache[i]) \in Entry
  BY <1>1, AgedFacts
<1>4. cache' \in [1..Len(cache) -> Entry]
  BY <1>1, <1>2, <1>3
<1>5. cache' \in Seq(Entry) /\ Len(cache') = Len(cache)
  <2>1. cache' \in Seq(Entry)
    BY <1>1, <1>4, SeqDef
  <2> QED
    BY <1>1, <1>4, <2>1, LenProperties
<1>6. ASSUME NEW i \in DOMAIN cache', NEW j \in DOMAIN cache', cache'[i].key = cache'[j].key
      PROVE  i = j
  BY <1>1, <1>2, <1>6, AgedFacts DEF IsCache
<1> QED
  BY <1>1, <1>2, <1>5, <1>6 DEF IsCache

LEMMA ToolTypes ==
  ASSUME TypeOK, (\E c \in Callers : Look(c) \/ Finish(c)) \/ FinishLate \/ Tick
  PROVE  TypeOK'
<1> USE TypeParts
<1>1. ASSUME NEW c \in Callers, Look(c) PROVE TypeOK'
  <2>1. worker[c] \in Looking /\ 0 \in Ages
    BY <1>1, Constants DEF Look, Threads
  <2>2. worker' \in [Callers -> Looking \cup {NoWorker}]
    BY <1>1, <2>1 DEF Look, Looking, Threads
  <2> QED
    BY <1>1, <2>2, ErrorTypes DEF Look, Silent, Control, Threads
<1>2. ASSUME NEW c \in Callers, Finish(c) PROVE TypeOK'
  <2>1. worker[c] \in Looking
    BY <1>2 DEF Finish, Threads
  <2>2. OutcomesOf(worker[c]) \subseteq Outcomes
    BY <2>1 DEF OutcomesOf, Outcomes, Looking, Ok
  <2>3. channel' \in [Callers -> Outcomes \cup {Nothing}]
    BY <1>2, <2>2 DEF Finish, Threads
  <2> QED
    BY <1>2, <2>3, ErrorTypes DEF Finish, Silent, Control, Threads
<1>3. CASE FinishLate
  BY <1>3, ErrorTypes DEF FinishLate, LateChannel, Silent, Control, Threads
<1>4. CASE Tick
  <2>1. IsCache(cache')
    BY <1>4, TickedCache
  <2>2. \A t \in Looking \cup {NoWorker} : AgedThread(t) \in Looking \cup {NoWorker}
    BY OlderFacts DEF AgedThread, Looking, NoWorker
  <2>3. worker' \in [Callers -> Looking \cup {NoWorker}]
    BY <1>4, <2>2 DEF Tick, Threads
  <2>4. newest' \in [Keys -> Ages]
    BY <1>4, OlderFacts DEF Tick, Control
  <2>5. elapsed' \in [Callers -> Nat] /\ spent' \in [Callers -> Nat]
    <3>1. \A c \in Callers : elapsed[c] + 1 \in Nat /\ spent[c] + 1 \in Nat
      BY DEF Control
    <3> QED
      BY <1>4, <3>1 DEF Tick
  <2> QED
    BY <1>4, <2>1, <2>3, <2>4, <2>5, ErrorTypes DEF Tick, Silent, Control, Threads
<1> QED
  BY <1>1, <1>2, <1>3, <1>4

LEMMA TypeStep == TypeOK /\ OneAttempt /\ [Next]_vars => TypeOK'
<1>1. TypeOK /\ UNCHANGED vars => TypeOK'
  BY TypeParts DEF vars, Control, Threads
<1> QED
  BY <1>1, CallTypes, CallerTypes, ToolTypes DEF Next

----------------------------------------------------------------------------
\* An attempt has a thread or its answer, never both, and they serve its call.
LEMMA ThreadFacts ==
  ASSUME TypeOK, NEW c \in Callers
  PROVE  /\ worker[c] # NoWorker => worker[c] \in Looking
         /\ channel[c] \in Outcomes \cup {Nothing}
         /\ channel[c].kind = "ok" =>
              channel[c] # Nothing /\ channel[c].key \in Keys /\ channel[c].seen \in Ages
BY DEF TypeOK, Outcomes, Nothing, Error, Internal

LEMMA OneAttemptCall ==
  ASSUME TypeOK, OneAttempt, NEW c \in Callers, NEW k \in Keys, Call(c, k)
  PROVE  OneAttempt'
<1>4. ASSUME pc[c] = "idle", pc' = [pc EXCEPT ![c] = "idle"],
             current' = [current EXCEPT ![c] = "none"], UNCHANGED <<worker, channel>>
      PROVE  OneAttempt'
  <2>1. worker[c] = NoWorker /\ channel[c] = Nothing
    BY <1>4 DEF OneAttempt
  <2>2. \A d \in Callers : d # c => pc'[d] = pc[d] /\ current'[d] = current[d]
    BY <1>4 DEF TypeOK
  <2>3. pc'[c] = "idle"
    BY <1>4 DEF TypeOK
  <2> QED
    BY <1>4, <2>1, <2>2, <2>3 DEF OneAttempt, Nothing
<1>1. CASE CacheHit(c, k)
  <2>1. /\ pc[c] = "idle" /\ pc' = [pc EXCEPT ![c] = "idle"]
        /\ current' = [current EXCEPT ![c] = "none"] /\ UNCHANGED <<worker, channel>>
    BY <1>1 DEF CacheHit, Return
  <2> QED
    BY <2>1, <1>4
<1>2. CASE Rejected(c, k)
  <2>1. /\ pc[c] = "idle" /\ pc' = [pc EXCEPT ![c] = "idle"]
        /\ current' = [current EXCEPT ![c] = "none"] /\ UNCHANGED <<worker, channel>>
    BY <1>2 DEF Rejected, Return
  <2> QED
    BY <2>1, <1>4
<1>3. CASE Accepted(c, k)
  BY <1>3 DEF Accepted, StartAttempt, OneAttempt, TypeOK, Nothing
<1> QED
  BY <1>1, <1>2, <1>3 DEF Call

LEMMA OneAttemptCaller ==
  ASSUME TypeOK, OneAttempt, NEW c \in Callers, CallerStep(c)
  PROVE  OneAttempt'
<1>1. ASSUME NEW kind, kind # "nothing", Received(c, kind) PROVE worker[c] = NoWorker
  BY <1>1 DEF Received, OneAttempt, Nothing
<1>2. CASE ReceiveResult(c)
  <2>1. worker[c] = NoWorker
    BY <1>1, <1>2 DEF ReceiveResult
  <2> QED
    BY <1>2, <2>1 DEF ReceiveResult, Received, Return, OneAttempt, TypeOK, Nothing
<1>3. CASE ReceiveError(c)
  <2>1. worker[c] = NoWorker
    BY <1>1, <1>3 DEF ReceiveError
  <2> QED
    BY <1>3, <2>1 DEF ReceiveError, Received, Return, OneAttempt, TypeOK, Nothing
<1>4. CASE ReceivePanic(c)
  <2>1. worker[c] = NoWorker
    BY <1>1, <1>4 DEF ReceivePanic
  <2> QED
    BY <1>4, <2>1 DEF ReceivePanic, Received, Failed, Return, OneAttempt, TypeOK, Nothing
<1>5. CASE GiveUp(c)
  BY <1>5 DEF GiveUp, Failed, Return, OneAttempt, TypeOK, Nothing
<1>6. CASE Resume(c)
  BY <1>6 DEF Resume, StartAttempt, OneAttempt, TypeOK, Nothing
<1> QED
  BY <1>2, <1>3, <1>4, <1>5, <1>6 DEF CallerStep

LEMMA OneAttemptTool ==
  ASSUME TypeOK, OneAttempt,
         (\E c \in Callers : Look(c) \/ Finish(c)) \/ FinishLate \/ Tick
  PROVE  OneAttempt'
<1>1. ASSUME NEW c \in Callers, Look(c) PROVE OneAttempt'
  <2>1. \A d \in Callers : /\ worker'[d].key = worker[d].key
                           /\ worker'[d] # NoWorker => worker[d] # NoWorker
    BY <1>1, ThreadFacts DEF Look, Looking, TypeOK
  <2> QED
    BY <1>1, <2>1 DEF Look, OneAttempt
<1>2. ASSUME NEW c \in Callers, Finish(c) PROVE OneAttempt'
  <2>1. PICK outcome \in OutcomesOf(worker[c]) : channel' = [channel EXCEPT ![c] = outcome]
    BY <1>2 DEF Finish
  <2>2. outcome # Nothing /\ (outcome.kind = "ok" => outcome.key = worker[c].key)
    BY <2>1 DEF OutcomesOf, Ok, Error, Internal, Nothing
  <2>3. pc[c] = "waiting" /\ worker[c].key = current[c]
    BY <1>2 DEF Finish, OneAttempt
  <2> QED
    BY <1>2, <2>1, <2>2, <2>3 DEF Finish, OneAttempt, TypeOK
<1>3. CASE FinishLate
  BY <1>3 DEF FinishLate, LateChannel, OneAttempt
<1>4. CASE Tick
  <2>1. \A d \in Callers : /\ worker'[d].key = worker[d].key
                           /\ worker'[d] # NoWorker => worker[d] # NoWorker
    <3>1. \A t \in Looking \cup {NoWorker} : AgedThread(t).key = t.key
      BY DEF AgedThread, NoWorker, Looking
    <3>2. AgedThread(NoWorker) = NoWorker
      BY DEF AgedThread, NoWorker
    <3> QED
      BY <1>4, <3>1, <3>2 DEF Tick, TypeOK
  <2> QED
    BY <1>4, <2>1 DEF Tick, OneAttempt
<1> QED
  BY <1>1, <1>2, <1>3, <1>4

LEMMA OneAttemptStep == TypeOK /\ OneAttempt /\ [Next]_vars => OneAttempt'
<1>1. OneAttempt /\ UNCHANGED vars => OneAttempt'
  BY DEF vars, OneAttempt
<1> QED
  BY <1>1, OneAttemptCall, OneAttemptCaller, OneAttemptTool DEF Next

----------------------------------------------------------------------------
\* Time.
LEMMA Arithmetic ==
  ASSUME NEW a \in Nat
  PROVE  /\ PausesTwice(a) \in Nat /\ TimeOf(a) \in Nat /\ PauseOf(a) \in Nat
         /\ PausesTwice(0) = 0 /\ TimeOf(0) = 0
         /\ TimeOf(a + 1) = TimeOf(a) + Timeout
         /\ PausesTwice(a + 1) = PausesTwice(a) + 2 * PauseOf(a + 1)
BY Constants DEF PausesTwice, TimeOf, PauseOf

\* An attempt that is given up has lasted a timeout at most.
LEMMA AttemptIsCutOff ==
  ASSUME NEW s \in Nat, NEW e \in Nat, NEW t \in Nat, NEW w \in Nat, NEW limit \in Nat,
         e <= limit, 2 * s <= 2 * t + w + 2 * e
  PROVE  2 * s <= 2 * (t + limit) + w
OBVIOUS

\* What TimeIsAccountedFor says of one caller.
InTime(c) ==
  /\ pc[c] = "idle" => elapsed[c] = 0 /\ spent[c] = 0 /\ attempt[c] = 0
  /\ pc[c] = "waiting" =>
       /\ elapsed[c] <= Timeout
       /\ 2 * spent[c] <= 2 * TimeOf(attempt[c]) + PausesTwice(attempt[c])
                          + 2 * elapsed[c]
  /\ pc[c] = "sleeping" =>
       /\ attempt[c] > 0
       /\ elapsed[c] <= PauseOf(attempt[c])
       /\ 2 * spent[c] <= 2 * TimeOf(attempt[c]) + PausesTwice(attempt[c] - 1)
                          + 2 * elapsed[c]

LEMMA InTimeStep ==
  ASSUME NEW c \in Callers, TypeOK, InTime(c), [Next]_vars
  PROVE  InTime(c)'
<1>0. pc[c] \in {"idle", "waiting", "sleeping"} /\ attempt[c] \in 0..MaxRetries
      /\ elapsed[c] \in Nat /\ spent[c] \in Nat
  BY DEF TypeOK
<1>1. ASSUME UNCHANGED <<pc[c], attempt[c], elapsed[c], spent[c]>> PROVE InTime(c)'
  BY <1>1 DEF InTime
<1>2. ASSUME NEW result, Return(c, result) PROVE InTime(c)'
  <2>1. pc'[c] = "idle" /\ elapsed'[c] = 0 /\ spent'[c] = 0 /\ attempt'[c] = 0
    BY <1>2 DEF Return, TypeOK
  <2> QED
    BY <2>1 DEF InTime
<1>3. ASSUME NEW flag, pc[c] = "waiting", Failed(c, flag) PROVE InTime(c)'
  <2>1. CASE ShouldRetry(c, flag)
    <3>1. /\ pc'[c] = "sleeping" /\ attempt'[c] = attempt[c] + 1
          /\ elapsed'[c] = 0 /\ spent'[c] = spent[c]
      BY <1>3, <2>1 DEF Failed, TypeOK
    <3>2. attempt[c] \in Nat /\ (attempt[c] + 1) - 1 = attempt[c]
      BY <1>0, Constants
    <3>3. /\ elapsed[c] <= Timeout
          /\ 2 * spent[c] <= 2 * TimeOf(attempt[c]) + PausesTwice(attempt[c])
                             + 2 * elapsed[c]
      BY <1>3 DEF InTime
    <3>4. /\ TimeOf(attempt[c] + 1) = TimeOf(attempt[c]) + Timeout
          /\ TimeOf(attempt[c]) \in Nat /\ PausesTwice(attempt[c]) \in Nat
          /\ PauseOf(attempt[c] + 1) \in Nat
      BY <3>2, Arithmetic
    <3>5. 2 * spent[c] <= 2 * TimeOf(attempt[c] + 1) + PausesTwice(attempt[c])
      <4>1. /\ spent[c] \in Nat /\ elapsed[c] \in Nat /\ Timeout \in Nat
            /\ TimeOf(attempt[c]) \in Nat /\ PausesTwice(attempt[c]) \in Nat
        BY <1>0, <3>4, Constants
      <4>2. 2 * spent[c] <= 2 * (TimeOf(attempt[c]) + Timeout) + PausesTwice(attempt[c])
        BY <3>3, <4>1, AttemptIsCutOff
      <4> QED
        BY <3>4, <4>2
    <3>7. /\ attempt'[c] > 0 /\ attempt'[c] - 1 = attempt[c]
          /\ elapsed'[c] <= PauseOf(attempt'[c])
      BY <3>1, <3>2, <3>4
    <3>8. 2 * spent'[c] <= 2 * TimeOf(attempt'[c]) + PausesTwice(attempt'[c] - 1)
                           + 2 * elapsed'[c]
      <4>1. TimeOf(attempt[c] + 1) \in Nat /\ 2 * spent[c] \in Nat
        <5>1. attempt[c] + 1 \in Nat
          BY <3>2
        <5> QED
          BY <1>0, <5>1, Arithmetic
      <4>2. 2 * spent[c] <= 2 * TimeOf(attempt[c] + 1) + PausesTwice(attempt[c]) + 2 * 0
        BY <3>4, <3>5, <4>1
      <4> QED
        BY <3>1, <3>7, <4>2
    <3> QED
      BY <3>1, <3>7, <3>8 DEF InTime
  <2>2. CASE ~ShouldRetry(c, flag)
    BY <1>2, <1>3, <2>2 DEF Failed
  <2> QED
    BY <2>1, <2>2
<1>4. ASSUME NEW k, pc[c] = "idle", Call(c, k) PROVE InTime(c)'
  <2>1. CASE Accepted(c, k)
    <3>1. /\ pc'[c] = "waiting" /\ attempt'[c] = 0 /\ elapsed'[c] = 0 /\ spent'[c] = 0
      BY <1>4, <2>1 DEF Accepted, StartAttempt, TypeOK, InTime
    <3> QED
      BY <3>1, Arithmetic, Constants DEF InTime
  <2> QED
    BY <1>2, <1>4, <2>1 DEF Call, CacheHit, Rejected
<1>5. CASE CallerStep(c)
  <2>1. CASE Resume(c)
    <3>1. /\ pc[c] = "sleeping" /\ pc'[c] = "waiting" /\ elapsed'[c] = 0
          /\ UNCHANGED <<attempt[c], spent[c]>>
      BY <2>1 DEF Resume, StartAttempt, TypeOK
    <3> DEFINE a == attempt[c] - 1
    <3>2. /\ attempt[c] > 0 /\ elapsed[c] <= PauseOf(attempt[c])
          /\ 2 * spent[c] <= 2 * TimeOf(attempt[c]) + PausesTwice(a) + 2 * elapsed[c]
      BY <3>1 DEF InTime
    <3>3. a \in Nat /\ attempt[c] = a + 1
      <4>1. attempt[c] \in Nat
        BY <1>0
      <4>2. attempt[c] > 0
        BY <3>2
      <4> QED
        BY <4>1, <4>2
    <3> HIDE DEF a
    <3>4. /\ PausesTwice(attempt[c]) = PausesTwice(a) + 2 * PauseOf(attempt[c])
          /\ PauseOf(attempt[c]) \in Nat /\ PausesTwice(a) \in Nat
          /\ TimeOf(attempt[c]) \in Nat
      <4>1. attempt[c] \in Nat
        BY <3>3
      <4>2. PausesTwice(a + 1) = PausesTwice(a) + 2 * PauseOf(a + 1) /\ PausesTwice(a) \in Nat
        BY <3>3, Arithmetic
      <4>3. PauseOf(attempt[c]) \in Nat /\ TimeOf(attempt[c]) \in Nat
        BY <4>1, Arithmetic
      <4> QED
        BY <3>3, <4>2, <4>3
    <3>5. 2 * spent[c] <= 2 * TimeOf(attempt[c]) + PausesTwice(attempt[c])
      BY <1>0, <3>2, <3>4
    <3>6. /\ elapsed'[c] <= Timeout
          /\ 2 * spent'[c] <= 2 * TimeOf(attempt'[c]) + PausesTwice(attempt'[c])
                              + 2 * elapsed'[c]
      BY <1>0, <3>1, <3>4, <3>5, Constants
    <3> QED
      BY <3>1, <3>6 DEF InTime
  <2> QED
    BY <1>2, <1>3, <1>5, <2>1
       DEF CallerStep, ReceiveResult, ReceiveError, ReceivePanic, Received, GiveUp
<1>6. CASE Tick
  <2>1. ~MustStep(c) /\ UNCHANGED <<pc[c], attempt[c]>>
        /\ elapsed'[c] = (IF pc[c] = "idle" THEN 0 ELSE elapsed[c] + 1)
        /\ spent'[c] = (IF pc[c] = "idle" THEN 0 ELSE spent[c] + 1)
    BY <1>6 DEF Tick
  <2>2. CASE pc[c] = "idle"
    BY <2>1, <2>2 DEF InTime
  <2>3. CASE pc[c] = "waiting"
    <3>1. elapsed'[c] <= Timeout
      BY <1>0, <2>1, <2>3, Constants DEF MustStep
    <3>2. TimeOf(attempt[c]) \in Nat /\ PausesTwice(attempt[c]) \in Nat
      <4>1. attempt[c] \in Nat
        BY <1>0, Constants
      <4> QED
        BY <4>1, Arithmetic
    <3> QED
      BY <1>0, <2>1, <2>3, <3>1, <3>2 DEF InTime
  <2>4. CASE pc[c] = "sleeping"
    <3>1. attempt[c] > 0 /\ attempt[c] \in Nat /\ attempt[c] - 1 \in Nat
      <4>1. attempt[c] \in Nat
        BY <1>0
      <4>2. attempt[c] > 0
        BY <2>4 DEF InTime
      <4> QED
        BY <4>1, <4>2
    <3>2. PauseOf(attempt[c]) \in Nat /\ TimeOf(attempt[c]) \in Nat
      BY <3>1, Arithmetic
    <3>3. PausesTwice(attempt[c] - 1) \in Nat
      BY <3>1, Arithmetic
    <3>4. elapsed'[c] <= PauseOf(attempt[c])
      BY <1>0, <2>1, <2>4, <3>2 DEF MustStep, Pause, PauseOf
    <3> QED
      BY <1>0, <2>1, <2>4, <3>1, <3>2, <3>3, <3>4 DEF InTime
  <2> QED
    BY <1>0, <2>2, <2>3, <2>4
<1>7. ASSUME NEW d \in Callers, d # c, (\E k \in Keys : Call(d, k)) \/ CallerStep(d)
      PROVE  UNCHANGED <<pc[c], attempt[c], elapsed[c], spent[c]>>
  <2>1. \A result : Return(d, result) => UNCHANGED <<pc[c], attempt[c], elapsed[c], spent[c]>>
    BY <1>7 DEF Return, TypeOK
  <2>2. \A flag : Failed(d, flag) => UNCHANGED <<pc[c], attempt[c], elapsed[c], spent[c]>>
    BY <1>7, <2>1 DEF Failed, TypeOK
  <2>3. \A k : StartAttempt(d, k) => UNCHANGED <<pc[c], elapsed[c]>>
    BY <1>7 DEF StartAttempt, TypeOK
  <2>4. CASE CallerStep(d)
    BY <2>1, <2>2, <2>3, <2>4
       DEF CallerStep, ReceiveResult, ReceiveError, ReceivePanic, GiveUp, Resume
  <2>5. ASSUME NEW k \in Keys, Call(d, k)
        PROVE  UNCHANGED <<pc[c], attempt[c], elapsed[c], spent[c]>>
    BY <2>1, <2>3, <2>5 DEF Call, CacheHit, Rejected, Accepted
  <2> QED
    BY <1>7, <2>4, <2>5
<1>8. ASSUME (\E d \in Callers : Look(d) \/ Finish(d)) \/ FinishLate \/ UNCHANGED vars
      PROVE  InTime(c)'
  BY <1>1, <1>8 DEF Look, Finish, FinishLate, vars
<1>9. ASSUME NEW d \in Callers, (\E k \in Keys : Call(d, k)) \/ CallerStep(d)
      PROVE  InTime(c)'
  <2>1. CASE d = c
    BY <1>4, <1>5, <1>9, <2>1 DEF Call, CacheHit, Rejected, Accepted
  <2>2. CASE d # c
    BY <1>1, <1>7, <1>9, <2>2
  <2> QED
    BY <2>1, <2>2
<1> QED
  BY <1>6, <1>8, <1>9 DEF Next

LEMMA TimeStep == TypeOK /\ TimeIsAccountedFor /\ [Next]_vars => TimeIsAccountedFor'
<1>1. TimeIsAccountedFor <=> \A c \in Callers : InTime(c)
  BY DEF TimeIsAccountedFor, InTime
<1>2. TimeIsAccountedFor' <=> \A c \in Callers : InTime(c)'
  BY DEF TimeIsAccountedFor, InTime
<1> QED
  BY <1>1, <1>2, InTimeStep

----------------------------------------------------------------------------
\* How old the looks at the files are.

\* What one look promises.
RecentLooks(c) ==
  /\ worker[c].seen # NotYet =>
       worker[c].seen <= elapsed[c] /\ worker[c].seen <= newest[worker[c].key]
  /\ channel[c].kind = "ok" =>
       channel[c].seen <= elapsed[c] /\ channel[c].seen <= newest[channel[c].key]

LEMMA RecentParts ==
  /\ LooksAreRecent <=> \A c \in Callers : RecentLooks(c)
  /\ LooksAreRecent' <=> \A c \in Callers : RecentLooks(c)'
BY DEF LooksAreRecent, RecentLooks

\* A call that returns a result changes at most the newest look of its own key,
\* and only when no other call is under way for that key.
LEMMA NewestAfterResult ==
  ASSUME TypeOK, OneAttempt, NEW c \in Callers, NEW result \in Answers,
         result.kind = "ok", Return(c, result)
  PROVE  /\ \A k \in Keys : newest'[k] = newest[k] \/ (k = result.key /\ newest'[k] = result.seen)
         /\ \A d \in Callers \ {c} : pc[d] # "idle" => newest'[current[d]] = newest[current[d]]
         /\ newest' \in [Keys -> Ages]
<1>1. result.key \in Keys /\ result.seen \in Ages
  BY DEF Answers, Nothing, Error
<1>2. CASE AloneOn(c, result.key)
  <2>1. newest' = [newest EXCEPT ![result.key] = result.seen]
    BY <1>2 DEF Return
  <2>2. \A d \in Callers \ {c} : pc[d] # "idle" => current[d] # result.key
    BY <1>2 DEF AloneOn
  <2> QED
    BY <1>1, <2>1, <2>2 DEF TypeOK
<1>3. CASE ~AloneOn(c, result.key)
  BY <1>3 DEF Return, TypeOK
<1> QED
  BY <1>2, <1>3

LEMMA SilentAnswers ==
  ASSUME NEW c \in Callers
  PROVE  /\ Return(c, Error) => answer'.kind # "ok" /\ UNCHANGED newest
         /\ Silent => answer'.kind # "ok"
         /\ \A flag : Failed(c, flag) => answer'.kind # "ok" /\ UNCHANGED newest
BY DEF Return, Silent, Failed, Error, Nothing

\* The looks of the callers that a step leaves alone.
LEMMA OtherLooks ==
  ASSUME TypeOK, OneAttempt, NEW d \in Callers, RecentLooks(d),
         UNCHANGED <<worker[d], channel[d], elapsed[d]>>,
         pc[d] # "idle" => newest'[current[d]] = newest[current[d]]
  PROVE  RecentLooks(d)'
<1>1. worker[d].seen # NotYet => pc[d] # "idle" /\ worker[d].key = current[d]
  BY DEF OneAttempt, NoWorker
<1>2. channel[d].kind = "ok" => pc[d] # "idle" /\ channel[d].key = current[d]
  BY DEF OneAttempt, Nothing
<1> QED
  BY <1>1, <1>2 DEF RecentLooks

\* A caller without a thread and without an answer reports nothing.
LEMMA NoLooks ==
  ASSUME NEW c \in Callers, worker'[c].seen = NotYet, channel'[c] = Nothing
  PROVE  RecentLooks(c)'
BY DEF RecentLooks, Nothing

\* What a result returned by c leaves behind.
LEMMA ResultLooks ==
  ASSUME TypeOK, OneAttempt, LooksAreRecent,
         NEW c \in Callers, NEW result \in Answers, result.kind = "ok", Return(c, result),
         worker'[c] = NoWorker, channel'[c] = Nothing,
         \A d \in Callers \ {c} : UNCHANGED <<worker[d], channel[d]>>
  PROVE  LooksAreRecent'
<1>1. \A d \in Callers \ {c} : pc[d] # "idle" => newest'[current[d]] = newest[current[d]]
  BY NewestAfterResult
<1>2. \A d \in Callers \ {c} : UNCHANGED elapsed[d]
  BY DEF Return, TypeOK
<1>3. ASSUME NEW d \in Callers \ {c} PROVE RecentLooks(d)'
  BY <1>1, <1>2, RecentParts, OtherLooks
<1>4. RecentLooks(c)'
  BY NoLooks DEF NoWorker
<1> QED
  BY <1>3, <1>4, RecentParts

\* What NeverGoesBack says of a step.
GoesForward == answer'.kind = "ok" => answer'.seen <= newest[answer'.key]

\* Entries that stay, and a newest look that changes only for another key.
LEMMA SameEntries ==
  ASSUME IsCache(cache), CacheIsGood,
         \A j \in DOMAIN cache' :
           \E i \in DOMAIN cache : /\ cache'[j] = cache[i]
                                 /\ newest'[cache[i].key] = newest[cache[i].key]
  PROVE  CacheIsGood'
BY DEF CacheIsGood, GoodEntry

LEMMA EntryFacts ==
  ASSUME IsCache(cache), NEW i \in DOMAIN cache
  PROVE  /\ cache[i] \in Entry /\ cache[i].key \in Cacheable /\ cache[i].key \in Keys
         /\ cache[i].stored \in Ages /\ cache[i].seen \in Ages
<1>1. cache[i] \in Entry
  BY DEF IsCache
<1> QED
  BY <1>1, Constants DEF Entry

LEMMA FreshHit ==
  ASSUME TypeOK, OneAttempt, LooksAreRecent, CacheIsGood,
         NEW c \in Callers, NEW k \in Keys, CacheHit(c, k)
  PROVE  LooksAreRecent' /\ CacheIsGood' /\ BoundedStaleness' /\ GoesForward
<1>1. IsCache(cache)
  BY TypeParts
<1>2. PICK i \in Cached(k) :
        Fresh(cache[i]) /\ cache' = Promoted(cache[i]) /\ Return(c, Reported(cache[i], "cache"))
  BY DEF CacheHit
<1>3. i \in DOMAIN cache /\ cache[i] \in Entry /\ cache[i].key = k /\ GoodEntry(cache[i])
  BY <1>1 DEF Cached, IsCache, CacheIsGood
<1> DEFINE result == Reported(cache[i], "cache")
<1>4. /\ result \in Answers /\ result.kind = "ok" /\ result.from = "cache"
      /\ result.key = k /\ result.seen = cache[i].seen
  BY <1>3, Constants DEF Reported, Answers, Entry
<1>5. Return(c, result) /\ answer' = result
  BY <1>2 DEF Return
<1> HIDE DEF result
<1>6. worker[c] = NoWorker /\ channel[c] = Nothing /\ UNCHANGED <<worker, channel>>
  BY DEF CacheHit, OneAttempt
<1>7. LooksAreRecent'
  BY <1>4, <1>5, <1>6, ResultLooks
<1>8. /\ \A key \in Keys : newest'[key] = newest[key] \/ (key = k /\ newest'[key] = cache[i].seen)
      /\ newest' \in [Keys -> Ages]
  BY <1>4, <1>5, NewestAfterResult
<1>9. CacheIsGood'
  <2> SUFFICES ASSUME NEW j \in DOMAIN cache' PROVE GoodEntry(cache[j])'
    BY DEF CacheIsGood
  <2>1. PICK n \in DOMAIN cache : cache'[j] = cache[n]
    BY <1>1, <1>2, <1>3, PromotedFacts
  <2>2. cache[n] \in Entry /\ GoodEntry(cache[n]) /\ cache[n].key \in Keys
    BY <1>1, EntryFacts DEF CacheIsGood
  <2>3. CASE newest'[cache[n].key] = newest[cache[n].key]
    BY <2>1, <2>2, <2>3 DEF GoodEntry
  <2>4. CASE cache[n].key = k /\ newest'[k] = cache[i].seen
    <3>1. n = i
      BY <1>1, <1>3, <2>4 DEF IsCache
    <3> QED
      BY <1>3, <2>1, <2>4, <3>1, Constants DEF GoodEntry, Entry
  <2> QED
    BY <1>8, <2>2, <2>3, <2>4
<1>10. BoundedStaleness' /\ GoesForward
  <2>1. cache[i].stored <= TTL /\ cache[i].seen <= cache[i].stored + Timeout
        /\ cache[i].seen <= newest[k]
    BY <1>2, <1>3 DEF Fresh, GoodEntry
  <2>2. cache[i].seen <= Timeout + TTL
    BY <1>3, <2>1, Constants DEF Entry
  <2> QED
    BY <1>4, <1>5, <2>1, <2>2 DEF BoundedStaleness, GoesForward
<1> QED
  BY <1>7, <1>9, <1>10

LEMMA FreshResult ==
  ASSUME TypeOK, OneAttempt, LooksAreRecent, CacheIsGood, TimeIsAccountedFor,
         NEW c \in Callers, ReceiveResult(c)
  PROVE  LooksAreRecent' /\ CacheIsGood' /\ BoundedStaleness' /\ GoesForward
<1>1. IsCache(cache)
  BY TypeParts
<1> DEFINE k == current[c]
           seen == channel[c].seen
           result == Reported(channel[c], "tool")
<1>2. /\ pc[c] = "waiting" /\ channel[c].kind = "ok" /\ channel[c].key = k /\ k \in Keys
      /\ seen \in Ages /\ channel[c] # Nothing
  BY ThreadFacts DEF ReceiveResult, Received, OneAttempt
<1>3. seen <= elapsed[c] /\ seen <= newest[k] /\ elapsed[c] <= Timeout /\ elapsed[c] \in Nat
  BY <1>2 DEF LooksAreRecent, TimeIsAccountedFor, TypeOK
<1>4. /\ result \in Answers /\ result.kind = "ok" /\ result.from = "tool"
      /\ result.key = k /\ result.seen = seen
  BY <1>2 DEF Reported, Answers
<1>5. Return(c, result) /\ answer' = result
  BY DEF ReceiveResult, Return
<1>6. worker[c] = NoWorker /\ channel' = [channel EXCEPT ![c] = Nothing] /\ UNCHANGED worker
  BY <1>2 DEF ReceiveResult, Received, OneAttempt
<1>7. cache' = IF k \in Cacheable THEN Put(k, seen) ELSE cache
  BY DEF ReceiveResult
<1> HIDE DEF result, k, seen
<1>8. LooksAreRecent'
  <2>1. worker'[c] = NoWorker /\ channel'[c] = Nothing
        /\ \A d \in Callers \ {c} : UNCHANGED <<worker[d], channel[d]>>
    BY <1>6 DEF TypeOK
  <2> QED
    BY <1>4, <1>5, <2>1, ResultLooks
<1>9. /\ \A key \in Keys : newest'[key] = newest[key] \/ (key = k /\ newest'[key] = seen)
      /\ newest' \in [Keys -> Ages]
  BY <1>4, <1>5, NewestAfterResult
<1>10. CacheIsGood'
  <2> SUFFICES ASSUME NEW j \in DOMAIN cache' PROVE GoodEntry(cache[j])'
    BY DEF CacheIsGood
  <2>1. ASSUME NEW n \in DOMAIN cache, cache[n].key # k, cache'[j] = cache[n]
        PROVE  GoodEntry(cache[j])'
    <3>1. cache[n] \in Entry /\ GoodEntry(cache[n]) /\ cache[n].key \in Keys
      BY <1>1, EntryFacts DEF CacheIsGood
    <3>2. newest'[cache[n].key] = newest[cache[n].key]
      BY <1>9, <2>1, <3>1
    <3> QED
      BY <2>1, <3>1, <3>2 DEF GoodEntry
  <2>2. ASSUME cache'[j] = [key |-> k, stored |-> 0, seen |-> seen]
        PROVE  GoodEntry(cache[j])'
    <3>1. seen <= 0 + Timeout /\ seen <= newest'[k]
      BY <1>2, <1>3, <1>9, Constants
    <3> QED
      BY <2>2, <3>1 DEF GoodEntry
  <2>3. CASE k \in Cacheable
    <3>1. \/ cache'[j] = [key |-> k, stored |-> 0, seen |-> seen]
          \/ \E n \in DOMAIN cache : cache[n].key # k /\ cache'[j] = cache[n]
      BY <1>1, <1>2, <1>7, <2>3, PutFacts
    <3> QED
      BY <2>1, <2>2, <3>1
  <2>4. CASE k \notin Cacheable
    BY <1>1, <1>7, <2>1, <2>4, EntryFacts
  <2> QED
    BY <2>3, <2>4
<1>11. BoundedStaleness' /\ GoesForward
  BY <1>2, <1>3, <1>4, <1>5, Constants DEF BoundedStaleness, GoesForward
<1> QED
  BY <1>8, <1>10, <1>11

\* A step that reports nothing and keeps the newest looks, the cache and the looks
\* of all the callers but one, who has none left.
LEMMA FreshQuiet ==
  ASSUME TypeOK, OneAttempt, LooksAreRecent, CacheIsGood, NEW c \in Callers,
         UNCHANGED newest, answer'.kind # "ok",
         \A j \in DOMAIN cache' : \E i \in DOMAIN cache : cache'[j] = cache[i],
         \A d \in Callers \ {c} : UNCHANGED <<worker[d], channel[d], elapsed[d]>>,
         worker'[c].seen = NotYet, channel'[c].kind # "ok"
  PROVE  LooksAreRecent' /\ CacheIsGood' /\ BoundedStaleness' /\ GoesForward
<1>1. CacheIsGood'
  BY TypeParts, SameEntries
<1>2. \A d \in Callers \ {c} : RecentLooks(d)'
  BY RecentParts, OtherLooks
<1>3. RecentLooks(c)'
  BY DEF RecentLooks
<1> QED
  BY <1>1, <1>2, <1>3, RecentParts DEF BoundedStaleness, GoesForward

LEMMA FreshCall ==
  ASSUME TypeOK, OneAttempt, LooksAreRecent, CacheIsGood, TimeIsAccountedFor,
         NEW c \in Callers, NEW k \in Keys, Call(c, k)
  PROVE  LooksAreRecent' /\ CacheIsGood' /\ BoundedStaleness' /\ GoesForward
<1>1. CASE CacheHit(c, k)
  BY <1>1, FreshHit
<1>2. ASSUME Miss(k) PROVE \A j \in DOMAIN cache' : \E i \in DOMAIN cache : cache'[j] = cache[i]
  BY <1>2, TypeParts, WithoutKeyFacts DEF Miss
<1>3. CASE Rejected(c, k)
  <2>1. worker[c] = NoWorker /\ channel[c] = Nothing /\ UNCHANGED <<worker, channel>>
    BY <1>3 DEF Rejected, OneAttempt
  <2>2. UNCHANGED newest /\ answer'.kind # "ok"
    BY <1>3, SilentAnswers DEF Rejected
  <2>3. \A d \in Callers \ {c} : UNCHANGED elapsed[d]
    BY <1>3 DEF Rejected, Return, TypeOK
  <2>4. \A j \in DOMAIN cache' : \E i \in DOMAIN cache : cache'[j] = cache[i]
    BY <1>2, <1>3 DEF Rejected
  <2> QED
    BY <2>1, <2>2, <2>3, <2>4, FreshQuiet DEF NoWorker, Nothing
<1>4. CASE Accepted(c, k)
  <2>1. /\ worker'[c].seen = NotYet /\ channel'[c] = Nothing
        /\ \A d \in Callers \ {c} : UNCHANGED <<worker[d], channel[d], elapsed[d]>>
    BY <1>4 DEF Accepted, StartAttempt, TypeOK
  <2>2. UNCHANGED newest /\ answer'.kind # "ok"
    BY <1>4, SilentAnswers DEF Accepted
  <2>3. \A j \in DOMAIN cache' : \E i \in DOMAIN cache : cache'[j] = cache[i]
    BY <1>2, <1>4 DEF Accepted
  <2> QED
    BY <2>1, <2>2, <2>3, FreshQuiet DEF Nothing
<1> QED
  BY <1>1, <1>3, <1>4 DEF Call

LEMMA FreshCaller ==
  ASSUME TypeOK, OneAttempt, LooksAreRecent, CacheIsGood, TimeIsAccountedFor,
         NEW c \in Callers, CallerStep(c)
  PROVE  LooksAreRecent' /\ CacheIsGood' /\ BoundedStaleness' /\ GoesForward
<1>1. CASE ReceiveResult(c)
  BY <1>1, FreshResult
<1>2. ASSUME UNCHANGED cache
      PROVE  \A j \in DOMAIN cache' : \E i \in DOMAIN cache : cache'[j] = cache[i]
  BY <1>2
<1>3. /\ Return(c, Error) => \A d \in Callers \ {c} : UNCHANGED elapsed[d]
      /\ \A flag : Failed(c, flag) => \A d \in Callers \ {c} : UNCHANGED elapsed[d]
  BY DEF Failed, Return, TypeOK
<1>4. CASE ReceiveError(c)
  <2>1. worker[c] = NoWorker /\ UNCHANGED worker /\ channel' = [channel EXCEPT ![c] = Nothing]
    BY <1>4 DEF ReceiveError, Received, OneAttempt, Nothing
  <2>2. UNCHANGED <<newest, cache>> /\ answer'.kind # "ok"
    BY <1>4, SilentAnswers DEF ReceiveError
  <2>3. \A d \in Callers \ {c} : UNCHANGED <<worker[d], channel[d], elapsed[d]>>
    BY <1>3, <1>4, <2>1 DEF ReceiveError, TypeOK
  <2>4. worker'[c].seen = NotYet /\ channel'[c].kind # "ok"
    BY <2>1 DEF NoWorker, Nothing, TypeOK
  <2> QED
    BY <1>2, <2>2, <2>3, <2>4, FreshQuiet
<1>5. CASE ReceivePanic(c)
  <2>1. worker[c] = NoWorker /\ UNCHANGED worker /\ channel' = [channel EXCEPT ![c] = Nothing]
    BY <1>5 DEF ReceivePanic, Received, OneAttempt, Nothing
  <2>2. UNCHANGED <<newest, cache>> /\ answer'.kind # "ok"
    BY <1>5, SilentAnswers DEF ReceivePanic
  <2>3. \A d \in Callers \ {c} : UNCHANGED <<worker[d], channel[d], elapsed[d]>>
    BY <1>3, <1>5, <2>1 DEF ReceivePanic, TypeOK
  <2>4. worker'[c].seen = NotYet /\ channel'[c].kind # "ok"
    BY <2>1 DEF NoWorker, Nothing, TypeOK
  <2> QED
    BY <1>2, <2>2, <2>3, <2>4, FreshQuiet
<1>6. CASE GiveUp(c)
  <2>1. channel[c] = Nothing /\ UNCHANGED channel /\ worker' = [worker EXCEPT ![c] = NoWorker]
    BY <1>6 DEF GiveUp
  <2>2. UNCHANGED <<newest, cache>> /\ answer'.kind # "ok"
    BY <1>6, SilentAnswers DEF GiveUp
  <2>3. \A d \in Callers \ {c} : UNCHANGED <<worker[d], channel[d], elapsed[d]>>
    BY <1>3, <1>6, <2>1 DEF GiveUp, TypeOK
  <2>4. worker'[c].seen = NotYet /\ channel'[c].kind # "ok"
    BY <2>1 DEF NoWorker, Nothing, TypeOK
  <2> QED
    BY <1>2, <2>2, <2>3, <2>4, FreshQuiet
<1>7. CASE Resume(c)
  <2>1. /\ worker'[c].seen = NotYet /\ channel'[c] = Nothing
        /\ \A d \in Callers \ {c} : UNCHANGED <<worker[d], channel[d], elapsed[d]>>
    BY <1>7 DEF Resume, StartAttempt, TypeOK
  <2>2. UNCHANGED <<newest, cache>> /\ answer'.kind # "ok"
    BY <1>7, SilentAnswers DEF Resume
  <2> QED
    BY <1>2, <2>1, <2>2, FreshQuiet DEF Nothing
<1> QED
  BY <1>1, <1>4, <1>5, <1>6, <1>7 DEF CallerStep

LEMMA FreshTool ==
  ASSUME TypeOK, OneAttempt, LooksAreRecent, CacheIsGood,
         (\E c \in Callers : Look(c) \/ Finish(c)) \/ FinishLate
  PROVE  LooksAreRecent' /\ CacheIsGood' /\ BoundedStaleness' /\ GoesForward
<1>1. /\ answer'.kind # "ok" /\ UNCHANGED <<cache, newest, pc, current, elapsed>>
  BY SilentAnswers DEF Look, Finish, FinishLate, Silent, Nothing
<1>2. CacheIsGood' /\ BoundedStaleness' /\ GoesForward
  BY <1>1 DEF CacheIsGood, GoodEntry, BoundedStaleness, GoesForward
<1>3. ASSUME NEW c \in Callers, Look(c) PROVE LooksAreRecent'
  <2>1. worker[c] \in Looking /\ worker[c].key = current[c] /\ current[c] \in Keys
    BY <1>3, ThreadFacts DEF Look, OneAttempt
  <2>2. worker'[c].seen = 0 /\ worker'[c].key = current[c] /\ UNCHANGED channel
    BY <1>3, <2>1 DEF Look, Looking, TypeOK
  <2>3. newest[current[c]] \in Nat /\ elapsed[c] \in Nat
    BY <2>1, Constants DEF TypeOK
  <2>4. RecentLooks(c)'
    BY <1>1, <2>2, <2>3, RecentParts DEF RecentLooks
  <2>5. ASSUME NEW d \in Callers, d # c PROVE RecentLooks(d)'
    <3>1. UNCHANGED <<worker[d], channel[d], elapsed[d]>>
      BY <1>3, <2>5 DEF Look, TypeOK
    <3> QED
      BY <1>1, <3>1, RecentParts DEF RecentLooks
  <2> QED
    BY <2>4, <2>5, RecentParts
<1>4. ASSUME NEW c \in Callers, Finish(c) PROVE LooksAreRecent'
  <2>1. worker[c] \in Looking /\ RecentLooks(c)
    BY <1>4, ThreadFacts, RecentParts DEF Finish
  <2>2. PICK outcome \in OutcomesOf(worker[c]) :
          channel' = [channel EXCEPT ![c] = outcome] /\ worker' = [worker EXCEPT ![c] = NoWorker]
    BY <1>4 DEF Finish
  <2>3. channel'[c] = outcome /\ worker'[c].seen = NotYet
    BY <2>2 DEF TypeOK, NoWorker
  <2>4. outcome.kind = "ok" =>
          /\ worker[c].seen # NotYet
          /\ outcome.key = worker[c].key /\ outcome.seen = worker[c].seen
    BY <2>2 DEF OutcomesOf, Ok, Error, Internal
  <2>5. RecentLooks(c)'
    BY <1>1, <2>1, <2>3, <2>4 DEF RecentLooks
  <2>6. ASSUME NEW d \in Callers, d # c PROVE RecentLooks(d)'
    <3>1. UNCHANGED <<worker[d], channel[d], elapsed[d]>>
      BY <1>1, <2>2, <2>6 DEF TypeOK
    <3> QED
      BY <1>1, <3>1, RecentParts DEF RecentLooks
  <2> QED
    BY <2>5, <2>6, RecentParts
<1>5. CASE FinishLate
  <2>1. UNCHANGED <<worker, channel>>
    BY <1>5 DEF FinishLate, LateChannel
  <2> QED
    <3>1. ASSUME NEW d \in Callers PROVE RecentLooks(d)'
      <4>1. RecentLooks(d)
        BY RecentParts
      <4> QED
        BY <1>1, <2>1, <4>1 DEF RecentLooks
    <3> QED
      BY <1>2, <3>1, RecentParts
<1> QED
  BY <1>2, <1>3, <1>4, <1>5

LEMMA FreshTick ==
  ASSUME TypeOK, OneAttempt, LooksAreRecent, CacheIsGood, Tick
  PROVE  LooksAreRecent' /\ CacheIsGood' /\ BoundedStaleness' /\ GoesForward
<1>1. answer'.kind # "ok"
  BY DEF Tick, Silent, Nothing
<1>2. \A k \in Keys : newest'[k] = Older(newest[k]) /\ newest[k] \in Ages
  BY DEF Tick, TypeOK
<1>3. ASSUME NEW i \in DOMAIN cache' PROVE GoodEntry(cache[i])'
  <2>1. i \in DOMAIN cache /\ cache'[i] = Aged(cache[i])
    BY <1>3, TypeParts, TickedCache
  <2> DEFINE e == cache[i]
  <2>2. e \in Entry /\ e.key \in Keys /\ e.stored \in Ages /\ e.seen \in Ages
    BY <2>1, TypeParts, EntryFacts
  <2>3. e.seen <= e.stored + Timeout /\ e.seen <= newest[e.key]
    BY <2>1 DEF CacheIsGood, GoodEntry
  <2>4. /\ cache'[i].key = e.key /\ cache'[i].stored = Older(e.stored)
        /\ cache'[i].seen = Older(e.seen)
    BY <2>1, <2>2, AgedFacts
  <2> HIDE DEF e
  <2>5. Older(e.seen) <= Older(newest[e.key])
    BY <1>2, <2>2, <2>3, OlderFacts
  <2>6. Older(e.seen) <= Older(e.stored) + Timeout
    BY <2>2, <2>3, Constants DEF Older
  <2> QED
    BY <1>2, <2>2, <2>4, <2>5, <2>6 DEF GoodEntry
<1>4. ASSUME NEW c \in Callers PROVE RecentLooks(c)'
  <2>1. RecentLooks(c) /\ UNCHANGED channel
    BY RecentParts DEF Tick
  <2>2. channel[c] = Nothing
    BY DEF Tick, MustStep, OneAttempt
  <2>3. ASSUME worker'[c].seen # NotYet
        PROVE  worker'[c].seen <= elapsed'[c] /\ worker'[c].seen <= newest'[worker'[c].key]
    <3>1. worker'[c] = AgedThread(worker[c])
      BY DEF Tick
    <3>2. worker[c].seen # NotYet /\ worker[c] # NoWorker
      BY <2>3, <3>1 DEF AgedThread, NoWorker
    <3>3. worker[c] \in Looking /\ pc[c] = "waiting"
      BY <3>2, ThreadFacts DEF OneAttempt
    <3>4. /\ worker[c].seen \in Ages /\ worker[c].key \in Keys
          /\ worker'[c].seen = Older(worker[c].seen) /\ worker'[c].key = worker[c].key
      BY <3>1, <3>2, <3>3 DEF AgedThread, Looking
    <3>5. worker[c].seen <= elapsed[c] /\ worker[c].seen <= newest[worker[c].key]
      BY <2>1, <3>2 DEF RecentLooks
    <3>6. elapsed'[c] = elapsed[c] + 1 /\ elapsed[c] \in Nat
      BY <3>3 DEF Tick, TypeOK
    <3>7. Older(worker[c].seen) <= elapsed[c] + 1
      <4>1. Older(worker[c].seen) <= worker[c].seen + 1 /\ Older(worker[c].seen) \in Ages
        BY <3>4, OlderFacts
      <4> QED
        BY <3>4, <3>5, <3>6, <4>1, Constants
    <3>8. Older(worker[c].seen) <= Older(newest[worker[c].key])
      BY <1>2, <3>4, <3>5, OlderFacts
    <3> QED
      BY <1>2, <3>4, <3>6, <3>7, <3>8
  <2> QED
    BY <2>1, <2>2, <2>3 DEF RecentLooks, Nothing
<1> QED
  BY <1>1, <1>3, <1>4, RecentParts DEF CacheIsGood, BoundedStaleness, GoesForward

LEMMA FreshStep ==
  ASSUME TypeOK, OneAttempt, LooksAreRecent, CacheIsGood, TimeIsAccountedFor, Next
  PROVE  LooksAreRecent' /\ CacheIsGood' /\ BoundedStaleness' /\ GoesForward
BY FreshCall, FreshCaller, FreshTool, FreshTick DEF Next

----------------------------------------------------------------------------
LEMMA ExecutorInit == Init => ExecutorInv
<1> SUFFICES ASSUME Init PROVE ExecutorInv
  OBVIOUS
<1>1. cache = <<>> /\ IsCache(cache)
  BY Constants, EmptySeq DEF Init, IsCache
<1>2. Control
  <2>1. 0 \in 0..MaxRetries /\ AgeCap \in Ages
    BY Constants
  <2> QED
    BY <2>1, ErrorTypes DEF Init, Control
<1>3. Threads
  BY DEF Init, Threads
<1>4. TypeOK
  BY <1>1, <1>2, <1>3, TypeParts
<1>5. OneAttempt /\ LooksAreRecent
  BY DEF Init, OneAttempt, LooksAreRecent, NoWorker, Nothing
<1>6. CacheIsGood
  BY <1>1 DEF CacheIsGood
<1>7. BoundedStaleness
  BY DEF Init, BoundedStaleness, Nothing
<1>8. TimeIsAccountedFor
  BY DEF Init, TimeIsAccountedFor
<1> QED
  BY <1>4, <1>5, <1>6, <1>7, <1>8 DEF ExecutorInv

LEMMA ExecutorStep == ExecutorInv /\ [Next]_vars => ExecutorInv'
<1> SUFFICES ASSUME ExecutorInv, [Next]_vars PROVE ExecutorInv'
  OBVIOUS
<1> USE DEF ExecutorInv
<1>1. TypeOK' /\ OneAttempt' /\ TimeIsAccountedFor'
  BY TypeStep, OneAttemptStep, TimeStep
<1>2. CASE Next
  BY <1>1, <1>2, FreshStep
<1>3. CASE UNCHANGED vars
  BY <1>1, <1>3 DEF vars, LooksAreRecent, CacheIsGood, GoodEntry, BoundedStaleness
<1> QED
  BY <1>2, <1>3

LEMMA ExecutorInvariant == Spec => []ExecutorInv
<1> QED
  BY ExecutorInit, ExecutorStep, PTL DEF Spec

\* Every caller of execute is answered with a result of the call it waits for:
\* an attempt abandoned by execute_with_timeout has a channel of its own, so its
\* late answer is never taken for the answer of a retry or of a later call.
THEOREM ExecutorAnswersItsCall == Spec => []AnswersItsCall
<1>1. ExecutorInv => AnswersItsCall
  BY DEF ExecutorInv, OneAttempt, AnswersItsCall
<1> QED
  BY <1>1, ExecutorInvariant, PTL

\* A reported result was read from the files at most a timeout ago when a tool
\* answered, and at most a timeout and the TTL ago when the cache did.
THEOREM ExecutorBoundsStaleness == Spec => []BoundedStaleness
<1>1. ExecutorInv => BoundedStaleness
  BY DEF ExecutorInv
<1> QED
  BY <1>1, ExecutorInvariant, PTL

LEMMA Monotone ==
  ASSUME NEW a \in Nat, NEW b \in Nat, a <= b
  PROVE  TimeOf(a) <= TimeOf(b) /\ PausesTwice(a) <= PausesTwice(b)
<1>1. \A x, y, f \in Nat : x <= y => f * x <= f * y
  OBVIOUS
<1>2. a * (a + 1) <= b * (b + 1)
  <2>1. a * (a + 1) <= a * (b + 1)
    BY <1>1
  <2>2. a * (b + 1) <= b * (b + 1)
    BY <1>1
  <2> QED
    BY <2>1, <2>2
<1>3. Backoff * (a * (a + 1)) <= Backoff * (b * (b + 1))
  BY <1>1, <1>2, Constants
<1>4. Timeout * a <= Timeout * b
  BY <1>1, Constants
<1> QED
  BY <1>3, <1>4, Constants DEF TimeOf, PausesTwice

\* No call takes longer than its attempts, each cut off at the timeout, and the
\* pauses between them (execute_with_retry, backoff_ms * attempt).
THEOREM ExecutorBoundsCalls == Spec => []CallBound
<1>1. ASSUME ExecutorInv, NEW c \in Callers PROVE spent[c] <= LongestCall
  <2>1. spent[c] \in Nat /\ attempt[c] \in 0..MaxRetries /\ elapsed[c] \in Nat
        /\ pc[c] \in {"idle", "waiting", "sleeping"} /\ attempt[c] \in Nat
    BY <1>1, Constants DEF ExecutorInv, TypeOK
  <2>2. /\ TimeOf(MaxRetries + 1) \in Nat /\ PausesTwice(MaxRetries) \in Nat
        /\ LongestCall = TimeOf(MaxRetries + 1) + PausesTwice(MaxRetries) \div 2
    <3>1. TimeOf(MaxRetries + 1) \in Nat /\ PausesTwice(MaxRetries) \in Nat
      <4>1. MaxRetries \in Nat /\ MaxRetries + 1 \in Nat
        BY Constants
      <4> QED
        BY <4>1, Arithmetic
    <3>2. Backoff * MaxRetries * (MaxRetries + 1) = Backoff * (MaxRetries * (MaxRetries + 1))
      BY Constants
    <3> QED
      BY <3>1, <3>2 DEF LongestCall, TimeOf, PausesTwice
  <2>3. \A time, pauses \in Nat :
          2 * spent[c] <= 2 * time + pauses => spent[c] <= time + pauses \div 2
    BY <2>1
  <2>4. 2 * spent[c] <= 2 * TimeOf(MaxRetries + 1) + PausesTwice(MaxRetries)
    <3>1. CASE pc[c] = "idle"
      BY <1>1, <2>2, <3>1 DEF ExecutorInv, TimeIsAccountedFor
    <3>2. CASE pc[c] = "waiting"
      <4>1. /\ TimeOf(attempt[c] + 1) = TimeOf(attempt[c]) + Timeout
            /\ TimeOf(attempt[c]) \in Nat /\ PausesTwice(attempt[c]) \in Nat
        BY <2>1, Arithmetic
      <4>2. /\ TimeOf(attempt[c] + 1) <= TimeOf(MaxRetries + 1)
            /\ PausesTwice(attempt[c]) <= PausesTwice(MaxRetries)
        BY <2>1, Constants, Monotone
      <4>3. /\ elapsed[c] <= Timeout
            /\ 2 * spent[c] <= 2 * TimeOf(attempt[c]) + PausesTwice(attempt[c]) + 2 * elapsed[c]
        BY <1>1, <3>2 DEF ExecutorInv, TimeIsAccountedFor
      <4>4. Timeout \in Nat
        BY Constants
      <4>5. 2 * spent[c] <= 2 * TimeOf(attempt[c] + 1) + PausesTwice(attempt[c])
        BY <2>1, <4>1, <4>3, <4>4
      <4>6. TimeOf(attempt[c] + 1) \in Nat
        BY <4>1, <4>4
      <4> QED
        BY <2>1, <2>2, <4>1, <4>2, <4>5, <4>6
    <3>3. CASE pc[c] = "sleeping"
      <4> DEFINE a == attempt[c] - 1
      <4>1. /\ attempt[c] > 0 /\ elapsed[c] <= PauseOf(attempt[c])
            /\ 2 * spent[c] <= 2 * TimeOf(attempt[c]) + PausesTwice(a) + 2 * elapsed[c]
        BY <1>1, <3>3 DEF ExecutorInv, TimeIsAccountedFor, Pause, PauseOf
      <4>2. a \in Nat /\ attempt[c] = a + 1
        BY <2>1, <4>1
      <4> HIDE DEF a
      <4>3. PausesTwice(a + 1) = PausesTwice(a) + 2 * PauseOf(a + 1) /\ PausesTwice(a) \in Nat
        BY <4>2, Arithmetic
      <4>4. PauseOf(attempt[c]) \in Nat /\ TimeOf(attempt[c]) \in Nat
        BY <2>1, Arithmetic
      <4>5. /\ TimeOf(attempt[c]) <= TimeOf(MaxRetries + 1)
            /\ PausesTwice(attempt[c]) <= PausesTwice(MaxRetries)
        BY <2>1, Constants, Monotone
      <4> QED
        BY <2>1, <2>2, <4>1, <4>2, <4>3, <4>4, <4>5
    <3> QED
      BY <2>1, <3>1, <3>2, <3>3
  <2> QED
    BY <2>2, <2>3, <2>4
<1>2. ExecutorInv => CallBound
  BY <1>1 DEF CallBound
<1> QED
  BY <1>2, ExecutorInvariant, PTL

\* The files a caller is shown never get older: neither the cache nor the answer of
\* a slow attempt takes a key back behind what a call alone on it has reported.
THEOREM ExecutorNeverGoesBack == Spec => NeverGoesBack
<1>1. ExecutorInv /\ [Next]_vars => [GoesForward]_vars
  BY FreshStep DEF ExecutorInv
<1>2. [GoesForward]_vars => [answer'.kind = "ok" => answer'.seen <= newest[answer'.key]]_vars
  BY DEF GoesForward
<1> QED
  BY <1>1, <1>2, ExecutorInvariant, PTL DEF Spec, NeverGoesBack
=============================================================================
