----------------------------- MODULE ToolExecutor -----------------------------
(***************************************************************************)
(* The agent's tool executor (BuiltinToolRegistry) and its result cache.   *)
(* Several callers share one registry (ToolExecutor: Send + Sync).  A call *)
(* looks in the cache; on a miss each attempt runs the tool in a thread of *)
(* its own and waits for its answer on a channel of its own, for at most   *)
(* Timeout.  A thread that is late is abandoned: it goes on running, and a *)
(* retry may run next to it.                                               *)
(*                                                                         *)
(* Tools only read the project, so what matters of a result is the call it *)
(* answers and HOW LONG AGO the tool looked at the files.  Instants are    *)
(* ages, counted in ticks and capped at AgeCap: no clock is needed.        *)
(***************************************************************************)
EXTENDS Naturals, FiniteSets, SequencesExt

CONSTANTS
  Callers,          \* threads that share the registry
  Keys,             \* cache keys: a tool name and its arguments
  Cacheable,        \* the keys of the tools whose is_cacheable is true
  MaxRetries, Backoff, RetryOnTimeout, RetryOnTransient,  \* ToolRetryConfig
  Timeout,          \* ToolContext::timeout
  TTL, Capacity,    \* of the ToolResultCache
  MaxAbandoned      \* bound: late threads remembered at a time

ASSUME ExecutorConstants ==
  /\ Cacheable \subseteq Keys
  /\ {MaxRetries, Backoff, TTL, MaxAbandoned} \subseteq Nat
  /\ Timeout \in Nat \ {0}
  /\ Capacity \in Nat \ {0}
  /\ {RetryOnTimeout, RetryOnTransient} \subseteq BOOLEAN

VARIABLES
  cache,      \* LruCache, the least recently used entry first
  pc,         \* pc[c]: idle, waiting in recv_timeout, or sleeping before a retry
  current,    \* current[c]: the key of the call c is executing
  attempt,    \* attempt[c]: the loop variable of execute_with_retry
  elapsed,    \* elapsed[c]: time in this wait or sleep
  spent,      \* spent[c]: time since the call began
  worker,     \* worker[c]: the tool thread of the current attempt
  channel,    \* channel[c]: what that thread has sent
  abandoned,  \* threads whose receiver gave up (when they look is of no matter)
  answer,     \* history: what the last step returned to a caller, if it did
  newest      \* history: the age of the newest look at the files that a call,
              \* alone on its key when it returned, has reported

vars == <<cache, pc, current, attempt, elapsed, spent, worker, channel,
          abandoned, answer, newest>>

-----------------------------------------------------------------------------
AgeCap == TTL + Timeout + 1
Ages == 0 .. AgeCap
Older(age) == IF age < AgeCap THEN age + 1 ELSE AgeCap

NotYet == AgeCap + 1     \* in place of an age: the tool has not looked yet
NoWorker == [key |-> "none", seen |-> NotYet]
Nothing == [kind |-> "nothing"]
Ok(key, seen) == [kind |-> "ok", key |-> key, seen |-> seen]
Error == [kind |-> "error"]          \* AgentError::ToolError
Internal == [kind |-> "internal"]    \* the tool panicked

Looking == [key: Keys, seen: Ages \cup {NotYet}]
Outcomes == {Error, Internal} \cup [kind: {"ok"}, key: Keys, seen: Ages]
Answers == {Nothing, Error}
           \cup [kind: {"ok"}, key: Keys, seen: Ages, from: {"tool", "cache"}]

TypeOK ==
  /\ cache \in SeqOf([key: Cacheable, stored: Ages, seen: Ages], Capacity)
  /\ \A i, j \in DOMAIN cache : cache[i].key = cache[j].key => i = j
  /\ pc \in [Callers -> {"idle", "waiting", "sleeping"}]
  /\ current \in [Callers -> Keys \cup {"none"}]
  /\ attempt \in [Callers -> 0 .. MaxRetries]
  /\ elapsed \in [Callers -> Nat] /\ spent \in [Callers -> Nat]
  /\ worker \in [Callers -> Looking \cup {NoWorker}]
  /\ channel \in [Callers -> Outcomes \cup {Nothing}]
  /\ abandoned \subseteq [owner: Callers, key: Keys]
  /\ answer \in Answers
  /\ newest \in [Keys -> Ages]

Init ==
  /\ cache = <<>>
  /\ pc = [c \in Callers |-> "idle"]
  /\ current = [c \in Callers |-> "none"]
  /\ attempt = [c \in Callers |-> 0]
  /\ elapsed = [c \in Callers |-> 0]
  /\ spent = [c \in Callers |-> 0]
  /\ worker = [c \in Callers |-> NoWorker]
  /\ channel = [c \in Callers |-> Nothing]
  /\ abandoned = {}
  /\ answer = Nothing
  /\ newest = [k \in Keys |-> AgeCap]

-----------------------------------------------------------------------------
(* The cache: each method runs under its mutex. *)
Cached(k) == {i \in DOMAIN cache : cache[i].key = k}
Fresh(entry) == entry.stored <= TTL

(* pop: a key has at most one entry. *)
WithoutKey(k) ==
  IF Cached(k) = {} THEN cache ELSE RemoveAt(cache, CHOOSE i \in Cached(k) : TRUE)

(* Mutants of the cache: a hit restarts the TTL; an old entry is kept; no      *)
(* eviction.                                                                  *)
PromotedAsNew(entry) == Append(WithoutKey(entry.key), [entry EXCEPT !.stored = 0])
PutIfAbsent(k, seen) ==
  IF Cached(k) # {} \/ Len(cache) >= Capacity THEN cache
  ELSE Append(cache, [key |-> k, stored |-> 0, seen |-> seen])
PutBeyondCapacity(k, seen) ==
  Append(WithoutKey(k), [key |-> k, stored |-> 0, seen |-> seen])

(* get on a hit makes the entry the most recently used. *)
Promoted(entry) == Append(WithoutKey(entry.key), entry)

(* set replaces the entry of the key, or evicts the least recently used. *)
Put(k, seen) ==
  LET others == WithoutKey(k)
      room == IF Len(others) < Capacity THEN others ELSE Tail(others)
  IN  Append(room, [key |-> k, stored |-> 0, seen |-> seen])

-----------------------------------------------------------------------------
(* A call returns. *)
AloneOn(c, k) == \A d \in Callers \ {c} : pc[d] # "idle" => current[d] # k

Return(c, result) ==
  /\ pc' = [pc EXCEPT ![c] = "idle"]
  /\ current' = [current EXCEPT ![c] = "none"]
  /\ attempt' = [attempt EXCEPT ![c] = 0]
  /\ elapsed' = [elapsed EXCEPT ![c] = 0]
  /\ spent' = [spent EXCEPT ![c] = 0]
  /\ answer' = result
  /\ newest' = IF result.kind = "ok" /\ AloneOn(c, result.key)
               THEN [newest EXCEPT ![result.key] = result.seen]
               ELSE newest

Silent == answer' = Nothing

Reported(outcome, from) ==
  [kind |-> "ok", key |-> outcome.key, seen |-> outcome.seen, from |-> from]

(* thread::spawn, and recv_timeout on a channel of this attempt. *)
StartAttempt(c, k) ==
  /\ pc' = [pc EXCEPT ![c] = "waiting"]
  /\ elapsed' = [elapsed EXCEPT ![c] = 0]
  /\ worker' = [worker EXCEPT ![c] = [key |-> k, seen |-> NotYet]]
  /\ channel' = [channel EXCEPT ![c] = Nothing]

(* execute on a fresh entry: returned before arguments or path are checked. *)
CacheHit(c, k) ==
  /\ pc[c] = "idle" /\ k \in Cacheable
  /\ \E i \in Cached(k) :
       /\ Fresh(cache[i])
       /\ cache' = Promoted(cache[i])
       /\ Return(c, Reported(cache[i], "cache"))
  /\ UNCHANGED <<worker, channel, abandoned>>

(* On a miss the expired entry is gone. *)
Miss(k) ==
  /\ k \in Cacheable => \A i \in Cached(k) : ~Fresh(cache[i])
  /\ cache' = WithoutKey(k)

(* Unknown tool, missing argument, or a path outside the project. *)
Rejected(c, k) ==
  /\ pc[c] = "idle" /\ Miss(k)
  /\ Return(c, Error)
  /\ UNCHANGED <<worker, channel, abandoned>>

Accepted(c, k) ==
  /\ pc[c] = "idle" /\ Miss(k)
  /\ current' = [current EXCEPT ![c] = k]
  /\ Silent
  /\ StartAttempt(c, k)
  /\ UNCHANGED <<attempt, spent, abandoned, newest>>

Call(c, k) == CacheHit(c, k) \/ Rejected(c, k) \/ Accepted(c, k)

-----------------------------------------------------------------------------
(* The waiting caller. *)
ShouldRetry(c, flag) == flag /\ attempt[c] + 1 < MaxRetries + 1

(* An attempt failed with an error that the flag allows to retry. *)
Failed(c, flag) ==
  IF ShouldRetry(c, flag)
  THEN /\ pc' = [pc EXCEPT ![c] = "sleeping"]
       /\ attempt' = [attempt EXCEPT ![c] = @ + 1]
       /\ elapsed' = [elapsed EXCEPT ![c] = 0]
       /\ Silent
       /\ UNCHANGED <<current, spent, newest>>
  ELSE Return(c, Error)

Received(c, kind) ==
  /\ pc[c] = "waiting" /\ channel[c].kind = kind
  /\ channel' = [channel EXCEPT ![c] = Nothing]
  /\ UNCHANGED <<worker, abandoned>>

ReceiveResult(c) ==
  /\ Received(c, "ok")
  /\ cache' = IF current[c] \in Cacheable
              THEN Put(current[c], channel[c].seen) ELSE cache
  /\ Return(c, Reported(channel[c], "tool"))

ReceiveError(c) ==
  /\ Received(c, "error")
  /\ Return(c, Error)
  /\ UNCHANGED cache

ReceivePanic(c) ==
  /\ Received(c, "internal")
  /\ Failed(c, RetryOnTransient)
  /\ UNCHANGED cache

(* Mutants: recv instead of recv_timeout; a pause longer by one backoff. *)
WaitForEver(c) == FALSE /\ UNCHANGED vars
PauseOneMore(c) == Backoff * (attempt[c] + 1)

(* recv_timeout gives up.  The receiver is dropped, the thread is not joined. *)
GiveUp(c) ==
  /\ pc[c] = "waiting" /\ channel[c] = Nothing
  /\ elapsed[c] >= Timeout
  /\ worker' = [worker EXCEPT ![c] = NoWorker]
  /\ abandoned' = IF Cardinality(abandoned) < MaxAbandoned
                  THEN abandoned \cup {[owner |-> c, key |-> current[c]]}
                  ELSE abandoned
  /\ Failed(c, RetryOnTimeout)
  /\ UNCHANGED <<cache, channel>>

Pause(c) == Backoff * attempt[c]

Resume(c) ==
  /\ pc[c] = "sleeping" /\ elapsed[c] >= Pause(c)
  /\ StartAttempt(c, current[c])
  /\ Silent
  /\ UNCHANGED <<cache, current, attempt, spent, abandoned, newest>>

CallerStep(c) ==
  \/ ReceiveResult(c) \/ ReceiveError(c) \/ ReceivePanic(c)
  \/ GiveUp(c) \/ Resume(c)

-----------------------------------------------------------------------------
(* The tool threads: none of them has to make progress. *)
Look(c) ==
  /\ worker[c] # NoWorker /\ worker[c].seen = NotYet
  /\ worker' = [worker EXCEPT ![c].seen = 0]
  /\ Silent
  /\ UNCHANGED <<cache, pc, current, attempt, elapsed, spent, channel,
                 abandoned, newest>>

(* The result of a tool that has looked; an error or a panic at any point. *)
OutcomesOf(thread) ==
  {Error, Internal}
  \cup (IF thread.seen = NotYet THEN {} ELSE {Ok(thread.key, thread.seen)})

Finish(c) ==
  /\ worker[c] # NoWorker
  /\ \E outcome \in OutcomesOf(worker[c]) :
       channel' = [channel EXCEPT ![c] = outcome]
  /\ worker' = [worker EXCEPT ![c] = NoWorker]
  /\ Silent
  /\ UNCHANGED <<cache, pc, current, attempt, elapsed, spent, abandoned,
                 newest>>

(* Mutant: one channel for all the attempts of a caller. *)
SharedChannel(owner, outcome) == [channel EXCEPT ![owner] = outcome]

(* An abandoned thread sends into a channel whose receiver is gone. *)
LateChannel(owner, outcome) == channel

FinishLate ==
  /\ \E t \in abandoned : \E outcome \in {Error, Internal, Ok(t.key, AgeCap)} :
       /\ abandoned' = abandoned \ {t}
       /\ channel' = LateChannel(t.owner, outcome)
  /\ Silent
  /\ UNCHANGED <<cache, pc, current, attempt, elapsed, spent, worker, newest>>

-----------------------------------------------------------------------------
(* Time.  A caller that can take its next step takes it before time passes:  *)
(* the bounds below leave out scheduling delays.                             *)
MustStep(c) ==
  \/ pc[c] = "waiting" /\ (channel[c] # Nothing \/ elapsed[c] >= Timeout)
  \/ pc[c] = "sleeping" /\ elapsed[c] >= Pause(c)

AgedThread(thread) ==
  IF thread.seen = NotYet THEN thread ELSE [thread EXCEPT !.seen = Older(@)]

Tick ==
  /\ \A c \in Callers : ~MustStep(c)
  /\ cache' = [i \in DOMAIN cache |->
                 [cache[i] EXCEPT !.stored = Older(@), !.seen = Older(@)]]
  /\ elapsed' = [c \in Callers |-> IF pc[c] = "idle" THEN 0 ELSE elapsed[c] + 1]
  /\ spent' = [c \in Callers |-> IF pc[c] = "idle" THEN 0 ELSE spent[c] + 1]
  /\ worker' = [c \in Callers |-> AgedThread(worker[c])]
  /\ Silent
  /\ newest' = [k \in Keys |-> Older(newest[k])]
  /\ UNCHANGED <<pc, current, attempt, channel, abandoned>>

Next ==
  \/ \E c \in Callers : \/ \E k \in Keys : Call(c, k)
                        \/ CallerStep(c)
                        \/ Look(c)
                        \/ Finish(c)
  \/ FinishLate
  \/ Tick

(* The callers' threads are scheduled and time passes, however many calls    *)
(* are made meanwhile (hence SF: a call that is answered at once disables    *)
(* Tick for a moment).  Nothing is asked of the tools: a tool may hang.      *)
Fairness == (\A c \in Callers : WF_vars(CallerStep(c))) /\ SF_vars(Tick)

Spec == Init /\ [][Next]_vars /\ Fairness

-----------------------------------------------------------------------------
(* A call is answered with a result of that very call: the late answer of an *)
(* abandoned attempt (execute_with_timeout) never becomes the answer of      *)
(* another call that the same caller has begun since.                        *)
AnswersItsCall ==
  \A c \in Callers :
    pc[c] # "idle" /\ channel[c].kind = "ok" => channel[c].key = current[c]

(* How stale a result can be: the tool looked at the files during this       *)
(* attempt, or during the attempt whose result the cache has kept for at     *)
(* most its TTL.  Hits, evictions and retries do not extend it.              *)
BoundedStaleness ==
  answer.kind = "ok" =>
    answer.seen <= IF answer.from = "tool" THEN Timeout ELSE Timeout + TTL

(* A call takes no longer than its attempts and the pauses between them,     *)
(* whatever the tools do.                                                    *)
LongestCall ==
  (MaxRetries + 1) * Timeout + (Backoff * MaxRetries * (MaxRetries + 1)) \div 2

CallBound == \A c \in Callers : spent[c] <= LongestCall

(* Once a call that was alone on its key has reported the project as of some *)
(* moment, no later call for that key reports it as of an earlier one: the   *)
(* cache and late answers never take the agent back in time.                 *)
NeverGoesBack ==
  [][answer'.kind = "ok" => answer'.seen <= newest[answer'.key]]_vars

(* Every call returns, even if every tool thread hangs. *)
CallReturns == \A c \in Callers : pc[c] # "idle" ~> pc[c] = "idle"
=============================================================================
