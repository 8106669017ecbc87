---------------------------- MODULE LlamaContext ----------------------------
(***************************************************************************)
(* The inference context of chatvcode-llm (LlamaContext) and the call that *)
(* LlamaService makes of it for a turn of a conversation: infer_cached,    *)
(* which is infer_incremental on the formatted prompt.                     *)
(*                                                                         *)
(* Tokens are strings.  What the model samples is chosen freely: an answer *)
(* is any sequence of at most MaxTokens words, at most its last one being  *)
(* a word that completes a stop string.                                    *)
(***************************************************************************)
EXTENDS Integers, Sequences, SequencesExt

CONSTANTS
  NCtx,         \* capacity of the context, in tokens
  MaxTokens,    \* GenerationParams::max_tokens
  AnswerWords,  \* tokens the model may generate
  StopWords     \* those of them that complete one of the stop_strings

ASSUME ContextAssumption ==
  /\ NCtx \in Nat
  /\ MaxTokens \in Nat
  /\ StopWords \subseteq AnswerWords

VARIABLES
  kv,            \* the tokens in the KV cache of llama.cpp, in order
  cached_tokens  \* what the context believes is their number

contextVars == <<kv, cached_tokens>>

Answers ==
  {text \in BoundedSeq(AnswerWords, MaxTokens) :
     \A i \in 1..Len(text) - 1 : text[i] \notin StopWords}

\* A chat template: every message between its role and an end marker, then the
\* marker that invites the assistant to continue.
Format(msgs) ==
  FlattenSeq([i \in 1..Len(msgs) |->
                <<msgs[i].role>> \o msgs[i].content \o <<"end">>])
    \o <<"assistant">>

\* LlamaService::format_prompt: whatever text the service is given becomes the
\* one user message of a template of its own.
FormatPrompt(text) == Format(<<[role |-> "user", content |-> text]>>)

\* The generation loop decodes every sampled token except one that completes a
\* stop string: the loop returns before it.
Decoded(text) ==
  IF text # <<>> /\ Last(text) \in StopWords THEN Front(text) ELSE text

Answer(text, cache, counted) ==
  [ok |-> TRUE, text |-> text, kv |-> cache, cached |-> counted]
Failure(cache, counted) ==
  [ok |-> FALSE, text |-> <<>>, kv |-> cache, cached |-> counted]

\* Mutant of Generations: the sampled tokens are decoded but not counted.
GenerationsUncounted(cache, counted, batch) ==
  LET start == cache \o batch
      n == counted + Len(batch)
  IN {Failure(cache, counted)} \cup
     {Answer(text, start \o Decoded(text), n) :
        text \in {t \in Answers : Len(start \o Decoded(t)) <= NCtx}}

\* What can come of decoding batch after the tokens in cache, of which the
\* context has counted some, and generating: an answer; or a decode that fails,
\* of the batch or of a sampled token, for lack of room or otherwise, which
\* leaves the tokens decoded before it.  decode_batch adds to the count the
\* size of every batch that llama_decode accepts.
Generations(cache, counted, batch) ==
  LET start == cache \o batch
      n == counted + Len(batch)
      room == NCtx - Len(start)
  IN {Failure(cache, counted)} \cup
     {Answer(text, start \o Decoded(text), n + Len(Decoded(text))) :
        text \in {t \in Answers : Len(Decoded(t)) <= room}} \cup
     {Failure(start \o Front(text), n + Len(text) - 1) :
        text \in {t \in Answers : /\ t # <<>>
                                  /\ Decoded(t) = t
                                  /\ Len(t) - 1 <= room}}

\* infer: the cache is cleared first.
Infer(prompt) == Generations(<<>>, 0, prompt)

\* Mutant of InferIncremental: a count of 0 is not taken for a new conversation.
InferIncrementalUncleared(prompt, count) ==
  IF count > Len(prompt) THEN {Failure(<<>>, 0)}
  ELSE IF cached_tokens = 0 THEN Infer(prompt)
  ELSE IF count = Len(prompt) THEN {Failure(kv, cached_tokens)}
  ELSE Generations(kv, cached_tokens, SubSeq(prompt, count + 1, Len(prompt)))

\* infer_incremental: the first count tokens of the prompt are taken to be in
\* the cache already, and the rest of it is decoded behind whatever is there.
InferIncremental(prompt, count) ==
  IF count > Len(prompt) THEN {Failure(<<>>, 0)}
  ELSE IF count = 0 \/ cached_tokens = 0 THEN Infer(prompt)
  ELSE IF count = Len(prompt) THEN {Failure(kv, cached_tokens)}
  ELSE Generations(kv, cached_tokens, SubSeq(prompt, count + 1, Len(prompt)))

\* The count that infer_incremental returns with an answer.
NewCached(prompt, text) == Len(prompt) + Len(text)

ContextInit == kv = <<>> /\ cached_tokens = 0

\* The context after an outcome of a call.
ContextAfter(outcome) ==
  kv' = outcome.kv /\ cached_tokens' = outcome.cached

\* A new service, with a context of its own.
NewContext == kv' = <<>> /\ cached_tokens' = 0
=============================================================================
