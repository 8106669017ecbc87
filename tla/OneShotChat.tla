---------------------------- MODULE OneShotChat -----------------------------
(***************************************************************************)
(* One question, one answer: the generation loops of context.rs when they  *)
(* answer at once and when they stream, the mock that stands for a model,  *)
(* and the two ways the CLI takes the answer.                              *)
(*                                                                         *)
(* A text is a sequence of bytes: "a" and " " are characters of one byte,  *)
(* "h" and then "t" one of two.  What a model does is [samples, fails,     *)
(* stalls, cancel]: the tokens it samples, the decode that fails, the one  *)
(* that takes more than the receiver's 120 seconds, and the step before    *)
(* which the answer is cancelled (decode 0 is that of the prompt).  A      *)
(* token is the bytes of its piece, or the end of the answer.              *)
(***************************************************************************)
EXTENDS Integers, Sequences, SequencesExt

Ok(v) == [ok |-> TRUE, value |-> v]
Err(what) == [ok |-> FALSE, value |-> what]

Eos == <<"eos">>
Unknown == "?"

Flat(pieces) == FoldLeft(LAMBDA text, p : text \o p, <<>>, pieces)

\* String::from_utf8_lossy: bytes that make no character are replaced.
Lossy(bytes) ==
  Flat([i \in DOMAIN bytes |->
          CASE bytes[i] \in {"a", " "} -> <<bytes[i]>>
            [] bytes[i] = "h" -> IF i < Len(bytes) /\ bytes[i + 1] = "t" THEN <<"h">> ELSE <<Unknown>>
            [] bytes[i] = "t" -> IF i > 1 /\ bytes[i - 1] = "h" THEN <<"t">> ELSE <<Unknown>>])

\* token_to_piece, detokenize_all
TokenToPiece(token) == Lossy(token)
DetokenizeAll(tokens) == Lossy(Flat(tokens))

\* str::contains
HasText(text, s) == \E i \in 1..(Len(text) + 1 - Len(s)) : SubSeq(text, i, i + Len(s) - 1) = s

\* The first of the stop strings that the answer contains.
StopsIn(params, text) == SelectSeq(params.stop_strings, LAMBDA s : HasText(text, s))

----------------------------------------------------------------------------
(* The loop over params.max_tokens *)

NotEnded == "no"
Ended(run, why) == [run EXCEPT !.end = why]

\* Mutant of Generate: the stop strings are looked for in the last piece.
GenerateStoppingInPiece(run, i, params, model) ==
  LET tokens == Append(run.tokens, model.samples[i])
      stops == StopsIn(params, DetokenizeAll(<<model.samples[i]>>))
  IN IF run.end # NotEnded THEN run
     ELSE IF model.cancel <= i THEN Ended(run, "cancelled")
     ELSE IF model.samples[i] = Eos THEN Ended(run, "eos")
     ELSE IF stops # <<>> THEN [tokens |-> tokens, end |-> "stop", stop |-> stops[1]]
     ELSE IF model.fails = i THEN Ended([run EXCEPT !.tokens = tokens], "failed")
     ELSE [run EXCEPT !.tokens = tokens]

\* One iteration: cancelled, at its end, or one more token, which may complete
\* a stop string, and whose decode may fail.
Generate(run, i, params, model) ==
  LET tokens == Append(run.tokens, model.samples[i])
      stops == StopsIn(params, DetokenizeAll(tokens))
  IN IF run.end # NotEnded THEN run
     ELSE IF model.cancel <= i THEN Ended(run, "cancelled")
     ELSE IF model.samples[i] = Eos THEN Ended(run, "eos")
     ELSE IF stops # <<>> THEN [tokens |-> tokens, end |-> "stop", stop |-> stops[1]]
     ELSE IF model.fails = i THEN Ended([run EXCEPT !.tokens = tokens], "failed")
     ELSE [run EXCEPT !.tokens = tokens]

NothingYet == [tokens |-> <<>>, end |-> NotEnded, stop |-> <<>>]

Generation(params, model) ==
  IF model.fails = 0 THEN Ended(NothingYet, "failed")
  ELSE FoldLeft(LAMBDA run, i : Generate(run, i, params, model), NothingYet,
                [i \in 1..params.max_tokens |-> i])

----------------------------------------------------------------------------
(* At once *)

Response(text, stop_reason, completion_tokens) ==
  [text |-> text, stop_reason |-> stop_reason, completion_tokens |-> completion_tokens]

\* infer, after the prompt was formatted and tokenized.
Infer(params, model) ==
  LET run == Generation(params, model)
      stop_reason == CASE run.end = "cancelled" -> "Cancelled"
                       [] run.end = "stop" -> "StopString"
                       [] OTHER -> IF Len(run.tokens) >= params.max_tokens THEN "MaxTokens" ELSE "Eos"
  IN IF run.end = "failed" THEN Err("inference")
     ELSE Ok(Response(DetokenizeAll(run.tokens), stop_reason, Len(run.tokens)))

\* Mutant of InferBatch: a prompt that fails is left out.
InferBatchSkipping(params, models) ==
  FoldLeft(LAMBDA results, model :
             IF results.value.cancelled THEN results
             ELSE IF model.cancel = 0 THEN Ok([results.value EXCEPT !.cancelled = TRUE])
             ELSE IF ~Infer(params, model).ok THEN results
             ELSE Ok([results.value EXCEPT !.answers = Append(@, Infer(params, model).value)]),
           Ok([answers |-> <<>>, cancelled |-> FALSE]), models)

\* infer_batch: a cancelled batch has the answers of its first prompts.
InferBatch(params, models) ==
  FoldLeft(LAMBDA results, model :
             IF ~results.ok \/ results.value.cancelled THEN results
             ELSE IF model.cancel = 0 THEN Ok([results.value EXCEPT !.cancelled = TRUE])
             ELSE IF ~Infer(params, model).ok THEN Infer(params, model)
             ELSE Ok([results.value EXCEPT !.answers = Append(@, Infer(params, model).value)]),
           Ok([answers |-> <<>>, cancelled |-> FALSE]), models)

----------------------------------------------------------------------------
(* Streamed *)

Token(piece) == [event |-> "token", piece |-> piece]
Event(name) == [event |-> name]

\* Mutant of Pieces: the token that completes a stop string is not emitted.
PiecesBeforeStop(run) ==
  LET pieces == [i \in DOMAIN run.tokens |-> TokenToPiece(run.tokens[i])]
      emitted == IF run.end = "stop" THEN Front(pieces) ELSE pieces
  IN SelectSeq(emitted, LAMBDA piece : piece # <<>>)

\* What is emitted: a token has its piece before its stop strings are looked for.
Pieces(run) ==
  SelectSeq([i \in DOMAIN run.tokens |-> TokenToPiece(run.tokens[i])], LAMBDA piece : piece # <<>>)

LastEvent(run) ==
  CASE run.end = "cancelled" -> "cancelled"
    [] run.end = "failed" -> "error"
    [] OTHER -> "completed"

\* infer_stream, and the service's thread: the events in their order.
InferStream(params, model) ==
  LET run == Generation(params, model)
  IN (IF model.fails = 0 THEN <<>> ELSE <<Event("started")>>)
     \o [i \in DOMAIN Pieces(run) |-> Token(Pieces(run)[i])]
     \o <<Event(LastEvent(run))>>

\* Mutant of InferStreamIncremental: only the count is looked at.
InferStreamByCount(prompt_n, cached_count, in_cache, params, model) ==
  IF cached_count \notin 0..prompt_n \/ (cached_count = prompt_n /\ cached_count # 0) THEN <<Event("error")>>
  ELSE InferStream(params, model)

\* infer_stream_incremental, given how much of the prompt is in the cache; the
\* service creates its context anew, so that nothing is.
InferStreamIncremental(prompt_n, cached_count, in_cache, params, model) ==
  IF cached_count \notin 0..prompt_n THEN <<Event("error")>>
  ELSE IF cached_count # 0 /\ in_cache # 0 /\ cached_count = prompt_n THEN <<Event("error")>>
  ELSE InferStream(params, model)

\* What the receiver makes of an event; nothing is received behind the last one.
Received(acc, event) ==
  CASE acc.end # NotEnded -> acc
    [] acc.end = NotEnded /\ event.event = "started" -> acc
    [] acc.end = NotEnded /\ event.event = "token" ->
         [acc EXCEPT !.text = @ \o event.piece, !.token_count = @ + 1]
    [] acc.end = NotEnded /\ event.event \notin {"started", "token"} -> [acc EXCEPT !.end = event.event]

\* As the receiver sees it, a decode that takes more than its 120 seconds fails.
WithinTimeout(model) == [model EXCEPT !.fails = IF model.stalls < @ THEN model.stalls ELSE @]

\* The receiving loop of run_chat_streaming and run_chat_llm_only.
Receive(events) ==
  LET acc == FoldLeft(Received, [text |-> <<>>, token_count |-> 0, end |-> NotEnded], events)
  IN IF acc.end = "error" THEN Err("inference")
     ELSE Ok(Response(acc.text, "Eos", acc.token_count))

----------------------------------------------------------------------------
(* How a token is chosen; probabilities are in percent *)

\* GenerationParams::default
DefaultParams ==
  [temperature |-> 70, top_p |-> 90, top_k |-> 40, min_p |-> 0, repeat_penalty |-> 110]
\* GenerationParams::greedy
GreedyParams == [DefaultParams EXCEPT !.temperature = 0, !.top_p = 100, !.top_k = 1]

When(condition, stages) == IF condition THEN stages ELSE <<>>

\* Mutant of BuildSamplerChain: a temperature is set whatever it is.
BuildSamplerChainWarm(params) ==
  When(params.top_k > 0, <<"top_k">>) \o When(params.top_p < 100, <<"top_p">>) \o <<"temp", "dist">>

\* build_sampler_chain
BuildSamplerChain(params) ==
  When(params.repeat_penalty # 100, <<"penalties">>)
  \o When(params.top_k > 0, <<"top_k">>)
  \o When(params.top_p < 100, <<"top_p">>)
  \o When(params.min_p > 0, <<"min_p">>)
  \o (IF params.temperature <= 0 THEN <<"greedy">> ELSE <<"temp", "dist">>)

\* default_sampler_chain
DefaultSamplerChain == <<"top_k", "top_p", "temp", "dist">>

----------------------------------------------------------------------------
(* The mock: its response is what it was given *)

Words(text) ==
  LET Grow(acc, byte) == IF byte = " " THEN Append(acc, <<>>)
                         ELSE Append(Front(acc), Append(Last(acc), byte))
  IN SelectSeq(FoldLeft(Grow, <<<<>>>>, text), LAMBDA word : word # <<>>)

AtLeast1(n) == IF n < 1 THEN 1 ELSE n

\* Mutant of MockInfer: a byte is a token where it is cut.
MockInferInBytes(params, text, cancelled) ==
  LET actual == AtLeast1(Len(text) \div 4)
  IN IF cancelled THEN Ok(Response(<<>>, "Cancelled", 0))
     ELSE IF Len(text) > params.max_tokens
     THEN IF text[params.max_tokens + 1] = "t" THEN Err("panic")
          ELSE Ok(Response(SubSeq(text, 1, params.max_tokens), "MaxTokens", actual))
     ELSE Ok(Response(text, "Eos", actual))

\* MockLlmService::infer, four bytes a token: it is cut at a byte, which must be
\* the first of a character.
MockInfer(params, text, cancelled) ==
  LET cut == 4 * params.max_tokens
      answer == IF AtLeast1(Len(text) \div 4) > params.max_tokens THEN SubSeq(text, 1, cut) ELSE text
      actual == AtLeast1(Len(answer) \div 4)
  IN IF cancelled THEN Ok(Response(<<>>, "Cancelled", 0))
     ELSE IF Len(answer) < Len(text) /\ text[cut + 1] = "t" THEN Err("panic")
     ELSE Ok(Response(answer, IF actual >= params.max_tokens THEN "MaxTokens" ELSE "Eos", actual))

\* MockLlmService::infer_stream, a word a token.
MockStream(params, text, cancelled) ==
  LET words == Words(text)
      sent == SubSeq(words, 1, IF Len(words) < params.max_tokens THEN Len(words) ELSE params.max_tokens)
  IN IF cancelled /\ words # <<>> THEN <<Event("started"), Event("cancelled")>>
     ELSE <<Event("started")>>
          \o [i \in DOMAIN sent |-> Token(IF i = 1 THEN sent[i] ELSE <<" ">> \o sent[i])]
          \o <<Event("completed")>>

----------------------------------------------------------------------------
(* The commands *)

\* The prompt of a chat without code: the system prompt that was typed, or the CLI's.
LlmOnlyMessages(flags) ==
  <<[role |-> "system", content |-> IF flags.system_prompt # <<>> THEN flags.system_prompt[1] ELSE "helpful"],
    [role |-> "user", content |-> flags.question]>>

\* run_chat_llm_only, once its prompt is made.
RunChatLlmOnly(stream, params, model) ==
  IF stream THEN Receive(InferStream(params, WithinTimeout(model))) ELSE Infer(params, model)

\* The system prompt of a question about code, by what was retrieved for it.
RagSystemPrompt(sources, options) ==
  IF sources = <<>> THEN "no context" ELSE IF options.system_prompt # <<>> THEN options.system_prompt[1] ELSE "default"

\* Mutant of RunChatRag: the streamed chat keeps its system prompt without any code.
RunChatRagPromptKept(stream, retrieved, options, params, model) ==
  LET sources == IF stream THEN <<"any">> ELSE retrieved.value
      answer == RunChatLlmOnly(stream, params, model)
  IN IF ~retrieved.ok THEN retrieved
     ELSE IF ~answer.ok THEN answer
     ELSE Ok([system |-> RagSystemPrompt(sources, options), sources |-> retrieved.value, answer |-> answer.value])

\* chat_with_context and chat_with_context_stream, and how the CLI runs them: what
\* is retrieved comes first, and without it there is no answer.
RunChatRag(stream, retrieved, options, params, model) ==
  LET answer == RunChatLlmOnly(stream, params, model)
  IN IF ~retrieved.ok THEN retrieved
     ELSE IF ~answer.ok THEN answer
     ELSE Ok([system |-> RagSystemPrompt(retrieved.value, options), sources |-> retrieved.value, answer |-> answer.value])
=============================================================================
