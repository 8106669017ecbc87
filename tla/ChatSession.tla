---------------------------- MODULE ChatSession ----------------------------
(***************************************************************************)
(* A conversation: ChatSession of chatvcode-llm, the inference context it  *)
(* talks to, and the operations the interactive chat of the CLI performs   *)
(* on both (/clear, /save, /load, /model switch).                          *)
(*                                                                         *)
(* Everything here is synchronous: chat() holds the session while the      *)
(* service runs, so a turn is one action.  The hazards are the sequences   *)
(* of turns: the session keeps a count of cached tokens, the context keeps *)
(* the tokens, and trimming, failures and commands change one of the two.  *)
(*                                                                         *)
(* The estimate of the tokens of a text is its number of tokens.           *)
(***************************************************************************)
EXTENDS LlamaContext

CONSTANTS
  Questions,      \* contents of user messages (sequences of tokens)
  SystemPrompts,  \* contents of system prompts
  MaxContext,     \* max_context_tokens; 0 is no limit
  Reserve,        \* reserve_for_response
  MaxTurns,       \* max_history_turns of the first session; 0 is no limit
  MaxMessages,    \* bound on the length of a history that is added to
  MaxSaved        \* bound on the length of a history that is saved

ASSUME SessionAssumption ==
  /\ MaxContext \in Nat
  /\ Reserve \in Nat
  /\ MaxTurns \in Nat
  /\ MaxMessages \in Nat
  /\ MaxSaved \in Nat
  /\ Questions \cup SystemPrompts \subseteq Seq(STRING)

\* The words of users and of system prompts can be told from the markers of the
\* chat template and from what the model generates.
ASSUME WordsAssumption ==
  \A text \in Questions \cup SystemPrompts :
    Range(text) \cap (AnswerWords \cup {"user", "assistant", "system", "end"}) = {}

VARIABLES
  system_prompt,      \* <<>> is None
  messages,
  max_history_turns,
  kv_cache_state,     \* the tokens the session believes are in the cache
  saved,              \* the session file of /save and /load
  call,               \* the last turn, until another operation (observation)
  conversation        \* the words of the user in this conversation (history)

sessionVars == <<system_prompt, messages, max_history_turns, kv_cache_state>>
vars == <<contextVars, sessionVars, saved, call, conversation>>

----------------------------------------------------------------------------
None == <<>>
User(text) == [role |-> "user", content |-> text]
Assistant(text) == [role |-> "assistant", content |-> text]
System(text) == IF text = None THEN <<>>
                ELSE <<[role |-> "system", content |-> text]>>

OVERHEAD_PER_MSG == 4

\* token_estimate_messages
TokenEstimate(msgs) ==
  LET total[n \in 0..Len(msgs)] ==
        IF n = 0 THEN 0 ELSE total[n - 1] + Len(msgs[n].content) + OVERHEAD_PER_MSG
  IN total[Len(msgs)]

SaturatingSub(a, b) == IF a > b THEN a - b ELSE 0

\* Mutant of HistoryBudget: the room for the response is forgotten.
HistoryBudgetUnreserved ==
  SaturatingSub(MaxContext, TokenEstimate(System(system_prompt)))

\* What trim_history leaves for the messages.
HistoryBudget ==
  SaturatingSub(SaturatingSub(MaxContext, Reserve),
                TokenEstimate(System(system_prompt)))

\* Mutant of TrimHistory: two messages are removed at a time.
TrimHistoryByPairs(msgs) ==
  IF MaxContext = 0 \/ msgs = <<>> THEN msgs
  ELSE IF HistoryBudget = 0 THEN <<>>
  ELSE LET fits(i) ==
             /\ i % 2 = 1
             /\ TokenEstimate(SubSeq(msgs, i, Len(msgs))) <= HistoryBudget
       IN SubSeq(msgs, Min({i \in 1..Len(msgs) : i = Len(msgs) \/ fits(i)}),
                 Len(msgs))

\* trim_history: messages.remove(0) until what remains is within the budget or
\* one message is left; without a budget everything goes.
TrimHistory(msgs) ==
  IF MaxContext = 0 \/ msgs = <<>> THEN msgs
  ELSE IF HistoryBudget = 0 THEN <<>>
  ELSE LET fits(i) ==
             \/ i = Len(msgs)
             \/ TokenEstimate(SubSeq(msgs, i, Len(msgs))) <= HistoryBudget
       IN SubSeq(msgs, Min({i \in 1..Len(msgs) : fits(i)}), Len(msgs))

\* Mutant of TrimmedMessages: the slice is taken from the wrong end.
TrimmedMessagesOldest(msgs) ==
  IF max_history_turns > 0 /\ Len(msgs) > 2 * max_history_turns
  THEN SubSeq(msgs, 1, 2 * max_history_turns)
  ELSE msgs

\* trimmed_messages: the last max_history_turns turns.
TrimmedMessages(msgs) ==
  IF max_history_turns > 0 /\ Len(msgs) > 2 * max_history_turns
  THEN SubSeq(msgs, Len(msgs) - 2 * max_history_turns + 1, Len(msgs))
  ELSE msgs

BuildPrompt(msgs) == Format(System(system_prompt) \o TrimmedMessages(msgs))

\* The history with a new question, trimmed, and the tokens of its prompt as
\* the service gives them to the context.
Asked(question) == TrimHistory(Append(messages, User(question)))
PromptTokens(question) == FormatPrompt(BuildPrompt(Asked(question)))

NoCall == [via |-> "none", question |-> <<>>, history |-> <<>>,
           prompt |-> <<>>, count |-> 0, ok |-> FALSE, text |-> <<>>]
Call(via, question, ok, text) ==
  [via |-> via, question |-> question, history |-> Asked(question),
   prompt |-> PromptTokens(question), count |-> kv_cache_state,
   ok |-> ok, text |-> text]

NoSession == [readable |-> FALSE, system_prompt |-> None, messages |-> <<>>]

----------------------------------------------------------------------------
Init ==
  /\ ContextInit
  /\ system_prompt \in SystemPrompts
  /\ messages = <<>>
  /\ max_history_turns = MaxTurns
  /\ kv_cache_state = 0
  /\ saved = NoSession
  /\ call = NoCall
  /\ conversation = {}

\* chat(), answered: the count returned by the service is kept, whatever it is.
ChatAnswered(question) ==
  /\ Len(messages) < MaxMessages
  /\ \E outcome \in InferIncremental(PromptTokens(question), kv_cache_state) :
       /\ outcome.ok
       /\ ContextAfter(outcome)
       /\ messages' = Append(Asked(question), Assistant(outcome.text))
       /\ kv_cache_state' = NewCached(PromptTokens(question), outcome.text)
       /\ call' = Call("chat", question, TRUE, outcome.text)
  /\ conversation' = conversation \cup Range(question)
  /\ UNCHANGED <<system_prompt, max_history_turns, saved>>

\* chat(), when the service fails: the question and the old count stay.
ChatFailed(question) ==
  /\ Len(messages) < MaxMessages
  /\ \E outcome \in InferIncremental(PromptTokens(question), kv_cache_state) :
       /\ ~outcome.ok
       /\ ContextAfter(outcome)
  /\ messages' = Asked(question)
  /\ call' = Call("chat", question, FALSE, <<>>)
  /\ conversation' = conversation \cup Range(question)
  /\ UNCHANGED <<system_prompt, max_history_turns, kv_cache_state, saved>>

\* chat() or chat_stream(), when the prompt cannot be built or tokenized, or
\* the thread of the stream not be started: the service has done nothing.
ChatRefused(question) ==
  /\ Len(messages) < MaxMessages
  /\ messages' = Asked(question)
  /\ call' = Call("refused", question, FALSE, <<>>)
  /\ conversation' = conversation \cup Range(question)
  /\ UNCHANGED <<contextVars, system_prompt, max_history_turns,
                 kv_cache_state, saved>>

\* chat_stream() and the loop of run_interactive_turn over its events: a new
\* context generates, and whatever text has arrived when the stream completes,
\* fails or times out becomes the answer, unless it is empty.
ChatStream(question) ==
  /\ Len(messages) < MaxMessages
  /\ \E text \in Answers :
       messages' = IF text = <<>> THEN Asked(question)
                   ELSE Append(Asked(question), Assistant(text))
  /\ kv_cache_state' = 0
  /\ call' = Call("stream", question, TRUE, <<>>)
  /\ conversation' = conversation \cup Range(question)
  /\ UNCHANGED <<contextVars, system_prompt, max_history_turns, saved>>

\* set_system_prompt, and clear_system_prompt when prompt is None.
SetSystemPrompt(prompt) ==
  /\ system_prompt' = prompt
  /\ kv_cache_state' = 0
  /\ call' = NoCall
  /\ UNCHANGED <<contextVars, messages, max_history_turns, saved, conversation>>

\* The fields that clear() resets.
Cleared ==
  /\ messages' = <<>>
  /\ kv_cache_state' = 0
  /\ call' = NoCall
  /\ conversation' = {}

\* Mutant of Clear: only the messages are dropped.
ClearMessages ==
  /\ messages' = <<>>
  /\ call' = NoCall
  /\ conversation' = {}
  /\ UNCHANGED <<contextVars, system_prompt, max_history_turns, kv_cache_state,
                 saved>>

\* /clear
Clear ==
  /\ Cleared
  /\ UNCHANGED <<contextVars, system_prompt, max_history_turns, saved>>

\* reset()
Reset ==
  /\ Cleared
  /\ system_prompt' = None
  /\ UNCHANGED <<contextVars, max_history_turns, saved>>

\* /save: fs::write truncates the file before it writes it.
Save ==
  /\ Len(messages) <= MaxSaved
  /\ saved' \in {[readable |-> TRUE, system_prompt |-> system_prompt,
                  messages |-> messages], saved, NoSession}
  /\ call' = NoCall
  /\ UNCHANGED <<contextVars, sessionVars, conversation>>

\* /load: from_json makes a session without a limit of turns; the CLI gives it
\* the token limits of the old one.
Load ==
  /\ saved.readable
  /\ system_prompt' = saved.system_prompt
  /\ messages' = saved.messages
  /\ max_history_turns' = 0
  /\ kv_cache_state' = 0
  /\ call' = NoCall
  /\ conversation' = UNION {Range(saved.messages[i].content) :
                              i \in DOMAIN saved.messages}
  /\ UNCHANGED <<contextVars, saved>>

\* /model switch, when the new model loads; the session is cleared.
SwitchModel ==
  /\ NewContext
  /\ Cleared
  /\ UNCHANGED <<system_prompt, max_history_turns, saved>>

Next ==
  \/ \E question \in Questions :
       \/ ChatAnswered(question)
       \/ ChatFailed(question)
       \/ ChatRefused(question)
       \/ ChatStream(question)
  \/ \E prompt \in SystemPrompts \cup {None} : SetSystemPrompt(prompt)
  \/ Clear
  \/ Reset
  \/ Save
  \/ Load
  \/ SwitchModel

Spec == Init /\ [][Next]_vars

----------------------------------------------------------------------------
Contents == Questions \cup SystemPrompts \cup Answers

\* The variables hold what the fields of ChatSession and LlamaContext can hold.
TypeOK ==
  /\ system_prompt \in SystemPrompts \cup {None}
  /\ \A i \in DOMAIN messages :
       /\ messages[i].role \in {"user", "assistant"}
       /\ messages[i].content \in Contents
  /\ max_history_turns \in {0, MaxTurns}
  /\ kv_cache_state \in Nat
  /\ cached_tokens \in Nat
  /\ Len(kv) <= NCtx
  /\ saved.readable \in BOOLEAN

\* cached_token_count() is the number of tokens in the KV cache, on every path
\* of infer and infer_incremental: its zero decides that a turn starts afresh,
\* and llama_decode places the next tokens behind what is really there.
CachedTokensAreInCache == cached_tokens = Len(kv)

\* As long as the session believes in a cache, the cache holds no word of a
\* conversation that was cleared, replaced by a loaded one or held with another
\* model, nor of a system prompt that was replaced.  The next turn builds on
\* every token in it.
NothingFromAnotherConversation ==
  kv_cache_state > 0 =>
    LET words == UNION {Range(text) : text \in Questions \cup SystemPrompts}
    IN Range(kv) \cap words \subseteq conversation \cup Range(system_prompt)

\* A turn that starts with count 0 is answered on exactly its own prompt: the
\* cache then holds that prompt and the answer, however many turns, failures or
\* streams went before it.
FreshTurnIsExact ==
  call.via = "chat" /\ call.ok /\ call.count = 0 =>
    kv = call.prompt \o Decoded(call.text)

\* The end of a prompt that asks the question.
Closing(question) ==
  <<"user">> \o question \o <<"end", "assistant", "end", "assistant">>

\* Whatever trimming and max_history_turns drop, the prompt of a turn closes
\* with its question, provided that the system prompt and the reserve leave
\* room for any history.
QuestionClosesPrompt ==
  call.via # "none" /\ (MaxContext = 0 \/ HistoryBudget > 0) =>
    IsSuffix(Closing(call.question), call.prompt)

\* The system prompt, the history kept by chat or chat_stream and the response
\* fit together in max_context_tokens by the estimate, unless the question alone
\* is too long.
TrimmedToFit ==
  (call.via # "none" /\ MaxContext > 0 /\ HistoryBudget > 0) =>
    \/ Len(call.history) = 1
    \/ TokenEstimate(System(system_prompt) \o call.history) + Reserve
         <= MaxContext

\* A turn drops old messages only when it must: what is left and the youngest
\* message dropped would exceed the limit (chat, trim_history).
DropsOnlyWhatOverflows ==
  call' # call /\ call'.via # "none" =>
    LET asked == Append(messages, User(call'.question))
        kept == Len(call'.history)
    IN /\ IsSuffix(call'.history, asked)
       /\ kept < Len(asked) =>
            TokenEstimate(System(system_prompt) \o
                          SubSeq(asked, Len(asked) - kept, Len(asked)))
              + Reserve > MaxContext

\* infer_incremental: "it assumes the first cached_count tokens are already in
\* the KV cache (from a previous turn)": then the cache holds, after an answer,
\* the prompt and the answer.  It does not: the service wraps each prompt as
\* one user message, so the prompt of a turn does not begin with the tokens of
\* the previous turn.
CacheHoldsPrompt ==
  call.via = "chat" /\ call.ok => IsPrefix(call.prompt, kv)

\* invalidate_kv_cache is for a context "modified outside of chat() /
\* chat_stream()": what chat itself does to the history needs no call of it.
\* But trimming shortens the prompt and not the count, so that chat passes a
\* count larger than its prompt, which the context answers with an error.
CountWithinPrompt ==
  call.via = "chat" => call.count <= Len(call.prompt)
=============================================================================
