--------------------------- MODULE InteractiveChat ---------------------------
(***************************************************************************)
(* The interactive chat of the CLI: the loop of run_interactive_chat over  *)
(* questions and commands, around one ChatSession.  With an embedding      *)
(* service every turn is a search and a prompt of its own, and the session *)
(* only records it; without one, whether retrieval was turned off or its   *)
(* service could not be had, the session itself talks to the model.        *)
(*                                                                         *)
(* The sources that a search found are known by the question they were     *)
(* found for.                                                              *)
(***************************************************************************)
EXTENDS ChatSession

VARIABLES
  embedding_service,   \* whether there is one: fixed when the loop begins
  stream,              \* --stream
  last_question,       \* what /retry asks again
  last_sources,        \* what /sources shows
  answered             \* the question that the last answer shown was to (history)

modeVars == <<embedding_service, stream>>
lastVars == <<last_question, last_sources, answered>>
interactiveVars == <<vars, modeVars, lastVars>>

----------------------------------------------------------------------------
InteractiveInit ==
  /\ Init
  /\ embedding_service \in BOOLEAN
  /\ stream \in BOOLEAN
  /\ last_question = None
  /\ last_sources = None
  /\ answered = None

\* A turn of the session.  A stream that ends without text adds no answer.
SessionTurn(question) ==
  /\ ~embedding_service
  /\ IF stream THEN ChatStream(question) \/ ChatRefused(question)
     ELSE ChatAnswered(question) \/ ChatFailed(question) \/ ChatRefused(question)
  /\ last_sources' = None
  /\ answered' = IF Len(messages') > 0 /\ Last(messages').role = "assistant" THEN question ELSE None

\* Mutant of Recorded: the answer is recorded alone, as the session does in chat.
RecordedAnswerOnly(question, text) == Append(messages, Assistant(text))

\* What a turn with retrieval adds to the session, untrimmed.
Recorded(question, text) == messages \o <<User(question), Assistant(text)>>

\* The prompt of a turn with retrieval has the snippets found, if any, and the
\* question: nothing of the history.
RagPrompt(question, found) ==
  FormatPrompt(Format(<<[role |-> "system", content |-> <<"rag">>],
                        User((IF found = None THEN <<>> ELSE <<"snippet">>) \o question)>>))

\* run_interactive_rag_turn: infer clears the context that the service owns.
RagAnswered(question) ==
  /\ embedding_service /\ ~stream
  /\ Len(messages) + 1 < MaxMessages
  /\ \E found \in {None, question} : \E outcome \in Infer(RagPrompt(question, found)) :
       /\ outcome.ok
       /\ ContextAfter(outcome)
       /\ messages' = Recorded(question, outcome.text)
       /\ last_sources' = found
  /\ answered' = question
  /\ conversation' = conversation \cup Range(question)
  /\ call' = NoCall
  /\ UNCHANGED <<system_prompt, max_history_turns, kv_cache_state, saved>>

\* run_interactive_rag_turn_stream: once the stream has begun the turn counts
\* as answered, with whatever text has come, none included, when it ends, fails
\* or times out.
RagStreamed(question) ==
  /\ embedding_service /\ stream
  /\ Len(messages) + 1 < MaxMessages
  /\ \E found \in {None, question}, text \in Answers :
       messages' = Recorded(question, text) /\ last_sources' = found
  /\ answered' = question
  /\ conversation' = conversation \cup Range(question)
  /\ call' = NoCall
  /\ UNCHANGED <<contextVars, system_prompt, max_history_turns, kv_cache_state, saved>>

\* Mutant of RagFailed: the sources are replaced only by new ones.
RagFailedKeepingSources(question) ==
  /\ embedding_service
  /\ \/ UNCHANGED contextVars
     \/ ~stream /\ \E outcome \in Infer(RagPrompt(question, None)) : ~outcome.ok /\ ContextAfter(outcome)
  /\ call' = NoCall
  /\ answered' = None
  /\ UNCHANGED <<sessionVars, saved, conversation, last_sources>>

\* The store cannot be read, the question cannot be embedded or the model fails:
\* the session is left as it was.
RagFailed(question) ==
  /\ embedding_service
  /\ \/ UNCHANGED contextVars
     \/ ~stream /\ \E outcome \in Infer(RagPrompt(question, None)) : ~outcome.ok /\ ContextAfter(outcome)
  /\ last_sources' = None
  /\ call' = NoCall
  /\ answered' = None
  /\ UNCHANGED <<sessionVars, saved, conversation>>

\* run_interactive_turn
Turn(question) ==
  /\ last_question' = question
  /\ SessionTurn(question) \/ RagAnswered(question) \/ RagStreamed(question) \/ RagFailed(question)
  /\ UNCHANGED modeVars

\* /retry
Retry == last_question # None /\ Turn(last_question)

\* /clear and a /load that succeeds also forget the last turn.
Forget == last_question' = None /\ last_sources' = None /\ answered' = None /\ UNCHANGED modeVars

ClearChat == Clear /\ Forget
LoadChat == Load /\ Forget

\* /save, and /model switch, which clears the session alone.
Command == (Save \/ SwitchModel) /\ UNCHANGED <<modeVars, lastVars>>

InteractiveNext ==
  \/ \E question \in Questions : Turn(question)
  \/ Retry
  \/ ClearChat
  \/ LoadChat
  \/ Command

InteractiveSpec == InteractiveInit /\ [][InteractiveNext]_interactiveVars

----------------------------------------------------------------------------
(* Properties *)

\* What /sources shows was found for the last question and went into the answer
\* that was shown: a turn that failed, a /clear, a /load and a turn without
\* results show nothing of an earlier one (last_sources).
SourcesOfLastAnswer ==
  last_sources # None => last_sources = last_question /\ answered = last_question

\* No answer in the history follows another, whichever way the turns ended,
\* were retried, trimmed or loaded from a file: every answer that is kept stands
\* behind the question it was given to, or first, when that question was
\* trimmed away.
AnswersFollowQuestions ==
  \A i \in 2..Len(messages) : messages[i].role = "assistant" => messages[i - 1].role = "user"

\* Trimming drops what it must and nothing more, whatever was recorded, cleared or
\* loaded between two turns (trim_history).
TrimmedExactly == [][DropsOnlyWhatOverflows /\ TrimmedToFit']_vars

\* "Performs semantic search, builds a RAG prompt with conversation history":
\* the prompt of a turn with retrieval has the earlier questions in it.
RagPromptHasHistory ==
  embedding_service => \A i \in DOMAIN messages :
    messages[i].role = "user" =>
      Range(messages[i].content) \subseteq Range(RagPrompt(last_question, last_sources))
=============================================================================
