---------------------------- MODULE MCAlgorithms ----------------------------
(***************************************************************************)
(* The pure functions of the project, checked over all inputs of small     *)
(* sets: a behaviour picks one input and computes, and the properties      *)
(* compare what was computed with the input it was computed from.          *)
(***************************************************************************)
EXTENDS RetrievalChecks, AgentChecks, IndexingChecks, CommandChecks

Result(call) ==
  CASE call.function \in RetrievalFunctions -> RetrievalResult(call)
    [] call.function \in AgentFunctions -> AgentResult(call)
    [] call.function \in IndexingFunctions -> IndexingResult(call)
    [] call.function \in ModelFunctions -> ModelResult(call)
    [] call.function \in CommandFunctions -> CommandResult(call)

Init ==
  /\ RetrievalCall \/ AgentCall \/ IndexingCall \/ ModelCall \/ CommandCall
  /\ output = NotYet
Compute ==
  /\ ~output.done
  /\ output' = Returned(Result(input))
  /\ UNCHANGED input
Spec == Init /\ [][Compute]_<<input, output>>

----------------------------------------------------------------------------
(* Properties: what the functions that work together promise together *)

\* What a question names is in the prompt: a definition is not cut for code that
\* does not have the name, a file that is named does not count as keywords, and the
\* code fills the prompt up to, and not into, the room of the answer
\* (retrieve_context, extract_keywords, ChatPromptBuilder).
CodeOfQuestionIsInPrompt ==
  InjectedDefinitionIsKept /\ PathIsNoKeyword /\ RoomForAnswer /\ OnlyLastIsCut

\* Commands that run at different times agree: on where the index is, by which
\* model its texts were embedded, and which file is a model (index, search,
\* chat, the model commands).
CommandsAgree ==
  EmbedsAsIndexed /\ AnswersWithCode /\ IndexIsFound /\ ModelCommandsAgree /\ FormatsAgree

\* A setting has the value of the first place that has one, and a chat runs with
\* it: its model, its threads, its template (resolve_model_config, run_chat).
SettingsAreKept == DocumentedPriority /\ ProjectModelFirst /\ DocumentedTemplatesWork

\* From the directory to the chunks no code is lost without a report, and what is
\* kept has its path, its symbol and its lines (scan, parse_source,
\* split_large_chunk).
CodeIsIndexed ==
  FilesAreFoundOrReported /\ CleanPathLeadsThere /\ DefinitionsAreChunked /\ ExportKeepsSymbol /\ PiecesCoverChunk

\* The metadata of a model file are those written in it, whatever stands between
\* them and wherever the file was cut (read_gguf_metadata).
MetadataIsReadRight == MetadataIsReadInStep /\ TruncatedIsNeverWrong

\* Layers and quantizations that are recommended fit the memory they are
\* recommended for, and a better one that fits is not passed over.
RecommendationsFit == RecommendedLayersFit /\ BestQuantIsRecommended /\ GpuConfigFits

\* Between a conversation and the model no message, token or byte is lost, doubled
\* or left over from another text (templates, read_info, tokenize, embed).
TextIsWhole == PromptKeepsMessages /\ QuestionIsAsked /\ NativeTextIsWhole /\ EmbeddingIsOfItsText

\* An answer does not depend on the way it was asked for, at once, streamed or in a
\* batch, from a model or from the mock, with retrieval or without, and it ends at
\* its stop string (the generation loops of context.rs).
ModesAnswerAlike ==
  /\ BothModesAnswerAlike /\ StaleCountIsHarmless /\ MockModesAgree /\ RagModesAgree
  /\ StopStringEndsAnswer /\ BatchKeepsOrder /\ OneStageChooses

\* What the model reads is what its calls meant: every call it wrote is parsed, a
\* cached result is that of its call, a tool leaves nothing out that it does not
\* say, and each result stands under the name of its call.
ToolsAnswerTruly ==
  /\ WrittenCallsAreParsed /\ SameKeySameCall /\ ResultsNameTheirCall
  /\ MeantFilesAreListed /\ UntruncatedIsComplete
  /\ PagesAreTheFile /\ StructureIsOfReadableFile /\ SymbolsAreFoundAgain

\* An agent comes to an end and stays there: what arrives late changes nothing,
\* repetition is noticed, and messages leave the last answer its reserve
\* (state.rs, loop_detector.rs, budget.rs).
AgentEnds == AgentEndIsFinal /\ RepetitionIsReported /\ DistanceIsCheapest /\ ReserveIsKept
=============================================================================
