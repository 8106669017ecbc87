-------------------------- MODULE RetrievalChecks ---------------------------
(***************************************************************************)
(* Inputs and properties of the functions that find the code for a         *)
(* question, put it in a prompt, and set up the chat that asks.            *)
(***************************************************************************)
EXTENDS AlgorithmCall, Integers, Sequences, FiniteSetsExt

Ranking == INSTANCE RetrievalRanking
Setup == INSTANCE ChatSetup

----------------------------------------------------------------------------
(* Retrieval: ranking, keywords and the prompt *)

\* Three chunks and the cut to one or two of them, for one keyword.
RankedChunk ==
  {c \in [sim : {Ranking!NotFound, 0, 9, 30}, matches : {0, 1}, symbol : Ranking!SymbolMatch,
          inFile : BOOLEAN] :
     /\ c.symbol # "none" => c.matches = 1
     /\ c.sim # 9 => ~c.inFile}
RankInputs ==
  [function : {"rank"}, entry : {"search", "chat"}, k : {1, 2},
   chunks : {s \in [1..3 -> RankedChunk] : Ranking!Found(s) # {}}]

QueryWord == {[kind |-> "plain", words |-> {"load"}, length |-> 4],
              [kind |-> "plain", words |-> {"of"}, length |-> 2],
              [kind |-> "stop", words |-> {"what"}, length |-> 4],
              [kind |-> "phrase", words |-> {"in", "file"}, length |-> 7],
              [kind |-> "slash", words |-> {"core", "model", "rs"}, length |-> 13],
              [kind |-> "slash", words |-> {"core", "chat"}, length |-> 9],
              [kind |-> "file", words |-> {"store", "rs"}, length |-> 8]}
QueryInputs == [function : {"keywords"}, query : UNION {[1..n -> QueryWord] : n \in 1..3}]

\* Windows of which the answer takes all, and all but 15, 30 or 75 tokens.
SnippetInputs ==
  [function : {"context"},
   flags : [n_ctx : {Setup!Some(380), Setup!Some(415), Setup!Some(430), Setup!Some(475)},
            max_tokens : {Setup!Some(100)}, context_token_budget : {0, 30}],
   snippets : UNION {[1..n -> {60, 75, 100, 160}] : n \in 0..4}]

----------------------------------------------------------------------------
(* Setting up a chat *)

NoFlags ==
  [config |-> Setup!None, model |-> Setup!None, n_gpu_layers |-> Setup!None, n_threads |-> Setup!None,
   embedding_model |-> Setup!None, tokenizer |-> FALSE, mock_llm |-> FALSE, retrieval |-> FALSE,
   interactive |-> FALSE]
File(path, canonical, header, whole) ==
  [path |-> path, canonical |-> canonical, header |-> header, whole |-> whole]
BareDisk ==
  [project |-> TRUE, vectors |-> TRUE, home |-> FALSE, local |-> Setup!Absent, global |-> Setup!Absent,
   localModels |-> <<>>, globalModels |-> <<>>]

\* Flags and configuration files, with three models to name.
Settings == [path : {Setup!None, Setup!Some("b")}, n_gpu_layers : {Setup!None, Setup!Some(5)},
             n_threads : {Setup!None, Setup!Some(2)}]
LocalSettings == [path |-> Setup!Some("c"), n_gpu_layers |-> Setup!Some(7), n_threads |-> Setup!None]
ThreeModels == [i \in 1..3 |-> File(<<"a", "b", "c">>[i], i, TRUE, TRUE)]
ConfigFile == {Setup!Absent, Setup!Broken} \cup {Setup!Holds(settings) : settings \in Settings}
PickSettings ==
  \E model \in {Setup!None, Setup!Some("a")}, layers \in {Setup!None, Setup!Some(9)},
     threads \in {Setup!None, Setup!Some(4)},
     config \in {Setup!None} \cup {Setup!Some(file) : file \in {Setup!Absent, Setup!Broken, Setup!Holds(LocalSettings)}},
     local \in {Setup!Absent, Setup!Broken, Setup!Holds(LocalSettings), Setup!Holds(Setup!NoSettings)},
     global \in ConfigFile, home \in BOOLEAN :
       /\ home => local = global
       /\ input = [function |-> "setup",
                   flags |-> [NoFlags EXCEPT !.model = model, !.n_gpu_layers = layers, !.n_threads = threads,
                                             !.config = config],
                   disk |-> [BareDisk EXCEPT !.local = local, !.global = global, !.home = home,
                                             !.globalModels = ThreeModels]]

\* Up to two models of the user and one of the project, which may be a link.
GlobalDirs ==
  {<<>>} \cup {<<File("g", "g", header, header /\ whole)>> : header, whole \in BOOLEAN}
         \cup {<<File("g", "g", TRUE, whole), File("h", "h", TRUE, TRUE)>> : whole \in BOOLEAN}
LocalDirs(global) ==
  {<<>>} \cup {<<File("p", "p", header, header /\ whole)>> : header, whole \in BOOLEAN}
         \cup {<<[global[i] EXCEPT !.path = "p"]>> : i \in DOMAIN global}
PickModels ==
  \E global \in GlobalDirs : \E local \in LocalDirs(global) :
  \E model \in {Setup!None, Setup!Some("g"), Setup!Some("p")},
     embedding \in {Setup!None, Setup!Some(<<"h", "gguf">>), Setup!Some(<<"o", "onnx">>)},
     tokenizer, mock, retrieval, interactive, vectors, project \in BOOLEAN :
       input = [function |-> "setup",
                flags |-> [NoFlags EXCEPT !.model = model, !.embedding_model = embedding, !.tokenizer = tokenizer,
                                          !.mock_llm = mock, !.retrieval = retrieval, !.interactive = interactive],
                disk |-> [BareDisk EXCEPT !.project = project, !.vectors = vectors,
                                          !.localModels = local, !.globalModels = global]]

----------------------------------------------------------------------------

RetrievalCall ==
  \/ input \in RankInputs \cup QueryInputs \cup SnippetInputs
  \/ PickSettings
  \/ PickModels

RetrievalFunctions == {"rank", "keywords", "context", "setup"}
RetrievalResult(call) ==
  CASE call.function = "rank" -> Ranking!Ranked(call.entry, call.chunks, 1, call.k)
    [] call.function = "keywords" -> Ranking!ExtractKeywords(call.query)
    [] call.function = "context" ->
          [kept |-> Ranking!ChatContext(call.snippets, Setup!ContextBudget(call.flags)),
           used |-> Ranking!UsedCount(call.snippets, Setup!ContextBudget(call.flags))]
    [] call.function = "setup" ->
          [chat |-> Setup!RunChat(call.flags, call.disk),
           loaded |-> LET config == Setup!FileConfig(call.flags, call.disk)
                      IN IF config.ok THEN Setup!Resolved(call.flags, config.value) ELSE Setup!NoSettings,
           index |-> Setup!IndexEmbedding(call.flags, call.disk),
           search |-> Setup!SearchEmbedding(call.flags, call.disk)]

----------------------------------------------------------------------------
(* Properties *)

\* An injected chunk whose symbol is the keyword itself is never cut off in
\* favour of a chunk whose symbol does not have the keyword, unless that one
\* lies in the file the query names.
InjectedDefinitionIsKept ==
  Is("rank") =>
    LET chunks == input.chunks IN
    \A best \in output.value : \A i \in Ranking!Injected(chunks, 1) \ best, j \in best :
      chunks[i].symbol = "exact" => chunks[j].symbol # "none" \/ chunks[j].inFile

\* "querying "struct ChatArgs" should always include the ChatArgs definition".
DefinitionIsIncluded ==
  Is("rank") =>
    LET exact == {i \in 1..3 : input.chunks[i].symbol = "exact"} IN
    Cardinality(exact) = 1 /\ (\A i \in 1..3 : input.chunks[i].symbol # "contains" /\ ~input.chunks[i].inFile)
      => \A best \in output.value : exact \subseteq best

\* The words of the path that was taken from the query are no keywords, unless
\* another word of the query has them.
PathIsNoKeyword ==
  Is("keywords") =>
    \A i \in Ranking!PathWords(input.query) : \A w \in input.query[i].words :
      w \in output.value => \E j \in DOMAIN input.query \ Ranking!PathWords(input.query) : w \in input.query[j].words

\* The code in a prompt, its headers included, leaves the answer the tokens it may
\* have of the window, but for less than one header; unless the window has no more
\* than the answer and what is reserved, or the budget was typed.
RoomForAnswer ==
  Is("context") /\ input.flags.context_token_budget = 0 =>
    LET kept == output.value.kept
        room == Setup!Typed(input.flags, "n_ctx") - Setup!MaxTokens(input.flags) - 300
    IN \/ room <= 0
       \/ Ranking!Total(kept) + Ranking!HeaderLength * Len(kept) < room * Ranking!CharsPerToken + Ranking!HeaderLength

\* Only the last snippet of a context is cut.
OnlyLastIsCut ==
  Is("context") => \A i \in 1..Len(output.value.kept) - 1 : output.value.kept[i] = input.snippets[i]

\* "Number of context snippets actually used (after token-budget trimming)".
UsedSnippetsAreInPrompt ==
  Is("context") => Len(output.value.kept) = output.value.used

\* A question is embedded by the model that embedded the index, when both come
\* from the same flags and the same disk: by index, search and both chats.
EmbedsAsIndexed ==
  Is("setup") /\ output.value.index.ok =>
    LET result == output.value IN
    /\ result.search.ok => result.search.value = result.index.value
    /\ result.chat.ok /\ result.chat.value.embedding # Setup!None
         => result.chat.value.embedding[1] = result.index.value

\* A question that asks for retrieval is answered with code or not at all.
AnswersWithCode ==
  Is("setup") /\ input.flags.retrieval /\ ~input.flags.interactive /\ output.value.chat.ok =>
    output.value.chat.value.mode = "rag"

\* The first of several places that has a setting.
FirstOf(places, field) ==
  LET set == SelectSeq(places, LAMBDA place : place[field] # Setup!None)
  IN IF set = <<>> THEN Setup!None ELSE set[1][field]
SettingOf(file) == IF file.state = "good" THEN file.config ELSE Setup!NoSettings
Typed(flags) == [path |-> flags.model, n_gpu_layers |-> flags.n_gpu_layers, n_threads |-> flags.n_threads]
Places ==
  <<Typed(input.flags)>> \o
  (IF input.flags.config # Setup!None THEN <<SettingOf(input.flags.config[1])>>
   ELSE <<SettingOf(input.disk.local), SettingOf(input.disk.global)>>)
NothingBroken == Setup!Broken \notin {input.disk.local, input.disk.global}

\* "Priority: CLI arguments > local config > global config > built-in defaults",
\* for the model and the threads of a chat that runs.
DocumentedPriority ==
  Is("setup") /\ output.value.chat.ok /\ NothingBroken /\ ~input.flags.mock_llm =>
    /\ FirstOf(Places, "path") # Setup!None => FirstOf(Places, "path")[1] = output.value.chat.value.llm
    /\ FirstOf(Places, "n_threads") = output.value.loaded.n_threads

\* The same, for the GPU layers.
DocumentedPriorityOfGpuLayers ==
  Is("setup") /\ output.value.chat.ok /\ NothingBroken =>
    output.value.loaded.n_gpu_layers = Setup!UnwrapOr(FirstOf(Places, "n_gpu_layers"), 0)

\* A model that is not named is the project's, if the project has one.
ProjectModelFirst ==
  (/\ Is("setup") /\ output.value.chat.ok /\ ~input.flags.mock_llm
   /\ FirstOf(Places, "path") = Setup!None
   /\ Setup!Discovered(input.disk.localModels) # <<>>) =>
      output.value.chat.value.llm = Setup!Discovered(input.disk.localModels)[1].path
=============================================================================
