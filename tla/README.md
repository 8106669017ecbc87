# A TLA+ model of ChatVCode

ChatVCode indexes the source code of a project, embeds its chunks as vectors, and
answers questions about it with a local language model, in one shot or in an
interactive conversation; an agent that would call tools is being built. This
directory holds TLA+ modules translated from the Rust source, TLC configurations that
model-check them on small instances, and proofs that TLAPS checks for every instance.
`PROJECT.json` lists, for every definition, the source lines it stands for.

## 1. The system

| Crate | Component | State it keeps | Operations | Talks to |
|---|---|---|---|---|
| core | indexing pipeline (`lib.rs`, `scanner.rs`, `model.rs`) | state file, vector file, metadata file; within a run the scanned files, the result, the store | `index_path_with_options`, `index_with_embedding_service` | parser, embedding service, vector store, file system |
| core | semantic search, retrieval (`lib.rs`, `chat.rs`) | none between calls | load vectors, embed the query, rank, load metadata, build a prompt | the files of the pipeline, the language model |
| parser | chunks of a syntax tree | none | `parse_source`, names, spans | tree-sitter |
| vdb | vector stores (`store.rs`, `hnsw.rs`, `quantization.rs`) | arrays and indexes, a flat buffer with offsets, a layered graph, a scale | add, remove, find, search, clear, save, load | their file |
| vdb | search cache (`cache.rs`) | LRU list behind a lock | get, search, put; clear | a store; nobody outside the tests |
| vdb | embedding services, downloads | ONNX session, model files | embed; fetch | the network, ONNX |
| llm | inference context (`context.rs`, `sampler.rs`) | the KV cache of llama.cpp and a count of its tokens | `infer`, `infer_incremental`, `infer_stream`, `embed` | llama.cpp |
| llm | service (`service.rs`) | a shared model, one context, a template | `infer_cached`, `infer_stream_cached`, `infer_batch` | the context; spawns a thread for each stream |
| llm | chat session (`chat/`) | messages, system prompt, limits, count of cached tokens | `chat`, `chat_stream`, trimming, setters, JSON, templates | the service |
| llm | session database (`db.rs`) | SQLite tables | save, load, list, delete | nobody outside the tests |
| llm | model files (`gguf.rs`, `model.rs`, `quant.rs`, `formats.rs`, `download.rs`) | none; files on the disk | read metadata, estimate, recommend, discover, download | the network |
| cli | interactive loop, commands, configuration (`lib.rs`) | the session, its file, the last question and its sources | slash commands, turns, the loop over a stream; index, search, chat, model, config | all of the above |
| agent | tool executor (`executor.rs`, `cache.rs`) | tool table, LRU cache with a TTL | `execute`, `execute_batch` | a thread for each attempt |
| agent | built-in tools (`tools/`) | none | read, list, grep, structure, search | the project |
| agent | state machine, budget, loop detector, prompt | state, phase, pending calls; a history window | `transition`; truncation; similarity | nobody: `agent_loop.rs`, `session.rs` and `metrics.rs` are empty |

How the parts interact decides what is hard.

* **Pipeline and search.** Three files that should agree are written one after the other
  from files that the user edits meanwhile; a crash may tear the one being written; an
  incremental run sees only what changed; and a search in another process reads two of
  the files, one before and one after it has thought. Correct means: nothing is
  silently left out of the index, no version counts as indexed that never was, vectors
  and metadata describe the same texts, and an answer shows the text it was found for.
* **Vector stores.** No concurrency (`&mut self`), but two or three representations that must
  agree after any sequence of upserts, removals, half-failed batches and reloads.
  Correct means: they answer what a map would.
* **Session and context.** Two objects each keep their own idea of one KV cache. A turn, a
  failure, a trimmed history, `/clear`, `/load` or a new model change one of the
  two. Correct means: the next answer is computed on its own prompt and nothing else.
* **Interactive chat.** The loop keeps a third idea of the conversation: the question `/retry`
  repeats and the sources `/sources` shows. Correct means: they belong to the answer on the screen.
* **Streams.** Two threads, a channel, a timeout and a cancel flag. Correct means: no
  piece lost, a last event for every way out, both sides end, and the answer is the one
  that would have come at once.
* **Tool executor.** Timeouts abandon threads, retries run next to them, and a cache
  answers for a project that changes. Correct means: an answer belongs to its call,
  its staleness is bounded, and every call returns in bounded time.
* **What is left on the disk.** A session is saved by several statements without a transaction,
  a model is downloaded under its final name. Correct means: what was reported as done is whole.
* **Functions.** Much of the code computes: rankings, budgets, spans, patterns, layouts
  of files, templates, defaults. Each has a definition of what it should compute that is
  shorter than the code, and boundaries that no test visits.

The hazards that matter most, each at its line and with the properties aimed at it, are
listed in `PROJECT.json`.

## 2. Modules

```
IndexPipeline                                  the pipeline and its files
              <- SemanticSearch                requests next to it
                                <- IndexPipeline_proofs

VectorMap                                      what a vector store promises
   ^ InMemoryVectorStore  (refinement)
   ^ CompactVectorStore   (refinement)
   ^ HnswVectorStore      (refinement, while no link is cut)
QuantizedVectorStore, SearchCache
                          all of these <- MCStores <- MCStores_proofs

LlamaContext <- ChatSession <- MCChatSession   KV cache, and a conversation on it
                            <- InteractiveChat <- MCInteractiveChat    the CLI around it
                                               <- InteractiveChat_proofs
InferenceStream <- InferenceStream_proofs      a streamed answer, both threads
ToolExecutor <- ToolExecutor_proofs            tool calls, their threads and cache
SessionDb, ModelFiles <- MCPersistence         tables and files that outlive a process
                          ^ MCPersistence_proofs
DataLemmas                                     facts on sequences and sets, for the proofs

functions                                      inputs and properties
  RetrievalRanking, ChatSetup                 <- RetrievalChecks \
  AgentReasoning, AgentTools, ToolResults     <- AgentChecks      \
  SourceFiles                                 <- IndexingChecks    > MCAlgorithms
  GgufFile, ModelSizing, PromptTemplates,                         /
     NativeText                               <- ModelChecks     /
  OneShotChat, Commands, ModelChecks          <- CommandChecks  /
                          MCAlgorithms <- MCAlgorithms_proofs
```

Definitions keep the names of the source where TLA+ allows it. A comment `Mutant of X`
marks a variant of a definition with a plausible bug. No behaviour
uses it: the mutants record that each property can be violated by a bug in the
code.

### IndexPipeline

One run is the chain `reading -> parsed -> recorded -> embedded -> vectors_saved ->
idle`; `mode` is the entry point (no embedding, ONNX service made by the run, service
passed by the caller). `StartRun` loads the state file, `ReadFile`/`ReadError` are the
workers of the parallel scanner, `SelectAndParse` filters with `has_file_changed` and
parses, `SaveState` records the parsed files, `EmbedChunks` any subset of whose
chunks may fail, `SaveVectors`, `SaveMetadata`. `Edit` and `Delete` are the user,
and `Crash` may come between any two steps and tears the file being written. A
failed save is only logged by the code, and so here.

Abstractions: a version of a file is a fresh *stamp* for its (mtime, size) pair, so
an edit that keeps both is not represented; its content is its number of chunks. A
chunk id is file and rank, because ids in the code are path, kind, symbol and line
and survive edits of the text. A torn file does not load. Missing and
torn files behave alike, as in the code.

### SemanticSearch

`IndexPipeline` with one request beside it: `search_with_service` (the search command)
or `retrieve_context` (a chat). `AskFinds` loads the vectors and searches them; `Resolve`, any
number of pipeline steps later, reads the metadata, adds the chunks whose symbol
matches, and cuts to `TopK`. A search without metadata re-indexes the project, whose
files may each fail; a chat does not. Which chunks are similar, and how candidates
rank, is a choice; the ranking is `RetrievalRanking`.

### VectorMap and the stores

`VectorMap` is the `VectorStore` trait as a map from ids to vectors; `Search` is
specified by what a ranking is, not by how it is computed. The stores take one step
for each iteration of the loops of `add` and `remove`, so states in which array
and index disagree are visible; the `...ImplementsMap` properties are the refinements. While
`remove` is under way the mapping already counts the removed positions as gone. In the
compact store the buffer is a sequence of numbers and entries are offsets into it.
`save` may fail before or after it truncates its file.

`HnswVectorStore` has the layers, the greedy descent, the walk with its two heaps and the
links cut to a limit; the layer of a node is a choice, as it is random in the code. It
answers what a map would as long as no list of links is full. The walk, the descent and the
cutting are recursive functions over the nodes, so that they can be reasoned about. `QuantizedVectorStore` has
integers for its numbers and one step as a fraction of 255. `SearchCache` has callers that hold the lock for get and for put and not in
between, and an index that is replaced meanwhile. Cosine similarity is used by its order
alone, over the vectors of `MCStores`. It asserts that both have one length, so a search
over vectors of two lengths would panic: that it never meets them is a part of the refinement, since `VectorMap`
has no such answer. No vector is empty, as an embedding has the dimension of its model.

### LlamaContext, ChatSession, InteractiveChat

`kv` is what is really in the cache and `cached_tokens` what the context counts;
`kv_cache_state` is what the session believes. `InferIncremental` returns the set of
outcomes of a call: an answer, or a decode that fails at the batch or after some
generated tokens. `chat()` holds the session
while the service runs, so a turn is one action: `ChatAnswered`, `ChatFailed`,
`ChatRefused` (nothing reached the context) or `ChatStream`. `Clear`, `Reset`, `Save`, `Load`,
`SetSystemPrompt` and `SwitchModel` are the commands of the CLI with everything each
resets.

`InteractiveChat` is `run_interactive_chat`: a `Turn` is a turn of the session or, with an
embedding service, `RagAnswered`, `RagStreamed` or `RagFailed`, which infer outside
the session and record the question and the answer; `Retry` is a turn on the last question;
the commands also reset what the loop remembers.

Abstractions: tokens are strings; the estimate of the tokens of a text is its number of
tokens; the beginning-of-sequence token is dropped; one chat template stands for all
(`PromptTemplates` has them one by one); a `llama_decode` that fails leaves the cache as
it was; a stop string is completed by the last token of an answer; sources are known by
the question they were found for.

### InferenceStream

The inference thread has one action per place where it can be interrupted:
context creation, prompt decode, the check of the cancel flag, sampling, sending,
decoding. The receiver is the loop of `run_interactive_turn` around `recv_timeout`.
The channel is the unbounded mpsc channel; dropping the receiver discards its
contents and makes later sends fail.

### ToolExecutor

Each caller is idle, waiting in `recv_timeout`, or sleeping before a retry. Each attempt has its own
tool thread and channel; `GiveUp` abandons both. What matters of a result is its call and how
long ago the tool looked at the project: all instants are *ages* that `Tick` increases, so no
clock is needed. Steps of a caller are urgent (time does not pass while one is
possible), so the time bounds leave out scheduling delays. Looking up a call and starting its
first attempt is one action, since no other caller can tell the order.

### SessionDb, ModelFiles

`SessionDb` has one action for each statement of `save_session`, each of which may fail or be
the last before a crash; `disturbed` marks the sessions that two connections wrote at once, about
which nothing is claimed but the foreign key. SQLite itself is external: statements are atomic, and
the bundled build enforces foreign keys.
`ModelFiles` has both downloaders, block by block and file by file, and two processes
that may write the same name. Finding that an ONNX file is missing and copying it there are two steps, with a remote
fetch between them in which other processes go on.

### The functions

`AlgorithmCall` has two variables: a call (a function and its arguments) and what it
returned. `MCAlgorithms` picks any input and computes; each
predicate of the `...Checks` modules compares the two, with a
definition of the result that does not follow the code: the meaning of a pattern
(`Means`), the cheapest alignment of two strings, the place a path leads to (`Denotes`),
the last pair with a key, the other of two modes. Text is a sequence of pieces, as long
as a property can tell them apart.

* `RetrievalRanking`: combined scores as whole numbers, the keywords and the
  file named in a question, injection by symbol, the cut to `top_k`, the two budgets
  for snippets. `ChatSetup`: flags, configuration files, discovery of models, and the
  embedding service each command gets.
* `SourceFiles`: which files are read and which errors are reported, `clean_path`; the walk of `parse_source` over a syntax tree, symbols of declarations, and `split_large_chunk`.
* `GgufFile`: a file is the set of its fields at their bytes, so reading a field at the wrong
  place or of the wrong kind is reading out of step. `ModelSizing`: KV cache, memory, layers,
  quantizations, formats. `PromptTemplates`: a prompt is a sequence of markers, roles and contents.
  `NativeText`: calls that fill a buffer or say how large it must be; the embedding context and what it
  forgets to clear when an embedding fails.
* `OneShotChat`: the generation loops on bytes, some characters of two of them, with stop strings
  across tokens, sampling and decoding that fails or stalls, cancellation, in both modes; the
  mock; `infer_batch`; an answer with retrieval. `Commands`: where each
  command expects the index, what the model commands say, which templates a flag can name.
* `AgentReasoning`: the state machine over histories of events, the loop detector, the budget.
  `AgentTools`: patterns, `list_files`, `grep_code`. `ToolResults`: calls in fences, in arrays,
  in prose, cache keys, `read_file` (whose file may change between its two reads),
  the structure of a file, symbols, a batch and what the model reads of it.

## 3. Runs

A property of a run is often a conjunction of named predicates of one idea; the modules
define the predicates one by one, and each has a mutant of its own.

| Run | Shows | Bounds, and why they are enough |
|---|---|---|
| `index_incremental` | with a state file, crashes and failures anywhere: `TypeOK`, `RecordedMeansParsed`, `NoFileLeftOut`, `VectorsMatchMetadata`, `StateNeverRewinds` | 2 files (one changed, one not), 3 edits (create both, change one), 1 chunk, edits between runs |
| `index_search` | without a state file, edits during the run, a search or a chat beside it: `FullRunIndexesProject`, `AnswersDescribeTheRun`, `SearchResolvesWhatItFinds` | 2 files, 2 edits, 1 chunk each (which any search may find by its vector or by its symbol), `TopK` 1 so that something is cut, one request: it keeps nothing for a second |
| `index_drops_vectors` | **violation** of `AllChunksPersisted` | no crash and no failure; a run, a new file, a run: the shortest loss needs a file that has not changed |
| `stores` | `IndexMatchesVectors`, `LayoutIsSound`, `StoresAnswerLikeMaps` (three refinements of `VectorMap`), `CacheSurvivesRaces` | 3 ids (remove first, middle and last), dimensions 1 and 2, good and bad batches, none of whose vectors is empty; 4 ids and M = 1 for HNSW, so that links are cut, and two layers; 2 callers, 3 keys and 2 entries for the cache. A behaviour is one of a single store. The view `StoresView` takes states for one that differ only in the answer of a finished call, which no action reads; what a step answers is still compared with the map, step by step |
| `chat_cache` | `CachedTokensAreInCache`, `NothingFromAnotherConversation`, `FreshTurnIsExact`, `QuestionClosesPrompt` over turns, failures and all commands | histories up to 3 messages when a turn begins, so a second turn runs on the cache of the first; a context small enough to overflow; one turn kept, so that trimming happens |
| `interactive_chat` | `SourcesOfLastAnswer`, `AnswersFollowQuestions`, `TrimmedExactly` | questions that fit twice, once, and not beside another in a window of 24; histories up to 6 messages; retrieval or none, streamed or not |
| `chat_cache_prefix` | **violation** of `CacheHoldsPrompt` | two turns |
| `chat_trimmed_count` | **violation** of `CountWithinPrompt` | two turns and a trimmed history |
| `stream_ending` | `NoPieceLost`, `OneEnd`, `OneMorePiece`, `StreamEnds` | up to 4 tokens; cancel, timeout and failure at every point |
| `tool_calls` | `AnswersItsCall`, `BoundedStaleness`, `CallBound`, `NeverGoesBack`, `CallReturns` | 2 callers, 2 keys that evict each other, one retry after a timeout, none after a panic (the other flag takes the same branch), one tick for each timeout, pause and TTL, so that a hit, an expiry and a late answer all happen |
| `persistence` | `SavesAreWhole`, `DownloadsAreWhole` | 2 connections, 3 saves of up to 2 messages (a save over a longer one, a save between two statements of another); 2 processes, 3 downloads of 2 blocks (one that fails, one that replaces it, one beside it) |
| `algorithms` | ten properties of functions, listed below | about 450,000 inputs; the sets are in the `...Checks` modules |

In `persistence` and `algorithms` the system may stop, at the bound or when a function
has returned, and only there no deadlock is looked for. The lists of types (`TypeOK`) of
`ChatSession`, `InferenceStream` and `ToolExecutor` are invariants as well; no run names
them, as the properties there say more.

### Properties of the functions

| Property | Predicates |
|---|---|
| `CodeOfQuestionIsInPrompt` | an exact definition is not cut for a chunk without the keyword (`InjectedDefinitionIsKept`), the words of a path are no keywords (`PathIsNoKeyword`), the code in a prompt leaves the answer its tokens (`RoomForAnswer`), only its last snippet is cut (`OnlyLastIsCut`) |
| `CommandsAgree` | index, search and both chats embed with one model (`EmbedsAsIndexed`), retrieval asked for is retrieval or an error (`AnswersWithCode`), what index wrote is what search reads (`IndexIsFound`), commands and formats agree on what a model is (`ModelCommandsAgree`, `FormatsAgree`) |
| `SettingsAreKept` | `DocumentedPriority`, `ProjectModelFirst`, `DocumentedTemplatesWork` |
| `CodeIsIndexed` | a file is found or an error names its directory (`FilesAreFoundOrReported`), `CleanPathLeadsThere`, a definition is in a chunk or under a reported error and chunks do not overlap (`DefinitionsAreChunked`), `ExportKeepsSymbol`, the pieces of a chunk cover its code with the right lines (`PiecesCoverChunk`) |
| `MetadataIsReadRight` | each field from its own pair (`MetadataIsReadInStep`), all of a truncated file or an error (`TruncatedIsNeverWrong`) |
| `RecommendationsFit` | `RecommendedLayersFit`, `GpuConfigFits`, `BestQuantIsRecommended` |
| `TextIsWhole` | `PromptKeepsMessages`, `QuestionIsAsked`, `NativeTextIsWhole`, `EmbeddingIsOfItsText` |
| `ModesAnswerAlike` | `BothModesAnswerAlike`, `MockModesAgree`, `RagModesAgree`, `StaleCountIsHarmless`, `StopStringEndsAnswer`, `BatchKeepsOrder`, `OneStageChooses` |
| `ToolsAnswerTruly` | `WrittenCallsAreParsed`, `SameKeySameCall`, `ResultsNameTheirCall`, `MeantFilesAreListed`, `UntruncatedIsComplete`, `PagesAreTheFile`, `StructureIsOfReadableFile`, `SymbolsAreFoundAgain` |
| `AgentEnds` | `AgentEndIsFinal`, `RepetitionIsReported`, `DistanceIsCheapest`, `ReserveIsKept` |

### What the violations say

* `index_drops_vectors`: a run indexes one file and stores its vectors; a second file is created; the next
  run skips the first file, whose state is known, and saves a store that holds the second alone over the
  one with the first. An incremental run starts from an empty store, so unchanged files lose their
  vectors. The same cause has a second effect: when *nothing* changed, the vectors are kept and the metadata that
  resolves them is overwritten by an empty store.
* `chat_cache_prefix`: `infer_cached` wraps the prompt of the session as one user
  message, so the cache of one turn is not the beginning of the prompt of the next, which
  `infer_incremental` assumes. Tokens are skipped, and others stay that the prompt does not have.
* `chat_trimmed_count`: trimming leaves the count of cached tokens; a count above the length of the prompt
  is an error, the session keeps the count, and later turns fail alike
  until the prompt has outgrown it.

### Stated by the repository and false

These are definitions of the modules that no configuration lists, because TLC refutes them:
each states a sentence of a doc, a comment or a test that the code does not keep.

| Definition | Says | The code |
|---|---|---|
| `IndexPipeline!RecordedMeansEmbedded` | state is recorded "after successful indexing" | the state is saved before the embedding; if that fails, later runs skip the files |
| `IndexingChecks!DepthZeroIsRoot` | `max_depth` 0 gives the files of the root | the walker with ignore rules counts the files of the root as level one |
| `IndexingChecks!PiecesHaveTheirSpan` | a span is where the text is in the file | offsets of later pieces are relative to the chunk |
| `SemanticSearch!MissingMetadataIsAnError` | a chat fails without metadata | it answers without code |
| `RetrievalChecks!DefinitionIsIncluded` | a definition asked for by name is always included | chunks with a better score may cut it |
| `RetrievalChecks!UsedSnippetsAreInPrompt` | the count of snippets used in the prompt | the second budget drops some that were counted |
| `RetrievalChecks!DocumentedPriorityOfGpuLayers` | flags before configuration before defaults | a default of the flags counts as typed |
| `CommandChecks!AgentSearchesTheIndex` | `vectors.vdb` is the default place | `context.rs` of the agent looks for `vectors.db` |
| `CommandChecks!OptionsNameOneIndex` | the metadata lie beside the vectors | only one of two resolvers does so |
| `CommandChecks!StreamedTextIsTheAnswer` | the streamed text is the text | a token that ends inside a character is replaced on its own |
| `CommandChecks!StreamedStopReason` | the reason in the JSON output | is always `Eos` when streamed |
| `CommandChecks!ListedDevicesAreGpus` | lists GPU devices | any backend but the CPU is listed, BLAS too |
| `CommandChecks!DefaultChainIsDefault` | the chain of standard parameters | lacks the repeat penalty of the default parameters |
| `ModelChecks!GemmaHearsTheSystem` | system messages go before the first user message | one without a user message behind it is lost |
| `ModelChecks!ServiceTemplateIsUsed` | "Auto" uses the detected template | the template is looked up as the name of one in the file; when there is none, the default of the file or the plain text is used |
| `ModelChecks!DescriptionIsWhole` | a longer description gets a larger buffer | the length of the first, negative answer is used: the description is empty |
| `ModelChecks!TextOfAllTokens` | detokenizes a list of tokens into a string | a null byte ends the text of all tokens, where the pieces of a stream go on behind it |
| `ModelChecks!EmbeddingStartsClean` | the cache is cleared for the next embedding | not when an embedding fails |
| `AgentChecks!ResultsCarryTheirId` | a result has the id of its call | only a failure has |
| `AgentChecks!ShownKindsFilter` | results can be filtered by the kinds shown | `type_alias` is shown and `typealias` filters |
| `AgentChecks!PatternsAreGlobs` | a glob pattern filters files | a star in the middle is only itself: `src/*.rs` matches nothing; what follows `**/` is compared with the beginning of the whole path, so `**/a*` does not match `src/a.rs` |
| `AgentChecks!FenceMayBeOpen` | a fenced block is parsed | a fence that is not closed panics |
| `SessionDb!CountsItsMessages` | the count of a session's messages | a save that failed leaves the new count with fewer messages |
| `ModelFiles!FailureIsAnnounced`, `CachedIsWhole` | failures are announced; a cached file is skipped | not all; a partial file counts as cached for good |
| `InteractiveChat!RagPromptHasHistory` | a prompt with retrieval has the history | it has the question only |

### Divergences met on the way, without a definition of their own

* A file edited between being read and being recorded is recorded at the newer stamp
  and skipped later: `RecordedMeansParsed` and `NoFileLeftOut` hold only without
  `ConcurrentEdits`, and the run and the theorems say so.
* No store is given empty vectors. The code would keep one as long as the store has no dimension; a later search then
  panics on it (`similarity.rs:24`), and `load` takes for its numbers what follows it in the file
  (`store.rs:241-260` writes no number for it, `store.rs:404` reads as many as the dimension), and fails or
  reads another store. A store may be given a vector whose `dimension` is not the
  length of its data; `QuantizedVectorStore` does not notice.
* A process that found an ONNX file missing copies what it fetched over it without looking again
  (`download.rs:47` and `62`), so it truncates a file that another process has completed meanwhile.
  `CachedFileStays` is about files that no process under way has found missing.
* With no room left for history at all, trimming removes the question too (hence the premise of
  `QuestionClosesPrompt`); messages are trimmed one at a time, so the history may start
  with an answer. A context budget of 0, which a small window gives, means no limit.
* A stream that fails or times out leaves its partial text in the history as the answer, also
  an empty one with retrieval. `/model` clears the session and keeps what `/retry` and `/sources` show.
* `LlamaService::infer` formats a prompt that is already formatted once more. The templates `gemma`,
  `phi` and `mistral` of the flag are custom ones, which the prompt builder cannot format.
* `NeverGoesBack` is stated for calls that returned *alone on their key*: with two
  overlapping calls the slower one may store an older look at the project over the newer one.
* The cached result of a tool is returned before its arguments and path are checked again. A
  timed-out tool thread goes on running and nothing counts it; `MaxAbandoned` bounds how many
  the model remembers. A byte position inside a character is a panic of the tool.
* The prompt of the agent shows calls with the key `"tool"`; the parser requires `"name"`. An unbalanced
  `}` in front of a call hides it.
* `HnswVectorStore` cuts links beyond 2M + 1 vectors, and answers are then approximate. `load` gives every
  store the default width of construction (`hnsw.rs:518`); a store made with another one, as only tests do, is not modelled.
  A scale taken from numbers without 0 among them is not near them, and `QuantizedIsNear`
  leaves it out.
* `load_session` gives a loaded session a new id, so loading and saving makes a second record.
* "All N layers fit" (`model.rs:464-501`) is decided on quotients by the number of layers: the sum may
  exceed the memory by up to N - 1 bytes (KiB in the model, which counts in these). The proof of `RecommendedLayersFit` would not go through without
  the allowance it now states.
* `recommend_gpu_config` recommends a full offload of a model without layers; `read_gguf_metadata` ignores keys of
  an architecture that come before its name; `clean_path` turns `../../a` into `a`.

### Fairness

Only two modules need it. `InferenceStream` has weak fairness of the thread as
a whole and of the loop as a whole: both are scheduled, a decode returns, and
`recv_timeout` returns at the latest when its time is over. Nothing is assumed of
the user's cancel flag, nor that an answer completes rather than fails.
`ToolExecutor` has weak fairness of each caller's own steps and strong fairness of time; **none** for the tool
threads, which may hang, since that is what the timeout is for. All other modules state
safety: their calls are synchronous, and end where their actions end.

## 4. Proofs

Eight modules hold theorems. Each component's proofs state an inductive invariant, with a lemma
for `Init`, one for the step (one named step or one lemma for each action), and short theorems that
follow from it. The assumptions are the named `ASSUME`s of the components, which say of what sort
the constants are (`WordsAssumption`, explained below, says a little more); where a theorem has a
hypothesis of its own, it is named here.

### IndexPipeline, SemanticSearch (`IndexPipeline_proofs`)

For all files, bounds and modes (`PipelineAssumption`, and `SearchAssumption` for requests):

* `TypeCorrect`: `Spec => []TypeOK`. Beyond types, every stamp in any file or variable
  is one the project has had; `TypeOK` is inductive on its own.
* `RecordedWasParsed` and `NothingLeftOut`: `RecordedMeansParsed` and `NoFileLeftOut` are
  invariants, assuming `ConcurrentEdits = FALSE`.
* `NeverRewinds`: the action property `StateNeverRewinds`.
* `MetadataAgrees` and `FullRunReplaces`: `VectorsMatchMetadata` and `FullRunIndexesProject`
  are invariants.
* `SearchDescribesTheRun` and `SearchLosesNoChunk`: `AnswersDescribeTheRun` and
  `SearchResolvesWhatItFinds` are invariants of a request next to the pipeline, for any `TopK` and
  any symbols that match; `FullRunReplacesNextToSearch`: so is the guarantee of the pipeline.

All but the second pair hold with edits at any time. The inductive invariants say why:

* `RecordInv`: what a run will record is decided by the state it *loaded* and by the disk
  as it is *then*. So the loaded state, too, holds only parsed versions; while a run
  is reading, what it has read is what is on disk; what it parsed stays so until the
  state is saved; and from the parsing on each file read is parsed at that version. The
  assumption is needed: with concurrent edits TLC violates both properties.
* `RewindInv`: until it saves, a run holds the state that is on disk (`PriorIsSaved`), and
  a file that exists is never older than what is recorded of it (`NotNewerThanDisk`), so that
  both branches of `NewEntry` go forward.
* `EmbedInv` follows a clean run from place to place: everything read is parsed, the store
  holds every chunk of the result, its file holds the store, the metadata hold the same.
* `AskInv` adds what a request holds between its two reads: as long as no run disturbs it, the store it
  loaded is the one on disk (`QuietReadsTheDisk`), and what it found is in that store
  (`FoundIsStored`).

`SavesOutcome` and `SavedStates` say what a save that may fail or tear its file can leave.

### The vector stores and the search cache (`MCStores_proofs`)

`MCStores` puts the stores and the cache side by side, and so do the theorems: each part has an invariant
that its own steps keep. They hold for any ids, batches (with vectors of any length but 0, malformed ones
too), queries, capacities, layers and callers (`StoreAssumption` and `MCAssumption`, which joins the assumptions of the
parts).

* `StoreIndexMatches`, `StoreHasOneDimension` (of `InMemoryVectorStore` alone) and `StoresIndexMatchesVectors`
  (among the other parts): `IndexMatchesVectors` and `OneDimension` are invariants.
* `StoresLayoutIsSound`: so is `LayoutIsSound`, the arrays, the rows of the flat buffer, the scale
  and the graph, all together.
* `CacheIsSafe`: so is `CacheSurvivesRaces`.
* `StoreImplementsMap` (`Spec => Map!Spec` for `InMemoryVectorStore`) and `StoresImplementMaps`
  (`StoresAnswerLikeMaps`, all three refinements of `VectorMap`): every call answers what a map would.

Their hypotheses are about the score and the queries, which the components leave open: two vectors of
one length have a score that is a number (`Scored`, for the graph is built by comparing scores), and the
limits of a query are numbers (`Comparable`; `Searchable` is both). `StoresImplementMaps` also needs
`2 * M <= EfConstruction`, that a new node looks at least as wide as its list of links is long; the defaults of
the code are 16 and 200.

The invariants, and what each needs:

* `StoreInv` has, besides types, the state of `remove` (`Calls`: the positions still to remove are in
  the array, which is why they are taken from the last to the first; the index is exact outside of
  `remove`), that no id is stored twice, and the dimensions, all of them also of the file: what
  is loaded must be as good as what is stored. What a sort does is proved: among the positions that
  score enough each rank is taken once and scores fall along the ranks (`RankFacts`), so the result is a
  ranking as the map defines it (`RankingIsRanking`).
* `CompactInv`: the rows tile the buffer (`InRows`), each offset is the base of its row, and the index finds
  each id; the same of the file. What `add` and `remove` do to a row (`RowOf`) and to all others
  is stated once for the buffer, and used for the quantized store as well.
* `QuantizedInv`: each row is what the numbers last added under its id are *in the present scale*
  (`Bytes`), so nothing may change the scale while vectors remain. That reading a byte back is near the
  number it was taken from is a chain of lemmas on division and rounding.
* `HnswInv`: a graph of nodes of one dimension, the last node the entry point, every list of
  links without repetition, without the node itself and within its limit; and
  `StillSmall(Len(nodes)) => Full(...)`: while there are at most `2M + 1` nodes each one of layer 0 links to
  every other. From this a walk visits every node, keeps the nearest (`IsWalk`, `IsFound`), and the
  search is exact, which is what the refinement says. Beyond this size the
  theorem promises the sound graph only, and answers are approximate, as HNSW intends.
* `CacheInv`: a clear leaves nothing, so what is cached was put since the last one and is as recent as the
  search that found it; a search that was under way when the index was replaced is the only source
  of an older answer.

### ChatSession, InteractiveChat (`InteractiveChat_proofs`)

For every capacity, window, limit, and set of questions, answers and system prompts
(`ContextAssumption`, `SessionAssumption`):

* `SessionIsTyped`, `CountedTokensAreInCache`, `FreshTurnHasItsPrompt` and `PromptAsksTheQuestion`:
  `TypeOK`, `CachedTokensAreInCache`, `FreshTurnIsExact` and `QuestionClosesPrompt` are invariants.
* `CacheIsOfThisConversation`: so is `NothingFromAnotherConversation`.
* `SourcesAreOfLastAnswer`, `AnswersHaveTheirQuestions`, `InteractiveCountsTokens`: in the interactive
  chat, so are `SourcesOfLastAnswer`, `AnswersFollowQuestions` and `CachedTokensAreInCache`.
* `ChatTrimsExactly`: the action property `TrimmedExactly`.

`SessionInv` is types and the context's count. Its lemmas say what every outcome of `infer` and
`infer_incremental` leaves (`InferIsSound`, `InferIncrementalIsSound`), what a formatted prompt
contains (`FormatFacts`), and what trimming keeps (`TrimHistoryFacts`, `TrimHistoryKeepsTheEnd`), by induction
over the history. `OwnWords` is needed because the property speaks of the cache only: the
*history* must have no foreign word either, or the next prompt would bring one. `InteractiveInv` has the
alternation of questions and answers also for the history in the session *file*, and that what `/retry`
would ask is a question.

`WordsAssumption` is about the labels, not the code: the words of users and of system prompts are
different from those of answers and of the template, so that a word tells where it comes from. Only
`CacheIsOfThisConversation` uses it.

### InferenceStream (`InferenceStream_proofs`)

For answers of any length, with or without somebody who cancels (`StreamAssumption`): `StreamLosesNoPiece`,
`StreamHasOneEnd` and `StreamStopsAfterOnePiece` say that `NoPieceLost`, `OneEnd` and `OneMorePiece` are
invariants. `StreamInv` adds what the channel of a loop that listens looks like (a last event is in it as
soon as the thread is out, and only at its end), that a loop that left on such an event has the
whole text, and where the thread can be after a piece that nobody wanted. What the filter of the tokens does to
a channel is proved by induction over its length.

### ToolExecutor (`ToolExecutor_proofs`)

For any callers, keys, capacity, timeout, retries, pauses and TTL (`ExecutorConstants`):
`ExecutorAnswersItsCall`, `ExecutorBoundsStaleness`, `ExecutorBoundsCalls` (`AnswersItsCall`,
`BoundedStaleness`, `CallBound`) and the action property `ExecutorNeverGoesBack` (`NeverGoesBack`).
`ExecutorInv` says of each caller that its thread and what that has sent serve the call it waits for
(`OneAttempt`) and were read during this attempt (`LooksAreRecent`), of each entry of the cache how
old its look at the files can be (`CacheIsGood`), and accounts for the time of a call attempt
by attempt, pause by pause (`TimeIsAccountedFor`): the bound of the property is the sum.

### SessionDb, ModelFiles (`MCPersistence_proofs`)

The module of the run puts both side by side, and so do the theorems: `SavesAreAlwaysWhole` and
`DownloadsAreAlwaysWhole`, for any connections, sessions, lengths, processes and numbers of blocks (`DbAssumption`,
`FilesAssumption`).

* `DbInv`: what is loaded is whole because of what a save has written *so far* (`WriterIsAt`: the messages of a
  session are the beginning that its writer has reached), because no other save has its number
  (`SavesAreNumbered`), and because a session that was not disturbed has one writer (`OneWriter`).
* `FilesInv`: a download has on the disk what it wrote and knows what is left (`HasWhatItWrote`), and a file with
  one writer is exactly its blocks (`AloneInFile`).
* `Fetchers`: only a process that is at a file it has to get is between finding it missing and copying it, so nobody
  starts to write a file but by `StartCopy` of one it found missing, or by a model's download of its own (`StepWants`).

### Functions (`MCAlgorithms_proofs`)

`Computing(calls)` are the behaviours of `MCAlgorithms` over any set of calls instead of the listed
inputs. Two of the properties are proved for it, with numbers and sequences of any size:

* `RecommendationsAlwaysFit`: `RecommendationsFit` of every model, quantity of memory, context and set of
  backends. `SizingFits` follows the branches and the divisions of `recommend_gpu_layers_from_metadata`, `GpuFits` the choice of
  a device, `BestQuant` the stable sort (`SortedIsRanked`).
* `CodeOfQuestionIsAlwaysInPrompt`: `CodeOfQuestionIsInPrompt` of every list of chunks of which one at least is similar, every
  question, every window and every list of snippets. The budgets are folds, and a fold is a run of its accumulator (`FoldRuns`
  of `DataLemmas`), about which an invariant can be proved: what the first budget keeps is the beginning of
  the snippets with at most the last one cut (`Faithful`), what the second keeps has room (`HasRoom`). An injected
  chunk scores above every similarity that was found (`InjectedAreOnTop`), so no chunk without the
  keyword is ranked before it (`InjectedScoresMore`).

### What is assumed, and what is not proved

`DataLemmas` has the facts on sequences, sets and folds the proofs share. The induction theorems of the
library take an operator as a parameter, which the provers cannot instantiate;
`NatInductionOnSet` states induction for a *set* of naturals, proved from
the well-foundedness of finite subsets, and is what all inductions over data here use.

Only model-checked:

* `StreamEnds` and `CallReturns`: liveness under fairness is out of the prover's reach.
* Eight properties of the functions: `CommandsAgree`, `SettingsAreKept`, `AgentEnds`, `ToolsAnswerTruly`, `CodeIsIndexed`,
  `MetadataIsReadRight`, `TextIsWhole` and `ModesAnswerAlike`. Each is compared with a definition of its result over bounded
  inputs. Most are recursions over text, trees or bytes with a second recursion in them (the alignment
  of two strings, the meaning of a pattern, the walk of a tree), or filter a sequence with
  `SelectSeq`, of which the provers know no definition.
* That answers of `HnswVectorStore` beyond `2M + 1` vectors are near: neither the code nor the
  model promises how near.

`TypeOK` of `InferenceStream` and of `ToolExecutor` is proved as a part of the inductive invariants.

## 5. Not modelled

* Foreign code: tree-sitter, llama.cpp, ONNX, SQLite, the HTTP client. A tree is given, a decode
  or an embedding succeeds or fails with any result, a statement is atomic.
* Floating point: scores are whole numbers whose order is that of the code; the cosine of an HNSW
  distance is a dot product.
* The tables of each language (node kinds, extensions, ignored names), JSON schemas and builders, error
  messages, the wording of prompts, logging and the layout of output.
* Argument parsing (clap), regular expressions (a predicate on lines), and the bytes of any file but GGUF.
* `search_code` of the agent passes on what `SemanticSearch` models; `agent_loop.rs`, `session.rs` and
  `metrics.rs` of the agent are empty. Benchmarks and examples are read as documentation.
* Parts with no callers outside tests are modelled where they have state of their own (session database,
  search cache, HNSW, quantization, downloads, agent state machine); the registry of embedding models and the
  mock embedding service are not.

## 6. Next proofs

In this order: the functions that are folds over a flat list (`Budget` and the loop detector in `AgentReasoning`, for
`AgentEnds`; the settings and their sources in `ChatSetup`, for `SettingsAreKept`), with `FoldRuns` as
for the budgets of retrieval; the generation loops of `OneShotChat` as runs beside each other, for `ModesAnswerAlike`; and
the reader of `GgufFile`, for `MetadataIsReadRight`.
