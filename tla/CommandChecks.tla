---------------------------- MODULE CommandChecks ----------------------------
(***************************************************************************)
(* Inputs and properties of the commands of the CLI and of the answers     *)
(* that they take.                                                         *)
(***************************************************************************)
EXTENDS ModelChecks, FiniteSetsExt, SequencesExt

Chat == INSTANCE OneShotChat
Cli == INSTANCE Commands

----------------------------------------------------------------------------
(* What a model answers *)

Never == 9
Half == {<<"h">>, <<"t">>}
SampledTokens == {<<"a">>, <<"h", "t">>, <<>>, Chat!Eos} \cup Half
StopStrings == {<<>>, <<<<"a", "a">>>>, <<<<"h", "t">>>>, <<<<"h", "t">>, <<"a">>>>}
Models ==
  [samples : [1..3 -> SampledTokens], fails : {0, 2, Never}, stalls : {0, 1, Never}, cancel : {1, 3, Never}]
Params == [max_tokens : 1..3, stop_strings : StopStrings]
Untroubled == {m \in Models : m.fails = Never /\ m.stalls = Never /\ m.cancel = Never}
OneShotInputs == [function : {"one_shot"}, model : Models, params : Params]
BatchInputs ==
  [function : {"infer_batch"}, params : {[max_tokens |-> 2, stop_strings |-> <<>>]},
   models : UpTo(3, {[samples |-> <<<<"a">>, t>>, fails |-> f, stalls |-> Never, cancel |-> c] :
                       t \in {<<"a">>, Chat!Eos}, f \in {1, Never}, c \in {0, 2, Never}})]
\* The prompt of a turn has two tokens; the context is a new one.
TurnInputs ==
  [function : {"stream_turn"}, model : Untroubled, params : Params, cached_count : -1..3]
MockInputs ==
  [function : {"mock"}, params : [max_tokens : 1..3],
   text : {Chat!Flat(pieces) : pieces \in UpTo(6, {<<"a">>, <<" ">>, <<"h", "t">>})}, cancelled : BOOLEAN]

----------------------------------------------------------------------------
(* Paths, models, machines *)

StoreInputs ==
  [function : {"stores"}, indexed : {".", "p"}, path : {<<>>, <<".">>, <<"p">>},
   vector_store_path : {<<>>, <<<<"v">>>>}]

Metas == [num_layers : {<<>>, <<32>>}, embedding_length : {<<>>, <<1024>>}, num_heads : {<<8>>},
          num_kv_heads : {<<8>>}, context_length : {<<>>, <<8192>>}]
PathsOfModels ==
  [exists : {TRUE}, is_file : BOOLEAN, header : BOOLEAN,
   metadata : {Cli!Err("eof")} \cup {Cli!Ok(meta) : meta \in Metas}, file_size : {4 * Sizing!GB},
   loads : BOOLEAN]
  \cup {[exists |-> FALSE, is_file |-> FALSE, header |-> FALSE, metadata |-> Cli!Err("not found"), file_size |-> 0,
         loads |-> FALSE]}
Machines == [meminfo : {<<>>, <<4 * Sizing!GB>>, <<16 * Sizing!GB>>}, gpu_available : BOOLEAN, most_ctx : {8192}]
ModelCommandInputs ==
  [function : {"model"}, path : PathsOfModels, n_ctx : {2048, 32768}, vram_gb : {<<>>, <<4>>, <<24>>}, machine : Machines]

Backends == {<<>>} \cup {<<[name |-> name, devices |-> devices]>> :
              name \in {<<>>, <<"cpu">>, <<"cuda">>, <<"vulkan">>, <<"blas">>}, devices \in {<<>>, <<<<"d">>>>, <<<<>>, <<"e">>>>}}
GpuConfigInputs ==
  [function : {"gpu_config"}, registered : UpTo(2, Backends), model_size : {n * Sizing!GB : n \in {1, 8, 40}},
   n_layers : {-1, 0, 1, 32}, vram : {0, 512 * Sizing!MB, 4 * Sizing!GB, 24 * Sizing!GB}]

RagInputs ==
  [function : {"rag"}, retrieved : {Chat!Err("search"), Chat!Ok(<<>>), Chat!Ok(<<"source">>)},
   options : [system_prompt : {<<>>, <<"typed">>}], params : {[max_tokens |-> 2, stop_strings |-> <<>>]},
   model : {[samples |-> <<<<"a">>, t>>, fails |-> f, stalls |-> Never, cancel |-> Never] :
              t \in {<<"a">>, Chat!Eos}, f \in {0, 1, Never}}]
SamplerInputs ==
  [function : {"sampler"},
   params : [temperature : {-10, 0, 70}, top_p : {90, 100}, top_k : {-1, 0, 40}, min_p : {0, 5},
             repeat_penalty : {100, 110}] \cup {Chat!DefaultParams, Chat!GreedyParams}]

TemplateNames == {"auto", "raw", "chatml", "llama3", "llama-3", "deepseek", "gemma", "a text"}
TemplateInputs ==
  [function : {"llm_only"}, template : TemplateNames, question : {"question"}, system_prompt : {<<>>, <<"typed">>}]

CommandCall ==
  input \in OneShotInputs \cup BatchInputs \cup TurnInputs \cup MockInputs
            \cup StoreInputs \cup ModelCommandInputs \cup GpuConfigInputs \cup TemplateInputs
            \cup RagInputs \cup SamplerInputs
CommandFunctions ==
  {"one_shot", "infer_batch", "stream_turn", "mock", "stores", "model", "gpu_config", "llm_only", "rag", "sampler"}
CommandResult(call) ==
  CASE call.function = "one_shot" ->
         [sync |-> Chat!RunChatLlmOnly(FALSE, call.params, call.model),
          streamed |-> Chat!RunChatLlmOnly(TRUE, call.params, call.model)]
    [] call.function = "infer_batch" -> Chat!InferBatch(call.params, call.models)
    [] call.function = "stream_turn" ->
         [sync |-> Chat!Infer(call.params, call.model),
          streamed |-> Chat!Receive(Chat!InferStreamIncremental(2, call.cached_count, 0, call.params, call.model))]
    [] call.function = "mock" ->
         [sync |-> Chat!MockInfer(call.params, call.text, call.cancelled),
          streamed |-> Chat!Receive(Chat!MockStream(call.params, call.text, call.cancelled))]
    [] call.function = "rag" ->
         LET Answer(stream) == Chat!RunChatRag(stream, call.retrieved, call.options, call.params, call.model)
         IN [sync |-> Answer(FALSE), streamed |-> Answer(TRUE)]
    [] call.function = "sampler" -> Chat!BuildSamplerChain(call.params)
    [] call.function = "stores" ->
         [index |-> Cli!IndexFiles([call EXCEPT !.path = <<call.indexed>>]),
          search |-> Cli!SearchFiles(call), chat |-> Cli!ChatFiles(call),
          options |-> Cli!ChatOptionsFiles(call.indexed, call.vector_store_path, <<>>),
          agent |-> Cli!AgentFiles(call.indexed)]
    [] call.function = "model" ->
         LET Answer(action) == Cli!ModelCommand(action, call.path, call.n_ctx, call.vram_gb, call.machine)
         IN [info |-> Answer("info"), memory |-> Answer("memory"), gpu |-> Answer("gpu"),
             slash |-> Cli!SlashModel("memory", <<call.path>>, call.n_ctx, call.machine),
             listed |-> Cli!ListModelsInDir(<<call.path>>),
             service |-> Cli!ServiceNew(call.path, call.n_ctx, call.machine),
             named |-> Cli!DiscoverAndLoad(<<call.path>>, <<>>, call.n_ctx, call.machine)]
    [] call.function = "gpu_config" ->
         LET backends == Sizing!AvailableBackends(call.registered)
         IN [devices |-> Sizing!ListGpuDevices(backends), acceleration |-> Sizing!DetectGpuAcceleration(backends),
             config |-> Sizing!RecommendGpuConfig(call.model_size, call.n_layers, call.vram, backends)]
    [] call.function = "llm_only" ->
         Templates!Format(Cli!ParseChatTemplate(call.template), Chat!LlmOnlyMessages(call), TRUE)

----------------------------------------------------------------------------
(* Properties *)

\* An answer that is streamed is the one that would have been given at once, and
\* fails when that fails or when it stalls for too long, as long as no token ends
\* inside a character.
BothModesAnswerAlike ==
  Is("one_shot") =>
    LET sync == output.value.sync streamed == output.value.streamed IN
    /\ streamed.ok => sync.ok
    /\ sync.ok /\ input.model.stalls = Never => streamed.ok
    /\ streamed.ok /\ ToSet(input.model.samples) \cap Half = {} =>
         /\ streamed.value.text = sync.value.text
         /\ streamed.value.completion_tokens <= sync.value.completion_tokens

\* A turn that is streamed with a context of its own is not misled by the count of
\* tokens that another context has cached, unless the count is beyond the prompt.
StaleCountIsHarmless ==
  Is("stream_turn") /\ ToSet(input.model.samples) \cap Half = {} =>
    LET sync == output.value.sync streamed == output.value.streamed IN
    IF input.cached_count \in 0..2
    THEN streamed.ok /\ streamed.value.text = sync.value.text
    ELSE ~streamed.ok

\* An answer ends with the token that completes a stop string, also one that
\* spans tokens, and only such an answer ends for that reason.
StopStringEndsAnswer ==
  Is("one_shot") /\ output.value.sync.ok =>
    LET answer == output.value.sync.value
        HasStop(text) == \E s \in ToSet(input.params.stop_strings) : Chat!HasText(text, s)
    IN /\ answer.stop_reason = "StopString" <=> HasStop(answer.text)
       /\ answer.completion_tokens > 0 =>
            ~HasStop(Chat!DetokenizeAll(SubSeq(input.model.samples, 1, answer.completion_tokens - 1)))

\* A batch has the answers of its prompts in their order, all of them unless it
\* is cancelled between two of them, and none when one of them fails.
BatchKeepsOrder ==
  Is("infer_batch") =>
    LET models == input.models
        asked == SelectInSeq(models, LAMBDA m : m.cancel = 0)
        n == IF asked = 0 THEN Len(models) ELSE asked - 1
        Answer(i) == Chat!Infer(input.params, models[i])
    IN IF \E i \in 1..n : ~Answer(i).ok THEN ~output.value.ok
       ELSE output.value.value.answers = [i \in 1..n |-> Answer(i).value]

\* Within its limits the mock says the same words in both
\* modes, and when it is cancelled it says none.
MockModesAgree ==
  Is("mock") /\ Len(input.text) <= 4 * input.params.max_tokens /\ Len(Chat!Words(input.text)) <= input.params.max_tokens =>
    LET sync == output.value.sync streamed == output.value.streamed IN
    /\ sync.ok /\ streamed.ok
    /\ Chat!Words(sync.value.text) = Chat!Words(streamed.value.text)
    /\ Chat!Words(sync.value.text) = IF input.cancelled THEN <<>> ELSE Chat!Words(input.text)

\* A question about code is answered alike in both modes, from the same sources and
\* under the same system prompt, which says so when there are none.
RagModesAgree ==
  Is("rag") =>
    LET sync == output.value.sync streamed == output.value.streamed IN
    /\ sync.ok = streamed.ok
    /\ sync.ok => /\ input.retrieved.ok
                  /\ sync.value.answer.text = streamed.value.answer.text
                  /\ sync.value.sources = streamed.value.sources
                  /\ sync.value.system = streamed.value.system
                  /\ sync.value.system = "no context" <=> sync.value.sources = <<>>

\* Whatever the parameters are, one last stage chooses the token, and by chance
\* only above temperature 0.
OneStageChooses ==
  Is("sampler") =>
    /\ Last(output.value) = IF input.params.temperature > 0 THEN "dist" ELSE "greedy"
    /\ {"dist", "greedy"} \cap ToSet(Front(output.value)) = {}

\* What index wrote is what search reads, vectors and metadata of one index, and
\* what a chat reads when the index is where it is by default.
IndexIsFound ==
  Is("stores") /\ Cli!UnwrapOr(input.path, ".") = input.indexed =>
    /\ output.value.search = output.value.index
    /\ input.vector_store_path = <<>> => output.value.chat = output.value.index

\* What the commands say of a model hangs together: the memory and the layers are
\* told of just the models that can be described, these are listed, and a service
\* is only made of one of them.
ModelCommandsAgree ==
  Is("model") =>
    /\ output.value.memory.ok = output.value.info.ok
    /\ output.value.gpu.ok = output.value.info.ok
    /\ output.value.slash = output.value.memory
    /\ output.value.service.ok => output.value.info.ok
    /\ output.value.named.ok = output.value.service.ok
    /\ output.value.info.ok =>
         output.value.listed = <<[path |-> input.path, source |-> "custom",
                                  context_length |-> output.value.info.value.context_length]>>

\* Layers that are recommended fit into the memory of a GPU with what is kept for
\* the system, there is a GPU for them, and a full offload is of all layers.
GpuConfigFits ==
  Is("gpu_config") =>
    LET config == output.value.config IN
    /\ config.layers > 0 =>
         /\ output.value.acceleration # "None"
         /\ input.vram > 0 => config.vram + Sizing!VramReserve <= input.vram
         /\ config.layers * (input.model_size \div input.n_layers) <= input.model_size
    /\ config.full_offload /\ input.n_layers > 0 => config.layers = input.n_layers

\* With the templates that the flag names, a chat without code asks the question
\* behind its system prompt.
DocumentedTemplatesWork ==
  Is("llm_only") /\ input.template \in {"auto", "raw", "chatml", "llama3"} =>
    /\ output.value.ok
    /\ SelectSeq(output.value.value, LAMBDA piece : piece \in {"question", "typed", "helpful"})
       = <<IF input.system_prompt = <<>> THEN "helpful" ELSE "typed", "question">>

----------------------------------------------------------------------------
(* Stated and false of the code *)

\* The text that streams is the text of the answer.
StreamedTextIsTheAnswer ==
  Is("one_shot") /\ output.value.streamed.ok => output.value.streamed.value.text = output.value.sync.value.text

\* The reason that a streamed answer ended is the reason it gives.
StreamedStopReason ==
  Is("one_shot") /\ output.value.streamed.ok =>
    output.value.streamed.value.stop_reason = output.value.sync.value.stop_reason

\* "List all available GPU devices."
ListedDevicesAreGpus ==
  Is("gpu_config") /\ output.value.devices # <<>> => output.value.acceleration # "None"

\* "Create a default sampler chain with standard parameters"
DefaultChainIsDefault ==
  Is("sampler") /\ input.params = Chat!DefaultParams => output.value = Chat!DefaultSamplerChain

\* "Resolves the metadata store path": vectors at another place have their metadata there.
OptionsNameOneIndex ==
  Is("stores") => output.value.options = output.value.index

\* "default: <path>/.chatvcode/vectors.vdb": where the search of the agent looks too.
AgentSearchesTheIndex ==
  Is("stores") /\ input.vector_store_path = <<>> => output.value.agent = output.value.index
=============================================================================
