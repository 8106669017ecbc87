------------------------------ MODULE ChatSetup ------------------------------
(***************************************************************************)
(* How the commands of the CLI come to their models and their settings:    *)
(* configuration files, discovery of models, the embedding service of      *)
(* index, search, chat and interactive chat, and what a chat then runs as. *)
(*                                                                         *)
(* An Option is a sequence of at most one value.  A command is given the   *)
(* flags that were typed (those not typed are None) and the disk it finds. *)
(***************************************************************************)
EXTENDS Integers, Sequences, SequencesExt

None == <<>>
Some(v) == <<v>>
Or(option, other) == IF option # None THEN option ELSE other
UnwrapOr(option, v) == IF option # None THEN option[1] ELSE v

Ok(v) == [ok |-> TRUE, value |-> v]
Err(what) == [ok |-> FALSE, value |-> what]

----------------------------------------------------------------------------
(* Configuration files *)

\* A file is absent, broken, or holds a configuration.
Absent == [state |-> "absent"]
Broken == [state |-> "broken"]
Holds(config) == [state |-> "good", config |-> config]
Exists(file) == file.state # "absent"

NoSettings == [path |-> None, n_gpu_layers |-> None, n_threads |-> None]

\* Mutant of MergeOver: the base has the last word.
MergeUnder(config, base) == [field \in DOMAIN config |-> Or(base[field], config[field])]

\* merge_over
MergeOver(config, base) == [field \in DOMAIN config |-> Or(config[field], base[field])]

\* load_from
LoadFrom(file) == IF file.state = "good" THEN Ok(file.config) ELSE Err("parse")

\* load_default: the two paths are one file when the project is the home directory.
LoadDefault(disk) ==
  LET global == LoadFrom(disk.global)
      local == LoadFrom(disk.local)
  IN IF ~Exists(disk.global) /\ ~Exists(disk.local) THEN Ok(NoSettings)
     ELSE IF ~Exists(disk.local) \/ disk.home THEN global
     ELSE IF ~Exists(disk.global) THEN local
     ELSE IF ~global.ok THEN global
     ELSE IF ~local.ok THEN local
     ELSE Ok(MergeOver(local.value, global.value))

\* The configuration of a chat: a file that is named must be there and parse,
\* the others are dropped together when one of them does not.
FileConfig(flags, disk) ==
  IF flags.config # None
  THEN IF Exists(flags.config[1]) THEN LoadFrom(flags.config[1]) ELSE Err("no config")
  ELSE IF LoadDefault(disk).ok THEN LoadDefault(disk) ELSE Ok(NoSettings)

\* The clap defaults of flags that are no Option.
Default == [n_gpu_layers |-> 0, n_ctx |-> 8192, max_tokens |-> 2048]
Typed(flags, name) == UnwrapOr(flags[name], Default[name])

\* with_max_tokens
MaxTokens(flags) ==
  LET typed == Typed(flags, "max_tokens")
  IN IF typed < 1 THEN 1 ELSE IF typed > 65536 THEN 65536 ELSE typed

\* Mutant of Resolved: the model of the configuration comes first.
ResolvedConfigFirst(flags, config) ==
  [model |-> Or(config.path, flags.model),
   n_gpu_layers |-> UnwrapOr(Or(Some(Typed(flags, "n_gpu_layers")), config.n_gpu_layers), 0),
   n_threads |-> Or(flags.n_threads, config.n_threads)]

\* What run_chat takes from the two: resolve_n_gpu_layers is given the clap
\* default as if it had been typed.
Resolved(flags, config) ==
  [model |-> Or(flags.model, config.path),
   n_gpu_layers |-> UnwrapOr(Or(Some(Typed(flags, "n_gpu_layers")), config.n_gpu_layers), 0),
   n_threads |-> Or(flags.n_threads, config.n_threads)]

\* model config init: a file that is there is left alone.
ConfigInit(file) == IF Exists(file) THEN file ELSE Holds(NoSettings)

\* model config validate: the file must be there and parse.
ConfigValidate(file) == IF Exists(file) THEN LoadFrom(file) ELSE Err("no config")

----------------------------------------------------------------------------
(* Models on the disk: a path, the file behind it, and whether its header is *)
(* valid and the whole of it loads.                                          *)

\* discover_gguf_models: only the header decides.
Discovered(dir) == SelectSeq(dir, LAMBDA file : file.header)

\* Mutant of ListModels: the user's directory is searched first.
ListModelsGlobalFirst(disk) ==
  FoldLeft(LAMBDA models, file :
             IF \E i \in DOMAIN models : models[i].canonical = file.canonical THEN models
             ELSE Append(models, file),
           <<>>, Discovered(disk.globalModels) \o Discovered(disk.localModels))

\* list_models: the project's, then the user's, each file once.
ListModels(disk) ==
  FoldLeft(LAMBDA models, file :
             IF \E i \in DOMAIN models : models[i].canonical = file.canonical THEN models
             ELSE Append(models, file),
           <<>>, Discovered(disk.localModels) \o Discovered(disk.globalModels))

\* auto_discover_model: the one model of the user's directory.
AutoDiscover(disk) ==
  LET models == Discovered(disk.globalModels) IN
  IF models = <<>> THEN Err("no model")
  ELSE IF Len(models) > 1 THEN Err("several models")
  ELSE Ok(models[1].path)

\* Whether LlamaModel::load takes the file of a path.
Loads(path, disk) ==
  \E file \in ToSet(disk.localModels \o disk.globalModels) : file.path = path /\ file.whole

\* A model that is resolved, then loaded.
Loaded(model, disk) ==
  IF model.ok /\ ~Loads(model.value, disk) THEN Err("load") ELSE model

\* The model of a chat: the first of several is taken.
ChatModel(model, disk) ==
  IF model # None THEN Ok(model[1])
  ELSE IF ListModels(disk) = <<>> THEN AutoDiscover(disk)
  ELSE Ok(ListModels(disk)[1].path)

\* A named GGUF model, or the one that is discovered, loaded for embeddings.
GgufEmbedding(model, disk) ==
  LET path == IF model # None THEN Ok(model[1]) ELSE AutoDiscover(disk)
  IN IF Loaded(path, disk).ok THEN Ok([kind |-> "gguf", path |-> path.value])
     ELSE Err("embedding")

\* An ONNX model is loaded with its tokenizer.
OnnxEmbedding(path, flags) ==
  IF flags.tokenizer THEN Ok([kind |-> "onnx", path |-> path]) ELSE Err("embedding")

\* A model file named by --embedding-model is GGUF by its extension.
IsGguf(path) == path[2] = "gguf"

\* --embedding-model, of either kind.
NamedEmbedding(flags, disk) ==
  IF IsGguf(flags.embedding_model[1]) THEN GgufEmbedding(Some(flags.embedding_model[1][1]), disk)
  ELSE OnnxEmbedding(flags.embedding_model[1][1], flags)

----------------------------------------------------------------------------
(* The embedding service of each command *)

\* Mutant of IndexEmbedding: --model has precedence over a GGUF --embedding-model.
IndexEmbeddingModelFirst(flags, disk) ==
  IF flags.embedding_model # None /\ flags.model = None THEN NamedEmbedding(flags, disk)
  ELSE GgufEmbedding(flags.model, disk)

IndexEmbedding(flags, disk) ==
  IF flags.embedding_model # None THEN NamedEmbedding(flags, disk)
  ELSE GgufEmbedding(flags.model, disk)

SearchEmbedding(flags, disk) ==
  IF flags.embedding_model = None THEN Err("no embedding model")
  ELSE NamedEmbedding(flags, disk)

ChatEmbedding(flags, disk) ==
  IF flags.embedding_model # None THEN NamedEmbedding(flags, disk)
  ELSE IF flags.mock_llm THEN Err("no embedding model")
  ELSE GgufEmbedding(flags.model, disk)

InteractiveEmbedding(flags, disk) ==
  IF flags.mock_llm THEN Err("mock")
  ELSE IF ~disk.vectors THEN Err("no index")
  ELSE IF flags.embedding_model # None THEN NamedEmbedding(flags, disk)
  ELSE GgufEmbedding(flags.model, disk)

----------------------------------------------------------------------------
(* A chat *)

SaturatingSub(a, b) == IF a > b THEN a - b ELSE 0

\* Mutant of ContextBudget: the response has no share of the context.
ContextBudgetWithoutResponse(flags) ==
  IF flags.context_token_budget = 0 THEN SaturatingSub(Typed(flags, "n_ctx"), 300)
  ELSE flags.context_token_budget

\* The tokens of a prompt that code may take; 0 is no limit.
ContextBudget(flags) ==
  IF flags.context_token_budget = 0
  THEN SaturatingSub(Typed(flags, "n_ctx"), MaxTokens(flags) + 300)
  ELSE flags.context_token_budget

\* The service that answers.
Llm(flags, config, disk) ==
  IF flags.mock_llm THEN Ok("mock")
  ELSE Loaded(ChatModel(Resolved(flags, config).model, disk), disk)

Runs(mode, llm, embedding) == [mode |-> mode, llm |-> llm, embedding |-> embedding]

\* run_interactive_chat: without an embedding service it goes on without code.
Interactive(flags, disk, llm) ==
  IF flags.retrieval /\ InteractiveEmbedding(flags, disk).ok
  THEN Ok(Runs("interactive", llm, Some(InteractiveEmbedding(flags, disk).value)))
  ELSE Ok(Runs("interactive", llm, None))

\* Mutant of OneShot: it goes on without code, as the interactive chat does.
OneShotFallingBack(flags, disk, llm) ==
  IF ~flags.retrieval \/ ~disk.vectors \/ ~ChatEmbedding(flags, disk).ok
  THEN Ok(Runs("llm only", llm, None))
  ELSE Ok(Runs("rag", llm, Some(ChatEmbedding(flags, disk).value)))

\* The rest of run_chat, for one question.
OneShot(flags, disk, llm) ==
  IF ~flags.retrieval THEN Ok(Runs("llm only", llm, None))
  ELSE IF ~disk.vectors THEN Err("no index")
  ELSE IF ~ChatEmbedding(flags, disk).ok THEN ChatEmbedding(flags, disk)
  ELSE Ok(Runs("rag", llm, Some(ChatEmbedding(flags, disk).value)))

\* run_chat
RunChat(flags, disk) ==
  LET config == FileConfig(flags, disk)
      llm == Llm(flags, config.value, disk)
  IN IF ~disk.project THEN Err("no project")
     ELSE IF ~config.ok THEN config
     ELSE IF ~llm.ok THEN llm
     ELSE IF flags.interactive THEN Interactive(flags, disk, llm.value)
     ELSE OneShot(flags, disk, llm.value)

\* /model switch: the flags count, the configuration does not.
SwitchModel(path, flags, disk) ==
  IF Loaded(Ok(path), disk).ok
  THEN Ok([path |-> path, n_gpu_layers |-> Typed(flags, "n_gpu_layers"), n_threads |-> flags.n_threads])
  ELSE Err("load")
=============================================================================
