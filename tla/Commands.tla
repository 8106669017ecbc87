------------------------------ MODULE Commands ------------------------------
(***************************************************************************)
(* The rest of the CLI: where each command expects the index, what the     *)
(* model and config commands answer, and the templates that can be named.  *)
(* A model path is [exists, is_file, header, metadata, file_size]: whether *)
(* its header is good, and what reading its metadata gives.                *)
(***************************************************************************)
EXTENDS Integers, Sequences

Sizing == INSTANCE ModelSizing

None == <<>>
Some(v) == <<v>>
Or(option, other) == IF option # None THEN option ELSE other
UnwrapOr(option, v) == IF option # None THEN option[1] ELSE v

Ok(v) == [ok |-> TRUE, value |-> v]
Err(what) == [ok |-> FALSE, error |-> what]

----------------------------------------------------------------------------
(* Where the index is: a path without its extension *)

InProject(project) == <<project, ".chatvcode", "vectors">>
Files(vectors, metadata) == [vectors |-> <<vectors, "vdb">>, metadata |-> <<metadata, "atmd">>]

\* Commands::Index: both ways to embed take the same file.
IndexFiles(flags) ==
  LET store == UnwrapOr(flags.vector_store_path, InProject(flags.path[1])) IN Files(store, store)

\* Mutant of SearchFiles: the metadata are those of the project.
SearchFilesOfProject(flags) ==
  LET project == InProject(UnwrapOr(flags.path, "."))
  IN Files(UnwrapOr(flags.vector_store_path, project), project)

\* Commands::Search, and search_with_service
SearchFiles(flags) ==
  LET store == UnwrapOr(flags.vector_store_path, InProject(UnwrapOr(flags.path, "."))) IN Files(store, store)

\* ChatOptions: two paths, each with its default.
ChatOptionsFiles(project, vector_store_path, metadata_store_path) ==
  Files(UnwrapOr(vector_store_path, InProject(project)), UnwrapOr(metadata_store_path, InProject(project)))

\* run_chat and run_interactive_chat have no flag for either.
ChatFiles(flags) == ChatOptionsFiles(UnwrapOr(flags.path, "."), None, None)

\* CoreSearchService, the search of the agent
AgentFiles(project) == [Files(InProject(project), InProject(project)) EXCEPT !.vectors = <<InProject(project), "db">>]

----------------------------------------------------------------------------
(* model *)

\* pre_validate_model
PreValidated(path) ==
  IF ~path.exists \/ ~path.is_file THEN Err("not found")
  ELSE IF ~path.header THEN Err("header") ELSE path.metadata

ModelInfo(path) == IF path.exists THEN PreValidated(path) ELSE Err("not found")

NoSizes ==
  [num_layers |-> None, embedding_length |-> None, num_heads |-> None, num_kv_heads |-> None, context_length |-> None]

\* Mutant of ModelMemory: metadata that cannot be read are taken for empty ones.
ModelMemoryOfAnything(path, n_ctx, ram) ==
  IF ~path.exists THEN Err("not found")
  ELSE Ok(Sizing!EstimateMemory(IF PreValidated(path).ok THEN PreValidated(path).value
                                ELSE NoSizes, path.file_size, n_ctx, ram))

\* estimate_memory
ModelMemory(path, n_ctx, ram) ==
  IF ~path.exists \/ ~PreValidated(path).ok THEN Err("metadata")
  ELSE Ok(Sizing!EstimateMemory(PreValidated(path).value, path.file_size, n_ctx, ram))

\* get_available_ram: the memory of the machine, all of it, where it can be read.
AvailableRam(meminfo) == meminfo
\* estimate_default_vram
DefaultVram == 8 * Sizing!GB

\* recommend_gpu_layers
ModelGpu(path, vram_gb, gpu_available) ==
  IF ~path.exists \/ ~PreValidated(path).ok THEN Err("metadata")
  ELSE Ok(Sizing!RecommendGpuLayers(PreValidated(path).value, path.file_size,
                                    IF vram_gb = None THEN DefaultVram ELSE vram_gb[1] * Sizing!GB, gpu_available))

Listed(path, source) ==
  [path |-> path, source |-> source,
   context_length |-> IF path.metadata.ok THEN path.metadata.value.context_length ELSE None]

\* list_models_in_dir: a model whose metadata cannot be read is listed without them.
ListModelsInDir(dir) ==
  LET models == SelectSeq(dir, LAMBDA path : path.is_file /\ path.header)
  IN [i \in DOMAIN models |-> Listed(models[i], "custom")]

\* handle_model_command
ModelCommand(action, path, n_ctx, vram_gb, machine) ==
  CASE action = "info" -> ModelInfo(path)
    [] action = "memory" -> ModelMemory(path, n_ctx, AvailableRam(machine.meminfo))
    [] action = "gpu" -> ModelGpu(path, vram_gb, machine.gpu_available)

\* /model in the interactive chat: the context is that of the chat, no VRAM can be given.
SlashModel(action, arg, chat_n_ctx, machine) ==
  CASE arg = None -> Err("usage")
    [] arg # None /\ action = "switch" -> IF arg[1].exists THEN Ok("switch") ELSE Err("not found")
    [] arg # None /\ action # "switch" -> ModelCommand(action, arg[1], chat_n_ctx, None, machine)

----------------------------------------------------------------------------
(* The model of a service: it is validated, loaded, and given a context *)

\* enhance_model_error: the kind of an error stays what it was.
EnhanceModelError(error) ==
  [kind |-> error, guidance |-> error \in {"not found", "load", "unsupported", "header", "eof"}]

\* Mutant of ServiceNew: the file is left to the native library.
ServiceNewUnvalidated(path, n_ctx, machine) ==
  IF ~path.loads THEN Err(EnhanceModelError("load"))
  ELSE IF n_ctx > machine.most_ctx THEN Err(EnhanceModelError("load")) ELSE Ok("service")

\* LlamaService::new: a context that cannot be made is a load that failed.
ServiceNew(path, n_ctx, machine) ==
  IF ~PreValidated(path).ok THEN Err(EnhanceModelError(PreValidated(path).error))
  ELSE IF ~path.loads THEN Err(EnhanceModelError("load"))
  ELSE IF n_ctx > machine.most_ctx THEN Err(EnhanceModelError("load")) ELSE Ok("service")

\* discover_and_load: the model that is named, or the one that is discovered.
DiscoverAndLoad(named, discovered, n_ctx, machine) ==
  IF named # None
  THEN IF PreValidated(named[1]).ok THEN ServiceNew(named[1], n_ctx, machine) ELSE PreValidated(named[1])
  ELSE IF discovered # None THEN ServiceNew(discovered[1], n_ctx, machine) ELSE Err("no model")

----------------------------------------------------------------------------
(* config *)

\* ConfigAction::Show: the label says which files there are, the configuration
\* is the default one when one of them does not parse.
ConfigShow(exists, loaded) ==
  [label |-> CASE exists.local /\ exists.global -> "merged"
               [] exists.local /\ ~exists.global -> "local"
               [] ~exists.local /\ exists.global -> "global"
               [] OTHER -> "defaults",
   config |-> IF loaded.ok THEN loaded.value ELSE "defaults"]

----------------------------------------------------------------------------
(* chat --template, in lower case *)

\* Mutant of ParseChatTemplate: a short list of names.
ParseChatTemplateShort(name) ==
  CASE name = "auto" -> "Auto"
    [] name = "chatml" -> "ChatML"
    [] name = "llama-3" -> "Llama3"
    [] OTHER -> "Custom"

\* parse_chat_template: any other name is taken for the text of a template.
ParseChatTemplate(name) ==
  CASE name = "auto" -> "Auto"
    [] name = "raw" -> "Raw"
    [] name = "chatml" -> "ChatML"
    [] name \in {"llama3", "llama-3"} -> "Llama3"
    [] name \in {"deepseek", "deepseek2", "deepseek3", "deepseek-v3"} -> "DeepSeek"
    [] OTHER -> "Custom"
=============================================================================
