----------------------------- MODULE ModelSizing -----------------------------
(***************************************************************************)
(* model.rs, quant.rs and formats.rs: what a model will need, how many of  *)
(* its layers to put on the GPU, which quantization to take, and what kind *)
(* of file a model file is.  Sizes are in KiB, rounded down as the code    *)
(* rounds bytes.  Metadata is a record of Options.                         *)
(***************************************************************************)
EXTENDS Integers, Sequences, FiniteSets, SequencesExt

None == <<>>
Some(v) == <<v>>
UnwrapOr(option, v) == IF option # None THEN option[1] ELSE v
AtMost(n, most) == IF n > most THEN most ELSE n
AtLeast(n, least) == IF n < least THEN least ELSE n

MB == 1024
GB == 1024 * MB

----------------------------------------------------------------------------
(* Memory *)

\* Keys and values of n_ctx tokens of one layer, in f16: a model that does not name
\* its KV heads has none.
KvPerLayer(meta, n_ctx) ==
  LET n_head == AtLeast(UnwrapOr(meta.num_heads, 1), 1)
      head_dim == UnwrapOr(meta.embedding_length, 0) \div n_head
  IN (2 * UnwrapOr(meta.num_kv_heads, 0) * head_dim * n_ctx * 2) \div 1024

\* estimate_memory_from_metadata
EstimateMemory(meta, file_size, n_ctx, ram) ==
  LET kv_cache == UnwrapOr(meta.num_layers, 0) * KvPerLayer(meta, n_ctx)
      overhead == AtMost(AtLeast(file_size \div 10, 256 * MB), 2 * GB)
      total == file_size + kv_cache + overhead
      exceeds == ram # None /\ total > ram[1]
  IN [model |-> file_size, kv_cache |-> kv_cache, overhead |-> overhead, total |-> total,
      fits_in_ram |-> ~exceeds,
      warnings |-> (IF exceeds THEN {"exceeds RAM"} ELSE {})
                   \cup (IF total > 16 * GB THEN {"more than 16 GB"} ELSE {})
                   \cup (IF meta.context_length # None /\ n_ctx > meta.context_length[1]
                         THEN {"exceeds training context"} ELSE {})]

----------------------------------------------------------------------------
(* Layers on the GPU *)

GpuContext == 8192
GpuOverhead == 512 * MB

VramPerLayer(meta, file_size) ==
  file_size \div meta.num_layers[1] + KvPerLayer(meta, GpuContext)

\* Mutant of RecommendGpuLayers: the overhead is not set aside.
RecommendGpuLayersInAll(meta, file_size, vram, gpu_available) ==
  LET total == UnwrapOr(meta.num_layers, 0)
      per_layer == VramPerLayer(meta, file_size)
      fitting == IF per_layer > 0 THEN vram \div per_layer ELSE total
      recommended == IF fitting >= total THEN -1 ELSE (9 * fitting) \div 10
      layers == IF recommended < 0 THEN total ELSE recommended
  IN IF ~gpu_available \/ total = 0 THEN [layers |-> 0, vram |-> 0]
     ELSE [layers |-> recommended, vram |-> per_layer * layers + GpuOverhead]

\* recommend_gpu_layers_from_metadata: -1 is all of them.
RecommendGpuLayers(meta, file_size, vram, gpu_available) ==
  LET total == UnwrapOr(meta.num_layers, 0)
      per_layer == VramPerLayer(meta, file_size)
      usable == AtLeast(vram - GpuOverhead, 0)
      fitting == IF per_layer > 0 THEN usable \div per_layer ELSE total
      recommended == IF fitting >= total THEN -1 ELSE (9 * fitting) \div 10
      layers == IF recommended < 0 THEN total ELSE recommended
  IN IF ~gpu_available \/ total = 0 THEN [layers |-> 0, vram |-> 0]
     ELSE [layers |-> recommended, vram |-> per_layer * layers + GpuOverhead]

----------------------------------------------------------------------------
(* Backends: their names, in lower case, and their devices *)

\* available_backends: what llama.cpp has registered; null pointers are left out.
AvailableBackends(registered) ==
  LET found == FlattenSeq(registered)
  IN [i \in DOMAIN found |-> [name |-> UnwrapOr(found[i].name, "unknown"),
                              devices |-> FlattenSeq(found[i].devices)]]

\* detect_gpu_acceleration
DetectGpuAcceleration(backends) ==
  LET gpus == {backends[i].name : i \in DOMAIN backends} \cap {"cuda", "vulkan", "metal"}
  IN IF gpus = {} THEN "None" ELSE IF Cardinality(gpus) > 1 THEN "Multiple" ELSE CHOOSE gpu \in gpus : TRUE

\* list_gpu_devices: those of all backends but the CPU's, of an unknown size.
ListGpuDevices(backends) ==
  FlattenSeq([i \in DOMAIN backends |->
                IF backends[i].name = "cpu" THEN <<>>
                ELSE [j \in DOMAIN backends[i].devices |->
                        [name |-> backends[i].devices[j], backend |-> backends[i].name, vram |-> None]]])

LayerOverhead == 100 * MB
VramReserve == 512 * MB

\* Mutant of RecommendGpuConfig: nothing is reserved for the system.
RecommendGpuConfigUnreserved(model_size, n_layers, vram, backends) ==
  LET per_layer == (IF n_layers > 0 THEN model_size \div n_layers ELSE 0) + LayerOverhead
      effective == IF vram > 0 THEN vram ELSE 8 * GB
      layers == AtLeast(AtMost(effective \div per_layer, n_layers), 0)
  IN IF DetectGpuAcceleration(backends) = "None" THEN [layers |-> 0, vram |-> 0, full_offload |-> FALSE]
     ELSE [layers |-> layers, vram |-> per_layer * layers, full_offload |-> layers >= n_layers]

\* recommend_gpu_config: without a size, that of the first device, which is never
\* known, or 8 GB.
RecommendGpuConfig(model_size, n_layers, vram, backends) ==
  LET devices == ListGpuDevices(backends)
      per_layer == (IF n_layers > 0 THEN model_size \div n_layers ELSE 0) + LayerOverhead
      effective == IF vram > 0 THEN vram
                   ELSE IF devices = <<>> THEN 8 * GB ELSE UnwrapOr(devices[1].vram, 8 * GB)
      usable == AtLeast(effective - VramReserve, 0)
      layers == AtLeast(AtMost(usable \div per_layer, n_layers), 0)
  IN IF DetectGpuAcceleration(backends) = "None" THEN [layers |-> 0, vram |-> 0, full_offload |-> FALSE]
     ELSE [layers |-> layers, vram |-> per_layer * layers, full_offload |-> layers >= n_layers]

----------------------------------------------------------------------------
(* Quantization types *)

Quant(name, quality, speed, memory_percent) ==
  [name |-> name, quality |-> quality, speed |-> speed, memory_percent |-> memory_percent]

\* all_quant_types
AllQuantTypes ==
  <<Quant("F16", 10, 5, 100), Quant("Q8_0", 9, 7, 53), Quant("Q6_K", 8, 7, 41),
    Quant("Q5_K_M", 8, 7, 36), Quant("Q5_K_S", 7, 8, 34), Quant("Q4_K_M", 7, 8, 30),
    Quant("Q4_K_S", 6, 9, 29), Quant("Q4_0", 6, 9, 28), Quant("Q3_K_M", 5, 8, 24),
    Quant("Q3_K_S", 4, 9, 22), Quant("Q2_K", 3, 8, 21), Quant("IQ4_XS", 7, 8, 27),
    Quant("IQ3_M", 5, 8, 22)>>

\* estimate_size, of n_params thousands of parameters, in thousands of bytes.
EstimateSize(quant, n_params) == (n_params * 2 * quant.memory_percent) \div 100

\* The places of the types that fit, and the type at a place.
Fitting(n_params, memory) ==
  {i \in DOMAIN AllQuantTypes : EstimateSize(AllQuantTypes[i], n_params) <= (memory * 80) \div 100}
At(i) == AllQuantTypes[i]

\* A stable sort: what is as good as another stays behind it if it was.
Sorted(places, Better(_, _)) ==
  LET Before(j, i) == Better(At(j), At(i)) \/ (~Better(At(i), At(j)) /\ j < i)
  IN [n \in 1..Cardinality(places) |->
        At(CHOOSE i \in places : Cardinality({j \in places : Before(j, i)}) = n - 1)]
First(quants) == IF quants = <<>> THEN None ELSE Some(quants[1])

\* Mutant of RecommendQuant: speed decides before quality.
RecommendQuantFastest(n_params, memory) ==
  First(Sorted(Fitting(n_params, memory), LAMBDA a, b : \/ a.speed > b.speed
                                                        \/ a.speed = b.speed /\ a.quality > b.quality))

\* recommend_quant
RecommendQuant(n_params, memory) ==
  First(Sorted(Fitting(n_params, memory), LAMBDA a, b : \/ a.quality > b.quality
                                                        \/ a.quality = b.quality /\ a.speed > b.speed))

\* quant_for_memory
QuantForMemory(n_params, memory) ==
  Sorted(Fitting(n_params, memory), LAMBDA a, b : a.quality > b.quality)

----------------------------------------------------------------------------
(* Formats: a file is its extension and what its first bytes are *)

\* is_safetensors_file: a length of at most 100 MB, and a JSON header of that length.
IsSafetensorsFile(file) == file.content = "safetensors"

\* Mutant of DetectFormat: content is looked at only when there is no extension.
DetectFormatByName(file) ==
  CASE file.extension = "gguf" -> "Gguf"
    [] file.extension = "safetensors" -> "SafeTensors"
    [] file.extension \in {"bin", "pt", "pth"} -> "PyTorch"
    [] OTHER -> IF file.extension # "" THEN "Unknown"
                ELSE IF file.content = "gguf" THEN "Gguf"
                ELSE IF IsSafetensorsFile(file) THEN "SafeTensors" ELSE "Unknown"

\* detect_format
DetectFormat(file) ==
  CASE file.extension = "gguf" -> "Gguf"
    [] file.extension = "safetensors" -> "SafeTensors"
    [] file.extension \in {"bin", "pt", "pth"} ->
         IF IsSafetensorsFile(file) THEN "SafeTensors" ELSE "PyTorch"
    [] OTHER -> IF file.content = "gguf" THEN "Gguf"
                ELSE IF IsSafetensorsFile(file) THEN "SafeTensors" ELSE "Unknown"

\* find_model_files
FindModelFiles(dir) ==
  {[file |-> file, format |-> DetectFormat(file)] :
     file \in {f \in dir : f.is_file /\ DetectFormat(f) # "Unknown"}}
=============================================================================
