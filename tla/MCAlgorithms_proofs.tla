------------------------- MODULE MCAlgorithms_proofs -------------------------
(***************************************************************************)
(* Proofs about functions that MCAlgorithms checks on small inputs, for    *)
(* inputs of any size.                                                     *)
(***************************************************************************)
EXTENDS MCAlgorithms, DataLemmas

Option(S) == {<<>>} \cup {<<v>> : v \in S}

(***************************************************************************)
(* Arithmetic                                                              *)
(***************************************************************************)

LEMMA Quotient ==
  ASSUME NEW a \in Nat, NEW b \in Nat \ {0}
  PROVE  a \div b \in Nat /\ (a \div b) * b <= a /\ a < (a \div b) * b + b
OBVIOUS

LEMMA ProductGrows ==
  ASSUME NEW a \in Nat, NEW b \in Nat, NEW c \in Nat, a <= b
  PROVE  a * c \in Nat /\ b * c \in Nat /\ a * c <= b * c
OBVIOUS

LEMMA QuotientGrows ==
  ASSUME NEW a \in Nat, NEW b \in Nat, NEW c \in Nat \ {0}, a <= b
  PROVE  a \div c \in Nat /\ b \div c \in Nat /\ a \div c <= b \div c
OBVIOUS

(***************************************************************************)
(* Calls                                                                   *)
(***************************************************************************)

\* A behaviour of MCAlgorithms whose call is one of any set of calls.
Computing(calls) ==
  /\ input \in calls /\ output = NotYet
  /\ [][Compute]_<<input, output>>

\* The function has not returned, or it has returned its result.
Called(calls) ==
  /\ input \in calls
  /\ output = NotYet \/ output = Returned(Result(input))

LEMMA CallIsMade ==
  ASSUME NEW CONSTANT calls
  PROVE  /\ input \in calls /\ output = NotYet => Called(calls)
         /\ Called(calls) /\ [Compute]_<<input, output>> => Called(calls)'
<1>1. input \in calls /\ output = NotYet => Called(calls)
  BY DEF Called
<1>2. Called(calls) /\ [Compute]_<<input, output>> => Called(calls)'
  <2> SUFFICES ASSUME Called(calls), [Compute]_<<input, output>>
               PROVE  Called(calls)'
    OBVIOUS
  <2>1. CASE Compute
    <3>1. input' = input /\ output' = Returned(Result(input))
      BY <2>1 DEF Compute
    <3>2. Result(input)' = Result(input)
      BY <3>1 DEF Result
    <3> QED
      BY <3>1, <3>2 DEF Called, Returned
  <2>2. CASE UNCHANGED <<input, output>>
    BY <2>2 DEF Called, Result
  <2> QED
    BY <2>1, <2>2
<1> QED
  BY <1>1, <1>2

LEMMA RetrievalCalls ==
  ASSUME NEW calls, Called(calls), NEW function, Is(function), function \in RetrievalFunctions
  PROVE  /\ input \in calls /\ input.function = function
         /\ output.value = RetrievalResult(input)
<1>1. input \in calls /\ output = Returned(Result(input)) /\ input.function = function
  BY DEF Called, Is, NotYet
<1>2. /\ function \notin AgentFunctions
      /\ function \notin IndexingFunctions
      /\ function \notin ModelFunctions
      /\ function \notin CommandFunctions
  BY DEF ModelFunctions, RetrievalFunctions, AgentFunctions, IndexingFunctions, CommandFunctions
<1>3. Result(input) = RetrievalResult(input)
  BY <1>1, <1>2 DEF Result
<1> QED
  BY <1>1, <1>3 DEF Returned

LEMMA ModelCalls ==
  ASSUME NEW calls, Called(calls), NEW function, Is(function), function \in ModelFunctions
  PROVE  /\ input \in calls /\ input.function = function
         /\ output.value = ModelResult(input)
<1>1. input \in calls /\ output = Returned(Result(input)) /\ input.function = function
  BY DEF Called, Is, NotYet
<1>2. /\ function \notin RetrievalFunctions
      /\ function \notin AgentFunctions
      /\ function \notin IndexingFunctions
      /\ function \notin CommandFunctions
  BY DEF ModelFunctions, RetrievalFunctions, AgentFunctions, IndexingFunctions, CommandFunctions
<1>3. Result(input) = ModelResult(input)
  BY <1>1, <1>2 DEF Result
<1> QED
  BY <1>1, <1>3 DEF Returned

LEMMA CommandCalls ==
  ASSUME NEW calls, Called(calls), NEW function, Is(function), function \in CommandFunctions
  PROVE  /\ input \in calls /\ input.function = function
         /\ output.value = CommandResult(input)
<1>1. input \in calls /\ output = Returned(Result(input)) /\ input.function = function
  BY DEF Called, Is, NotYet
<1>2. /\ function \notin RetrievalFunctions
      /\ function \notin AgentFunctions
      /\ function \notin IndexingFunctions
      /\ function \notin ModelFunctions
  BY DEF ModelFunctions, RetrievalFunctions, AgentFunctions, IndexingFunctions, CommandFunctions
<1>3. Result(input) = CommandResult(input)
  BY <1>1, <1>2 DEF Result
<1> QED
  BY <1>1, <1>3 DEF Returned

(***************************************************************************)
(* ModelSizing: layers on the GPU, quantizations                           *)
(***************************************************************************)

AnyMeta ==
  [num_layers : Option(Nat), embedding_length : Option(Nat), num_heads : Option(Nat),
   num_kv_heads : Option(Nat), context_length : Option(Nat)]
AnySizing ==
  [function : {"sizing"}, meta : AnyMeta, file_size : Nat, n_ctx : Nat, vram : Nat, gpu_available : BOOLEAN]
AnyQuant == [function : {"recommend_quant"}, n_params : Nat, memory : Nat]
AnyBackend == [name : Option(STRING), devices : Seq(Option(STRING))]
AnyGpuConfig ==
  [function : {"gpu_config"}, registered : Seq(Option(AnyBackend)), model_size : Nat, n_layers : Int, vram : Nat]

LEMMA OptionIsSeq ==
  ASSUME NEW S
  PROVE  Option(S) \subseteq Seq(S) /\ Seq(Option(S)) \subseteq Seq(Seq(S))
<1>1. ASSUME NEW option \in Option(S) PROVE option \in Seq(S)
  <2>1. CASE option = <<>>
    BY <2>1
  <2>2. CASE option # <<>>
    <3>1. PICK v \in S : option = <<v>>
      BY <2>2 DEF Option
    <3> QED
      BY <3>1
  <2> QED
    BY <2>1, <2>2
<1> QED
  BY <1>1

LEMMA SameFlatten == \A seqs : Sizing!FlattenSeq(seqs) = FlattenSeq(seqs)
BY Zenon DEF Sizing!FlattenSeq, FlattenSeq

LEMMA Unwrapped ==
  ASSUME NEW option \in Option(Nat), NEW v \in Nat
  PROVE  Sizing!UnwrapOr(option, v) \in Nat
BY DEF Option, Sizing!UnwrapOr, Sizing!None

\* The cache of a layer grows with the context.
LEMMA KvGrows ==
  ASSUME NEW meta \in AnyMeta, NEW m \in Nat, NEW n \in Nat, m <= n
  PROVE  /\ Sizing!KvPerLayer(meta, m) \in Nat /\ Sizing!KvPerLayer(meta, n) \in Nat
         /\ Sizing!KvPerLayer(meta, m) <= Sizing!KvPerLayer(meta, n)
<1> DEFINE heads == Sizing!AtLeast(Sizing!UnwrapOr(meta.num_heads, 1), 1)
           length == Sizing!UnwrapOr(meta.embedding_length, 0)
           dim == length \div heads
           kv == 2 * Sizing!UnwrapOr(meta.num_kv_heads, 0)
           all(k) == kv * dim * k * 2
<1>1. length \in Nat /\ kv \in Nat /\ heads \in Nat \ {0}
  BY Unwrapped DEF AnyMeta, Sizing!AtLeast
<1> HIDE DEF length, kv, heads
<1>2. dim \in Nat
  BY <1>1, Quotient
<1> HIDE DEF dim
<1>3. kv * dim \in Nat
  BY <1>1, <1>2
<1>4. m * (kv * dim) \in Nat /\ n * (kv * dim) \in Nat /\ m * (kv * dim) <= n * (kv * dim)
  BY <1>3, ProductGrows
<1>5. \A k \in Nat : all(k) = 2 * (k * (kv * dim))
  BY <1>1, <1>2
<1>6. all(m) \in Nat /\ all(n) \in Nat /\ all(m) <= all(n)
  BY <1>4, <1>5
<1> HIDE DEF all
<1>7. \A k : Sizing!KvPerLayer(meta, k) = all(k) \div 1024
  BY DEF Sizing!KvPerLayer, all, dim, length, heads, kv
<1> QED
  BY <1>6, <1>7, QuotientGrows

\* As many layers as a quotient says have room.
LEMMA LayersHaveRoom ==
  ASSUME NEW usable \in Nat, NEW per \in Nat \ {0}, NEW layers \in Nat, layers <= usable \div per
  PROVE  per * layers \in Nat /\ per * layers <= usable
<1>1. usable \div per \in Nat /\ (usable \div per) * per <= usable
  BY Quotient
<1>2. layers * per <= (usable \div per) * per /\ layers * per \in Nat
  BY <1>1, ProductGrows
<1>3. per * layers = layers * per
  OBVIOUS
<1> QED
  BY <1>1, <1>2, <1>3

\* What is recommended for the layers of a model has room in the memory given.
LEMMA SizingFits ==
  ASSUME NEW calls, \A c \in calls : c.function = "sizing" => c \in AnySizing, Called(calls)
  PROVE  RecommendedLayersFit
<1> SUFFICES ASSUME Is("sizing") PROVE RecommendedLayersFit
  BY DEF RecommendedLayersFit
<1>1. input \in AnySizing /\ input.function = "sizing" /\ output.value = ModelResult(input)
  BY ModelCalls DEF ModelFunctions
<1> DEFINE meta == input.meta
           size == input.file_size
           vram == input.vram
           total == Sizing!UnwrapOr(meta.num_layers, 0)
           cache == Sizing!KvPerLayer(meta, Sizing!GpuContext)
           kv == Sizing!KvPerLayer(meta, input.n_ctx)
           weight == size \div total
           per == weight + cache
           usable == Sizing!AtLeast(vram - Sizing!GpuOverhead, 0)
           gpu == Sizing!RecommendGpuLayers(meta, size, vram, input.gpu_available)
           memory == Sizing!EstimateMemory(meta, size, input.n_ctx, <<16 * Sizing!GB>>)
<1>2. output.value.gpu = gpu /\ output.value.memory = memory
  BY <1>1 DEF ModelResult
<1>3. /\ meta \in AnyMeta /\ size \in Nat /\ vram \in Nat /\ input.n_ctx \in Nat
      /\ total \in Nat /\ cache \in Nat /\ kv \in Nat
      /\ input.n_ctx <= Sizing!GpuContext => kv <= cache
  <2>1. meta \in AnyMeta /\ size \in Nat /\ vram \in Nat /\ input.n_ctx \in Nat
    BY <1>1 DEF AnySizing
  <2>2. total \in Nat
    BY <2>1, Unwrapped DEF AnyMeta
  <2>3. Sizing!GpuContext \in Nat
    BY DEF Sizing!GpuContext
  <2>4. \A m, n \in Nat : m <= n =>
          /\ Sizing!KvPerLayer(meta, m) \in Nat /\ Sizing!KvPerLayer(meta, n) \in Nat
          /\ Sizing!KvPerLayer(meta, m) <= Sizing!KvPerLayer(meta, n)
    BY <2>1, KvGrows
  <2> QED
    BY <2>1, <2>2, <2>3, <2>4
<1>4. /\ memory.model = size /\ memory.kv_cache = total * kv
  BY DEF Sizing!EstimateMemory
<1>5. /\ usable \in Nat
      /\ usable > 0 => vram = usable + Sizing!GpuOverhead
      /\ Sizing!GpuOverhead \in Nat
  BY <1>3 DEF Sizing!AtLeast, Sizing!GpuOverhead, Sizing!MB
<1>6. ASSUME total # 0, gpu.layers # 0
      PROVE  LET fitting == IF per > 0 THEN usable \div per ELSE total
                 some == (9 * fitting) \div 10
             IN  IF fitting >= total THEN gpu.layers = -1
                 ELSE gpu.layers = some /\ gpu.vram = per * (IF some < 0 THEN total ELSE some) + Sizing!GpuOverhead
  <2>1. Sizing!VramPerLayer(meta, size) = per
    BY <1>6 DEF Sizing!VramPerLayer, Sizing!UnwrapOr, Sizing!None
  <2> HIDE DEF per, total
  <2> QED
    BY <1>6, <2>1 DEF Sizing!RecommendGpuLayers, total
<1>7. total # 0 => weight \in Nat /\ size < weight * total + total
  BY <1>3, Quotient
<1>8. ASSUME total # 0, per > 0 PROVE per \in Nat \ {0} /\ usable \div per \in Nat
  <2>1. per \in Nat \ {0}
    BY <1>3, <1>7, <1>8
  <2> HIDE DEF per, usable
  <2> QED
    BY <1>5, <2>1, Quotient
<1> HIDE DEF usable, gpu, memory, total, size, vram
<1>9. ASSUME gpu.layers = -1, input.n_ctx <= Sizing!GpuContext, total <= size
      PROVE  memory.model + memory.kv_cache + Sizing!GpuOverhead < vram + total
  <2>1. CASE total = 0
    <3>1. gpu = [layers |-> 0, vram |-> 0]
      BY <2>1 DEF gpu, total, Sizing!RecommendGpuLayers
    <3> HIDE DEF gpu
    <3> QED
      BY ONLY <1>9, <3>1
  <2>2. CASE total # 0
    <3>1. weight > 0
      <4>1. weight = 0 => weight * total = 0
        BY <1>3
      <4> QED
        BY <1>3, <1>7, <1>9, <2>2, <4>1
    <3>2. per > 0
      BY <1>3, <1>7, <2>2, <3>1
    <3>3. usable \div per >= total
      <4>1. (9 * (usable \div per)) \div 10 \in Nat
        BY <1>8, <2>2, <3>2
      <4> HIDE DEF per
      <4> QED
        BY <1>6, <1>9, <2>2, <3>2, <4>1
    <3>4. per * total \in Nat /\ per * total <= usable
      <4>1. per \in Nat \ {0}
        BY <1>8, <2>2, <3>2
      <4> HIDE DEF per
      <4> QED
        BY ONLY <1>3, <1>5, <3>3, <4>1, LayersHaveRoom
    <3>5. per * total = weight * total + cache * total
      <4>1. weight \in Int /\ cache \in Int /\ total \in Int
        BY <1>3, <1>7, <2>2
      <4> HIDE DEF weight, cache
      <4> QED
        BY ONLY <4>1
    <3> HIDE DEF kv, cache
    <3>6. kv * total \in Nat /\ cache * total \in Nat /\ kv * total <= cache * total /\ total * kv = kv * total
      BY <1>3, <1>9, ProductGrows
    <3>7. weight * total \in Nat /\ weight * total > 0
      BY <1>3, <1>7, <2>2, <3>1
    <3> HIDE DEF weight, cache, kv, per
    <3> QED
      BY <1>3, <1>4, <1>5, <1>7, <2>2, <3>4, <3>5, <3>6, <3>7
  <2> QED
    BY <2>1, <2>2
<1>10. ASSUME gpu.layers > 0 PROVE gpu.vram <= vram
  <2>1. total # 0
    <3>1. total = 0 => gpu = [layers |-> 0, vram |-> 0]
      BY DEF gpu, total, Sizing!RecommendGpuLayers
    <3>2. gpu = [layers |-> 0, vram |-> 0] => gpu.layers = 0
      <4> HIDE DEF gpu
      <4> QED
        OBVIOUS
    <3> QED
      BY ONLY <1>10, <3>1, <3>2
  <2>2. per > 0 /\ usable \div per < total
    <3>1. per >= 0 /\ per \in Int
      BY <1>3, <1>7, <2>1
    <3>2. per > 0 => usable \div per \in Nat
      BY <1>8, <2>1
    <3> HIDE DEF per
    <3> QED
      BY <1>3, <1>6, <1>10, <2>1, <3>1, <3>2
  <2> DEFINE some == (9 * (usable \div per)) \div 10
  <2>3. some \in Nat /\ some <= usable \div per
    BY <1>8, <2>1, <2>2
  <2>4. gpu.layers = some /\ gpu.vram = per * some + Sizing!GpuOverhead
    <3> HIDE DEF per
    <3> QED
      BY <1>3, <1>6, <1>10, <2>1, <2>2, <2>3
  <2> HIDE DEF some
  <2>5. per \in Nat \ {0}
    BY <1>8, <2>1, <2>2
  <2> HIDE DEF per
  <2>6. per * some \in Nat /\ per * some <= usable
    BY ONLY <1>5, <2>3, <2>5, LayersHaveRoom
  <2>7. some > 0
    BY <1>10, <2>4
  <2>8. per * some > 0
    BY ONLY <2>3, <2>5, <2>7
  <2> QED
    BY <1>3, <1>5, <2>4, <2>6, <2>8
<1> QED
  BY <1>2, <1>9, <1>10 DEF RecommendedLayersFit, total, size, vram

\* A GPU has room for the layers it is recommended.
LEMMA GpuFits ==
  ASSUME NEW calls, \A c \in calls : c.function = "gpu_config" => c \in AnyGpuConfig, Called(calls)
  PROVE  GpuConfigFits
<1> SUFFICES ASSUME Is("gpu_config") PROVE GpuConfigFits
  BY DEF GpuConfigFits
<1>1. input \in AnyGpuConfig /\ input.function = "gpu_config" /\ output.value = CommandResult(input)
  BY CommandCalls DEF CommandFunctions
<1> DEFINE size == input.model_size
           n == input.n_layers
           vram == input.vram
           backends == Sizing!AvailableBackends(input.registered)
           devices == Sizing!ListGpuDevices(backends)
           weight == IF n > 0 THEN size \div n ELSE 0
           per == weight + Sizing!LayerOverhead
           effective == IF vram > 0 THEN vram
                        ELSE IF devices = <<>> THEN 8 * Sizing!GB
                        ELSE Sizing!UnwrapOr(devices[1].vram, 8 * Sizing!GB)
           usable == Sizing!AtLeast(effective - Sizing!VramReserve, 0)
           layers == Sizing!AtLeast(Sizing!AtMost(usable \div per, n), 0)
           config == Sizing!RecommendGpuConfig(size, n, vram, backends)
<1>2. /\ output.value.config = config
      /\ output.value.acceleration = Sizing!DetectGpuAcceleration(backends)
  <2>1. output.value = [devices |-> devices, acceleration |-> Sizing!DetectGpuAcceleration(backends),
                        config |-> config]
    <3>1. output.value = CommandResult(input) /\ input.function = "gpu_config"
      BY <1>1
    <3> QED
      BY ONLY <3>1 DEF CommandResult, config, backends, devices, size, n, vram
  <2> HIDE DEF config, backends, devices
  <2> QED
    BY ONLY <2>1
<1>3. size \in Nat /\ n \in Int /\ vram \in Nat /\ input.registered \in Seq(Option(AnyBackend))
  BY <1>1 DEF AnyGpuConfig
<1>4. devices # <<>> => devices[1].vram = <<>>
  <2> DEFINE Name == STRING \cup {"unknown"}
             Device == [name : STRING, backend : Name, vram : {<<>>}]
             Backend == [name : Name, devices : Seq(STRING)]
             found == FlattenSeq(input.registered)
             named == [i \in DOMAIN backends |->
                         IF backends[i].name = "cpu" THEN <<>>
                         ELSE [j \in DOMAIN backends[i].devices |->
                                 [name |-> backends[i].devices[j], backend |-> backends[i].name, vram |-> <<>>]]]
  <2>1. found \in Seq(AnyBackend)
    <3>1. input.registered \in Seq(Seq(AnyBackend))
      BY <1>3, OptionIsSeq
    <3> QED
      BY <3>1, FlattenFacts
  <2>2. \A devs \in Seq(Option(STRING)) : FlattenSeq(devs) \in Seq(STRING)
    <3>1. Seq(Option(STRING)) \subseteq Seq(Seq(STRING))
      BY OptionIsSeq
    <3> QED
      BY <3>1, FlattenFacts
  <2>3. backends \in Seq(Backend)
    <3>0. backends = [i \in DOMAIN found |->
                        [name |-> Sizing!UnwrapOr(found[i].name, "unknown"), devices |-> FlattenSeq(found[i].devices)]]
      BY Zenon DEF Sizing!AvailableBackends, Sizing!FlattenSeq, FlattenSeq
    <3>5. DOMAIN found = 1..Len(found)
      BY <2>1
    <3>1. backends = [i \in 1..Len(found) |->
                        [name |-> Sizing!UnwrapOr(found[i].name, "unknown"), devices |-> FlattenSeq(found[i].devices)]]
      BY ONLY <3>0, <3>5
    <3>2. ASSUME NEW i \in 1..Len(found)
          PROVE  [name |-> Sizing!UnwrapOr(found[i].name, "unknown"), devices |-> FlattenSeq(found[i].devices)] \in Backend
      <4>1. found[i] \in AnyBackend
        BY <2>1
      <4>2. found[i].name \in Option(STRING) /\ found[i].devices \in Seq(Option(STRING))
        BY <4>1 DEF AnyBackend
      <4>3. Sizing!UnwrapOr(found[i].name, "unknown") \in Name
        <5>1. CASE found[i].name = <<>>
          <6>1. Sizing!UnwrapOr(found[i].name, "unknown") = "unknown"
            BY <5>1 DEF Sizing!UnwrapOr, Sizing!None
          <6> QED
            BY <6>1
        <5>2. CASE found[i].name # <<>>
          <6>1. PICK v \in STRING : found[i].name = <<v>>
            BY <4>2, <5>2 DEF Option
          <6> QED
            BY <5>2, <6>1 DEF Sizing!UnwrapOr, Sizing!None
        <5> QED
          BY <5>1, <5>2
      <4> QED
        BY <2>2, <4>2, <4>3
    <3> HIDE DEF found, backends, Backend
    <3>3. Len(found) \in Nat
      BY <2>1
    <3>4. backends \in [1..Len(found) -> Backend]
      BY <3>1, <3>2
    <3> QED
      BY <3>3, <3>4, FunctionIsSeq
  <2> HIDE DEF backends
  <2>4. named \in Seq(Seq(Device))
    <3>1. ASSUME NEW i \in 1..Len(backends)
          PROVE  (IF backends[i].name = "cpu" THEN <<>>
                  ELSE [j \in DOMAIN backends[i].devices |->
                          [name |-> backends[i].devices[j], backend |-> backends[i].name, vram |-> <<>>]]) \in Seq(Device)
      <4> DEFINE devs == backends[i].devices
                 rows == [j \in DOMAIN devs |-> [name |-> devs[j], backend |-> backends[i].name, vram |-> <<>>]]
      <4>0. backends[i] \in Backend
        <5> HIDE DEF Backend
        <5> QED
          BY <2>3
      <4>1. backends[i].name \in Name /\ devs \in Seq(STRING)
        BY <4>0
      <4>2. DOMAIN devs = 1..Len(devs) /\ Len(devs) \in Nat /\ \A j \in 1..Len(devs) : devs[j] \in STRING
        BY <4>1
      <4>3. rows \in [1..Len(devs) -> Device]
        BY <4>1, <4>2
      <4>4. rows \in Seq(Device)
        <5> HIDE DEF rows, devs, Device
        <5> QED
          BY <4>2, <4>3, FunctionIsSeq
      <4> QED
        BY <4>4
    <3>2. DOMAIN backends = 1..Len(backends) /\ Len(backends) \in Nat
      BY <2>3
    <3> HIDE DEF Device
    <3>3. named \in [1..Len(backends) -> Seq(Device)]
      BY <3>1, <3>2
    <3> HIDE DEF named
    <3> QED
      BY <3>2, <3>3, FunctionIsSeq
  <2>5. devices = FlattenSeq(named)
    BY SameFlatten DEF Sizing!ListGpuDevices, Sizing!None
  <2> HIDE DEF named, devices, Device
  <2>6. devices \in Seq(Device)
    BY <2>4, <2>5, FlattenFacts
  <2>7. devices # <<>> => devices[1] \in Device
    BY <2>6
  <2> QED
    BY <2>7 DEF Device
<1>5. effective \in Nat
  <2>1. Sizing!UnwrapOr(<<>>, 8 * Sizing!GB) = 8 * Sizing!GB
    BY DEF Sizing!UnwrapOr, Sizing!None
  <2>2. 8 * Sizing!GB \in Nat
    BY DEF Sizing!GB, Sizing!MB
  <2> HIDE DEF devices
  <2> QED
    BY <1>3, <1>4, <2>1, <2>2
<1> HIDE DEF devices, effective
<1>6. /\ usable \in Nat /\ Sizing!VramReserve \in Nat
      /\ usable > 0 => effective = usable + Sizing!VramReserve
  BY <1>5 DEF Sizing!AtLeast, Sizing!VramReserve, Sizing!MB
<1>7. weight \in Nat /\ (n > 0 => weight * n <= size)
  <2>1. CASE n > 0
    <3>1. n \in Nat \ {0}
      BY <1>3, <2>1
    <3>2. size \div n \in Nat /\ (size \div n) * n <= size
      BY <1>3, <3>1, Quotient
    <3> QED
      BY <2>1, <3>2
  <2>2. CASE ~(n > 0)
    BY <2>2
  <2> QED
    BY <2>1, <2>2
<1>8. per \in Nat \ {0}
  BY <1>7 DEF Sizing!LayerOverhead, Sizing!MB
<1>9. \/ config.layers = 0 /\ ~config.full_offload
      \/ /\ Sizing!DetectGpuAcceleration(backends) # "None"
         /\ config = [layers |-> layers, vram |-> per * layers, full_offload |-> layers >= n]
  <2> HIDE DEF per, weight, layers, usable
  <2> QED
    BY DEF Sizing!RecommendGpuConfig, per, weight, layers, usable, devices, effective
<1> HIDE DEF usable, per, weight, config
<1>10. usable \div per \in Nat
  BY <1>6, <1>8, Quotient
<1>11. layers \in Nat /\ (layers > 0 => layers <= usable \div per /\ layers <= n)
  <2> DEFINE q == usable \div per
  <2> HIDE DEF q
  <2> QED
    BY <1>3, <1>10 DEF Sizing!AtLeast, Sizing!AtMost, q
<1> HIDE DEF layers
<1>12. ASSUME layers > 0
       PROVE  /\ vram > 0 => per * layers + Sizing!VramReserve <= vram
              /\ layers * weight <= size
  <2>1. per * layers \in Nat /\ per * layers <= usable
    BY ONLY <1>6, <1>8, <1>11, <1>12, LayersHaveRoom
  <2>2. per * layers > 0
    BY ONLY <1>8, <1>11, <1>12
  <2>3. n \in Nat /\ layers * weight \in Nat /\ n * weight \in Nat /\ layers * weight <= n * weight
    BY <1>3, <1>7, <1>11, <1>12, ProductGrows
  <2>4. vram > 0 => effective = vram
    BY DEF effective
  <2>5. n * weight = weight * n
    BY <1>7, <2>3
  <2>6. vram > 0 => per * layers + Sizing!VramReserve <= vram
    BY ONLY <1>6, <2>1, <2>2, <2>4
  <2>7. layers * weight <= n * weight /\ n * weight <= size
    BY ONLY <1>7, <1>11, <1>12, <2>3, <2>5
  <2>8. layers * weight <= size
    BY ONLY <1>3, <2>3, <2>7
  <2> QED
    BY ONLY <2>6, <2>8
<1>13. config.layers > 0 =>
         /\ Sizing!DetectGpuAcceleration(backends) # "None"
         /\ vram > 0 => config.vram + Sizing!VramReserve <= vram
         /\ config.layers * (size \div n) <= size
  <2>1. layers > 0 => weight = size \div n
    BY <1>3, <1>11 DEF weight
  <2> HIDE DEF n, size, vram
  <2> QED
    BY <1>9, <1>12, <2>1
<1>14. config.full_offload /\ n > 0 => config.layers = n
  <2> SUFFICES ASSUME config.full_offload, n > 0 PROVE config.layers = n
    OBVIOUS
  <2>1. config = [layers |-> layers, vram |-> per * layers, full_offload |-> layers >= n]
    BY <1>9
  <2>2. config.layers = layers /\ config.full_offload = (layers >= n)
    BY ONLY <2>1
  <2> HIDE DEF n
  <2>3. layers >= n
    BY <2>2
  <2> QED
    BY <1>3, <1>11, <2>2, <2>3
<1> QED
  BY <1>2, <1>13, <1>14 DEF GpuConfigFits

LEMMA QuantFacts ==
  /\ DOMAIN Sizing!AllQuantTypes = 1..13
  /\ \A i \in 1..13 : Sizing!At(i).quality \in 0..10 /\ Sizing!At(i).speed \in 0..9
<1>1. DOMAIN Sizing!AllQuantTypes = 1..13
  BY DEF Sizing!AllQuantTypes
<1>2. ASSUME NEW i \in 1..13 PROVE Sizing!At(i).quality \in 0..10
  BY DEF Sizing!AllQuantTypes, Sizing!At, Sizing!Quant
<1>3. ASSUME NEW i \in 1..13 PROVE Sizing!At(i).speed \in 0..9
  BY DEF Sizing!AllQuantTypes, Sizing!At, Sizing!Quant
<1> QED
  BY <1>1, <1>2, <1>3

LEMMA SameQuantCount == \A S : Sizing!Cardinality(S) = Cardinality(S)
BY Zenon DEF Sizing!Cardinality, Cardinality

\* A sort that puts the higher of two scores first is the ranking by that score.
LEMMA SortedIsRanked ==
  ASSUME NEW places \in SUBSET (1..13), NEW score \in [places -> Int], NEW ahead, NEW sorted,
         \A i \in places : ahead[i] = AheadOf(places, score, i),
         sorted = [n \in 1..Cardinality(places) |->
                     Sizing!At(CHOOSE i \in places : Cardinality(ahead[i]) = n - 1)]
  PROVE  sorted = [n \in 1..Cardinality(places) |-> Sizing!At(Ranked(places, score, n))]
<1>0. 13 \in Nat
  OBVIOUS
<1>1. \A n \in 1..Cardinality(places) : \E i \in places : Cardinality(AheadOf(places, score, i)) = n - 1
  BY <1>0, RankFacts
<1>2. \A i, j \in places : Cardinality(AheadOf(places, score, i)) = Cardinality(AheadOf(places, score, j)) => i = j
  BY <1>0, RankFacts
<1>3. ASSUME NEW n \in 1..Cardinality(places)
      PROVE  (CHOOSE i \in places : Cardinality(ahead[i]) = n - 1) = Ranked(places, score, n)
  <2>1. PICK i \in places : Cardinality(AheadOf(places, score, i)) = n - 1
    BY <1>1
  <2>2. \A j \in places : Cardinality(AheadOf(places, score, j)) = n - 1 <=> j = i
    BY <1>2, <2>1
  <2>3. Ranked(places, score, n) = i
    BY <2>2 DEF Ranked
  <2>4. \A j \in places : Cardinality(ahead[j]) = n - 1 <=> j = i
    BY <2>2
  <2>5. i = CHOOSE j \in places : Cardinality(ahead[j]) = n - 1
    BY <2>4
  <2> QED
    BY ONLY <2>3, <2>5
<1>4. \A n \in 1..Cardinality(places) :
        Sizing!At(CHOOSE i \in places : Cardinality(ahead[i]) = n - 1) = Sizing!At(Ranked(places, score, n))
  BY <1>3
<1> QED
  BY <1>4

\* Quality and then speed is one score.
LEMMA QualityThenSpeed ==
  ASSUME NEW a \in 0..10, NEW b \in 0..10, NEW s \in 0..9, NEW t \in 0..9, NEW i \in Int, NEW j \in Int
  PROVE  (\/ a > b \/ (a = b /\ s > t)
          \/ ~(b > a \/ (b = a /\ t > s)) /\ j < i)
         <=> \/ 100 * a + s > 100 * b + t
             \/ 100 * a + s = 100 * b + t /\ j < i
<1>1. CASE a > b
  BY <1>1
<1>2. CASE a < b
  BY <1>2
<1>3. CASE a = b
  BY <1>3
<1> QED
  BY <1>1, <1>2, <1>3

\* The quantization recommended is one of those that fit, and none of them is
\* of better quality.
LEMMA BestQuant ==
  ASSUME NEW calls, Called(calls)
  PROVE  BestQuantIsRecommended
<1> SUFFICES ASSUME Is("recommend_quant") PROVE BestQuantIsRecommended
  BY DEF BestQuantIsRecommended
<1> DEFINE F == Sizing!Fitting(input.n_params, input.memory)
           N == Cardinality(F)
           quality == [i \in F |-> Sizing!At(i).quality]
           both == [i \in F |-> 100 * Sizing!At(i).quality + Sizing!At(i).speed]
           all == Sizing!QuantForMemory(input.n_params, input.memory)
           best == Sizing!RecommendQuant(input.n_params, input.memory)
           Lower(j, i) == \/ Sizing!At(j).quality > Sizing!At(i).quality
                          \/ ~(Sizing!At(i).quality > Sizing!At(j).quality) /\ j < i
           Poorer(j, i) == \/ \/ Sizing!At(j).quality > Sizing!At(i).quality
                              \/ /\ Sizing!At(j).quality = Sizing!At(i).quality
                                 /\ Sizing!At(j).speed > Sizing!At(i).speed
                           \/ /\ ~(\/ Sizing!At(i).quality > Sizing!At(j).quality
                                   \/ /\ Sizing!At(i).quality = Sizing!At(j).quality
                                      /\ Sizing!At(i).speed > Sizing!At(j).speed)
                              /\ j < i
           lower == [i \in F |-> {j \in F : Lower(j, i)}]
           behind == [i \in F |-> {j \in F : Poorer(j, i)}]
           sorted == [n \in 1..N |-> Sizing!At(CHOOSE i \in F : Cardinality(behind[i]) = n - 1)]
<1>0. 13 \in Nat
  OBVIOUS
<1>1. output.value.best = best /\ output.value.all = all
  <2>1. output.value = ModelResult(input) /\ input.function = "recommend_quant"
    BY ModelCalls DEF ModelFunctions
  <2> QED
    BY <2>1 DEF ModelResult
<1>2. F \in SUBSET (1..13) /\ \A i \in F : Sizing!At(i).quality \in 0..10 /\ Sizing!At(i).speed \in 0..9
  BY QuantFacts DEF Sizing!Fitting
<1> HIDE DEF F
<1>3. quality \in [F -> Int] /\ both \in [F -> Int]
  BY <1>2
<1>4. all = [n \in 1..N |-> Sizing!At(CHOOSE i \in F : Cardinality(lower[i]) = n - 1)]
  <2> DEFINE count(i) == Sizing!Cardinality({j \in F : Lower(j, i)})
  <2>1. all = [n \in 1..Sizing!Cardinality(F) |-> Sizing!At(CHOOSE i \in F : count(i) = n - 1)]
    BY DEF Sizing!QuantForMemory, Sizing!Sorted, F
  <2>2. \A i \in F : count(i) = Cardinality(lower[i])
    <3> HIDE DEF Lower
    <3> QED
      BY SameQuantCount
  <2> HIDE DEF count, lower, all
  <2> DEFINE u(n) == Sizing!At(CHOOSE i \in F : count(i) = n - 1)
             v(n) == Sizing!At(CHOOSE i \in F : Cardinality(lower[i]) = n - 1)
  <2>3. \A n : u(n) = v(n)
    BY <2>2
  <2>0. Sizing!Cardinality(F) = N
    BY SameQuantCount
  <2> HIDE DEF u, v
  <2>4. all = [n \in 1..Sizing!Cardinality(F) |-> u(n)]
    BY <2>1 DEF u
  <2>5. all = [n \in 1..N |-> v(n)]
    BY <2>0, <2>3, <2>4
  <2> QED
    BY <2>5 DEF v
<1>5. best = IF sorted = <<>> THEN <<>> ELSE <<sorted[1]>>
  <2> DEFINE count(i) == Sizing!Cardinality({j \in F : Poorer(j, i)})
             quants == [n \in 1..Sizing!Cardinality(F) |-> Sizing!At(CHOOSE i \in F : count(i) = n - 1)]
  <2>1. best = Sizing!First(quants)
    BY DEF Sizing!RecommendQuant, Sizing!Sorted, F
  <2>2. \A i \in F : count(i) = Cardinality(behind[i])
    <3> HIDE DEF Poorer
    <3> QED
      BY SameQuantCount
  <2> HIDE DEF count, behind
  <2> DEFINE u(n) == Sizing!At(CHOOSE i \in F : count(i) = n - 1)
             v(n) == Sizing!At(CHOOSE i \in F : Cardinality(behind[i]) = n - 1)
  <2>3. \A n : u(n) = v(n)
    BY <2>2
  <2>0. Sizing!Cardinality(F) = N
    BY SameQuantCount
  <2> HIDE DEF u, v
  <2>4. quants = sorted
    <3>1. quants = [n \in 1..Sizing!Cardinality(F) |-> u(n)]
      BY DEF u
    <3>2. sorted = [n \in 1..N |-> v(n)]
      BY DEF v
    <3> HIDE DEF quants, sorted
    <3> QED
      BY <2>0, <2>3, <3>1, <3>2
  <2> HIDE DEF quants, sorted, best
  <2> QED
    BY <2>1, <2>4 DEF Sizing!First, Sizing!None, Sizing!Some
<1> HIDE DEF all, best
<1>6. all = [n \in 1..N |-> Sizing!At(Ranked(F, quality, n))]
  <2>1. ASSUME NEW i \in F PROVE lower[i] = AheadOf(F, quality, i)
    <3>1. \A j \in F : Lower(j, i) <=> quality[j] > quality[i] \/ (quality[j] = quality[i] /\ j < i)
      <4>1. ASSUME NEW j \in F PROVE Lower(j, i) <=> quality[j] > quality[i] \/ (quality[j] = quality[i] /\ j < i)
        BY <1>2
      <4> HIDE DEF Lower
      <4> QED
        BY <4>1
    <3> HIDE DEF Lower, quality
    <3> QED
      BY <3>1 DEF AheadOf
  <2> HIDE DEF lower, quality, all
  <2>2. F \in SUBSET (1..13) /\ \A i \in F : lower[i] = AheadOf(F, quality, i)
    BY <1>2, <2>1
  <2>3. all = [n \in 1..Cardinality(F) |-> Sizing!At(CHOOSE i \in F : Cardinality(lower[i]) = n - 1)]
    BY <1>4 DEF N
  <2>4. all = [n \in 1..Cardinality(F) |-> Sizing!At(Ranked(F, quality, n))]
    BY ONLY <1>3, <2>2, <2>3, SortedIsRanked
  <2> QED
    BY <2>4 DEF N
<1>7. sorted = [n \in 1..N |-> Sizing!At(Ranked(F, both, n))]
  <2>1. ASSUME NEW i \in F PROVE behind[i] = AheadOf(F, both, i)
    <3>1. \A j \in F : Poorer(j, i) <=> both[j] > both[i] \/ (both[j] = both[i] /\ j < i)
      <4>1. ASSUME NEW j \in F PROVE Poorer(j, i) <=> both[j] > both[i] \/ (both[j] = both[i] /\ j < i)
        <5>1. /\ both[j] = 100 * Sizing!At(j).quality + Sizing!At(j).speed
              /\ both[i] = 100 * Sizing!At(i).quality + Sizing!At(i).speed
          OBVIOUS
        <5>2. /\ i \in Int /\ j \in Int
              /\ Sizing!At(j).quality \in 0..10 /\ Sizing!At(j).speed \in 0..9
              /\ Sizing!At(i).quality \in 0..10 /\ Sizing!At(i).speed \in 0..9
          BY <1>2
        <5> DEFINE a == Sizing!At(j).quality
                   b == Sizing!At(i).quality
                   s == Sizing!At(j).speed
                   t == Sizing!At(i).speed
        <5>3. Poorer(j, i) <=> \/ a > b \/ (a = b /\ s > t)
                               \/ ~(b > a \/ (b = a /\ t > s)) /\ j < i
          OBVIOUS
        <5>4. both[j] = 100 * a + s /\ both[i] = 100 * b + t
          BY <5>1
        <5>5. i \in Int /\ j \in Int /\ a \in 0..10 /\ b \in 0..10 /\ s \in 0..9 /\ t \in 0..9
          BY <5>2
        <5> HIDE DEF both, Poorer, a, b, s, t
        <5>6. (\/ a > b \/ (a = b /\ s > t)
               \/ ~(b > a \/ (b = a /\ t > s)) /\ j < i)
              <=> \/ 100 * a + s > 100 * b + t
                  \/ 100 * a + s = 100 * b + t /\ j < i
          BY ONLY <5>5, QualityThenSpeed
        <5> QED
          BY ONLY <5>3, <5>4, <5>6
      <4> HIDE DEF Poorer, both
      <4> QED
        BY <4>1
    <3> HIDE DEF Poorer, both
    <3> QED
      BY <3>1 DEF AheadOf
  <2> HIDE DEF behind, both, quality
  <2>2. F \in SUBSET (1..13) /\ \A i \in F : behind[i] = AheadOf(F, both, i)
    BY <1>2, <2>1
  <2>3. sorted = [n \in 1..Cardinality(F) |-> Sizing!At(CHOOSE i \in F : Cardinality(behind[i]) = n - 1)]
    BY DEF sorted, N
  <2> HIDE DEF sorted
  <2>4. sorted = [n \in 1..Cardinality(F) |-> Sizing!At(Ranked(F, both, n))]
    BY ONLY <1>3, <2>2, <2>3, SortedIsRanked
  <2> QED
    BY <2>4 DEF N
<1> HIDE DEF N
<1> HIDE DEF sorted
<1>8. /\ N \in Nat
      /\ \A n \in 1..N : Ranked(F, quality, n) \in F
      /\ \A i \in F : \E n \in 1..N : Ranked(F, quality, n) = i
  <2> HIDE DEF quality, both
  <2> QED
    BY ONLY <1>0, <1>2, <1>3, RankedFacts DEF N
<1>9. /\ \A n \in 1..N : Ranked(F, both, n) \in F
      /\ \A n, k \in 1..N : n < k => both[Ranked(F, both, n)] >= both[Ranked(F, both, k)]
      /\ \A i \in F : \E n \in 1..N : Ranked(F, both, n) = i
  <2> HIDE DEF both
  <2> QED
    BY ONLY <1>0, <1>2, <1>3, RankedFacts DEF N
<1>10. ToSet(all) = {Sizing!At(i) : i \in F}
  BY <1>6, <1>8 DEF ToSet
<1>11. (all = <<>> <=> N = 0) /\ (sorted = <<>> <=> N = 0)
  BY <1>6, <1>7, <1>8
<1>12. ASSUME N # 0
       PROVE  /\ best = <<sorted[1]>>
              /\ sorted[1] \in ToSet(all)
              /\ \A q \in ToSet(all) : q.quality <= sorted[1].quality
  <2> DEFINE first == Ranked(F, both, 1)
  <2>1. 1 \in 1..N /\ first \in F /\ sorted[1] = Sizing!At(first)
    BY <1>7, <1>8, <1>9, <1>12
  <2>2. ASSUME NEW i \in F PROVE both[i] <= both[first]
    <3>1. PICK n \in 1..N : Ranked(F, both, n) = i
      BY <1>9
    <3>2. both[first] \in Int /\ both[i] \in Int
      BY <1>3, <2>1
    <3>3. CASE n = 1
      BY <3>1, <3>2, <3>3
    <3>4. CASE n # 1
      <4>1. 1 < n
        BY <3>4
      <4> HIDE DEF both
      <4> QED
        BY <1>9, <2>1, <3>1, <3>2, <4>1
    <3> QED
      BY <3>3, <3>4
  <2>3. ASSUME NEW i \in F PROVE Sizing!At(i).quality <= Sizing!At(first).quality
    <3> DEFINE worth(k) == 100 * Sizing!At(k).quality + Sizing!At(k).speed
    <3>1. both[i] = worth(i) /\ both[first] = worth(first) /\ both[i] <= both[first]
      <4>1. \A k \in F : both[k] = worth(k)
        OBVIOUS
      <4> HIDE DEF both, worth, first
      <4> QED
        BY <2>1, <2>2, <4>1
    <3> HIDE DEF first, both
    <3>2. worth(i) <= worth(first)
      <4> HIDE DEF worth
      <4> QED
        BY <3>1
    <3> DEFINE a == Sizing!At(i).quality
               b == Sizing!At(first).quality
               s == Sizing!At(i).speed
               t == Sizing!At(first).speed
    <3>3. a \in 0..10 /\ b \in 0..10 /\ s \in 0..9 /\ t \in 0..9
      BY <1>2, <2>1
    <3>4. 100 * a + s <= 100 * b + t
      BY <3>2
    <3> HIDE DEF a, b, s, t
    <3>5. a <= b
      BY ONLY <3>3, <3>4
    <3> QED
      BY <3>5 DEF a, b
  <2> QED
    BY <1>5, <1>10, <1>11, <1>12, <2>1, <2>3
<1> QED
  BY <1>1, <1>5, <1>11, <1>12 DEF BestQuantIsRecommended

\* What the code recommends fits what it was asked for, whatever the model, the
\* machine and the context, RecommendationsFit of every call.
THEOREM RecommendationsAlwaysFit ==
  Computing(AnySizing \cup AnyQuant \cup AnyGpuConfig) => []RecommendationsFit
<1> DEFINE calls == AnySizing \cup AnyQuant \cup AnyGpuConfig
<1>1. ASSUME Called(calls) PROVE RecommendationsFit
  <2>1. \A c \in calls : c.function = "sizing" => c \in AnySizing
    BY DEF AnySizing, AnyQuant, AnyGpuConfig
  <2>2. \A c \in calls : c.function = "gpu_config" => c \in AnyGpuConfig
    BY DEF AnySizing, AnyQuant, AnyGpuConfig
  <2> HIDE DEF calls
  <2>3. RecommendedLayersFit
    BY <1>1, <2>1, SizingFits
  <2>4. BestQuantIsRecommended
    BY <1>1, BestQuant
  <2>5. GpuConfigFits
    BY <1>1, <2>2, GpuFits
  <2> QED
    BY <2>3, <2>4, <2>5 DEF RecommendationsFit
<1> HIDE DEF calls
<1>2. input \in calls /\ output = NotYet => Called(calls)
  BY CallIsMade
<1>3. Called(calls) /\ [Compute]_<<input, output>> => Called(calls)'
  BY CallIsMade
<1>4. Computing(calls) => []RecommendationsFit
  BY <1>1, <1>2, <1>3, PTL DEF Computing
<1> QED
  BY <1>4 DEF calls

(***************************************************************************)
(* RetrievalRanking: what is kept of the snippets                          *)
(***************************************************************************)

LEMMA SameRankingMax == \A S : Ranking!Max(S) = Max(S) /\ Ranking!Min(S) = Min(S)
BY Zenon DEF Ranking!Max, Max, Ranking!Min, Min

\* Total adds one length after the other.
LEMMA TotalRuns ==
  ASSUME NEW lengths \in Seq(Nat)
  PROVE  \E run : /\ run \in [0..Len(lengths) -> Nat] /\ run[0] = 0
                  /\ \A k \in 1..Len(lengths) : run[k] = run[k - 1] + lengths[k]
                  /\ Ranking!Total(lengths) = run[Len(lengths)]
<1> DEFINE n == Len(lengths)
           step == [k \in 1..n |-> [sum \in Nat |-> sum + lengths[k]]]
           Fold(g) == g = [s \in SUBSET DOMAIN lengths |->
                             IF s = {} THEN 0 ELSE g[s \ {Ranking!Max(s)}] + lengths[Ranking!Max(s)]]
           g0 == CHOOSE g : Fold(g)
<1>1. Ranking!Total(lengths) = g0[DOMAIN lengths]
  BY Zenon DEF Ranking!Total, Ranking!FoldLeft, Ranking!MapThenFoldSet
<1>2. n \in Nat /\ DOMAIN lengths = 1..n /\ \A k \in 1..n : lengths[k] \in Nat
  OBVIOUS
<1>3. step \in [1..n -> [Nat -> Nat]] /\ \A k \in 1..n : \A sum \in Nat : step[k][sum] = sum + lengths[k]
  BY <1>2
<1> HIDE DEF step, n
<1>4. \A s \in SUBSET (1..n) : s # {} => Max(s) \in 1..n
  BY <1>2, MaxFacts
<1>5. PICK h : FoldsSets(h, n, Nat, 0, step)
  BY <1>2, <1>3, SetFoldExists
<1>6. \A s \in SUBSET (1..n) : h[s] = IF s = {} THEN 0 ELSE h[s \ {Max(s)}] + lengths[Max(s)]
  <2>1. ASSUME NEW s \in SUBSET (1..n), s # {} PROVE h[s] = h[s \ {Max(s)}] + lengths[Max(s)]
    <3>1. h[s \ {Max(s)}] \in Nat /\ h[s] = step[Max(s)][h[s \ {Max(s)}]]
      BY <1>5, <2>1 DEF FoldsSets
    <3> QED
      BY <1>3, <1>4, <2>1, <3>1
  <2> QED
    BY <1>5, <2>1 DEF FoldsSets
<1>7. Fold(h)
  <2>1. h \in [SUBSET (1..n) -> Nat]
    BY <1>5 DEF FoldsSets
  <2> QED
    BY <1>2, <1>6, <2>1, SameRankingMax
<1>8. Fold(g0)
  <2> HIDE DEF Fold
  <2> QED
    BY <1>7
<1>9. \A s \in SUBSET (1..n) : g0[s] = IF s = {} THEN 0 ELSE g0[s \ {Max(s)}] + lengths[Max(s)]
  <2> DEFINE g == g0
  <2>1. g = [s \in SUBSET DOMAIN lengths |->
              IF s = {} THEN 0 ELSE g[s \ {Ranking!Max(s)}] + lengths[Ranking!Max(s)]]
    BY <1>8
  <2> HIDE DEF g
  <2>2. \A s \in SUBSET (1..n) : g[s] = IF s = {} THEN 0 ELSE g[s \ {Max(s)}] + lengths[Max(s)]
    BY <1>2, <2>1, SameRankingMax
  <2> QED
    BY <2>2 DEF g
<1> HIDE DEF g0
<1>10. PICK run : RunsThrough(run, n, Nat, 0, step) /\ g0[1..n] = run[n]
  <2>1. Follows(g0, n, Nat, 0, step)
    BY <1>2, <1>3, <1>4, <1>9 DEF Follows
  <2> QED
    BY <2>1, FoldRuns
<1>11. \A k \in 1..n : run[k] = run[k - 1] + lengths[k]
  <2>1. ASSUME NEW k \in 1..n PROVE run[k] = run[k - 1] + lengths[k]
    <3>1. k - 1 \in 0..n
      BY <1>2
    <3>2. run[k - 1] \in Nat /\ run[k] = step[k][run[k - 1]]
      BY <1>10, <3>1 DEF RunsThrough
    <3> QED
      BY <1>3, <3>2
  <2> QED
    BY <2>1
<1> QED
  BY <1>1, <1>2, <1>10, <1>11 DEF RunsThrough, n

LEMMA TotalFacts ==
  /\ Ranking!Total(<<>>) = 0
  /\ \A lengths \in Seq(Nat) : Ranking!Total(lengths) \in Nat
  /\ \A lengths \in Seq(Nat), len \in Nat : Ranking!Total(Append(lengths, len)) = Ranking!Total(lengths) + len
<1>1. ASSUME NEW lengths \in Seq(Nat)
      PROVE  Ranking!Total(lengths) \in Nat /\ (lengths = <<>> => Ranking!Total(lengths) = 0)
  <2>1. PICK run : /\ run \in [0..Len(lengths) -> Nat] /\ run[0] = 0
                   /\ Ranking!Total(lengths) = run[Len(lengths)]
    BY TotalRuns
  <2>2. Len(lengths) \in 0..Len(lengths) /\ (lengths = <<>> => Len(lengths) = 0)
    OBVIOUS
  <2> QED
    BY <2>1, <2>2
<1>2. ASSUME NEW lengths \in Seq(Nat), NEW len \in Nat
      PROVE  Ranking!Total(Append(lengths, len)) = Ranking!Total(lengths) + len
  <2> DEFINE n == Len(lengths)
             more == Append(lengths, len)
  <2>1. /\ n \in Nat /\ more \in Seq(Nat) /\ Len(more) = n + 1 /\ more[n + 1] = len
        /\ \A k \in 1..n : more[k] = lengths[k] /\ lengths[k] \in Nat
    OBVIOUS
  <2>2. PICK run : /\ run \in [0..n -> Nat] /\ run[0] = 0
                   /\ \A k \in 1..n : run[k] = run[k - 1] + lengths[k]
                   /\ Ranking!Total(lengths) = run[n]
    BY TotalRuns
  <2> HIDE DEF more
  <2>3. PICK long : /\ long \in [0..Len(more) -> Nat] /\ long[0] = 0
                    /\ \A k \in 1..Len(more) : long[k] = long[k - 1] + more[k]
                    /\ Ranking!Total(more) = long[Len(more)]
    BY <2>1, TotalRuns
  <2> HIDE DEF n
  <2> DEFINE T == {k \in 0..n : long[k] = run[k]}
  <2>4. 0 \in T
    BY <2>1, <2>2, <2>3
  <2>5. ASSUME NEW k \in 0..n - 1, k \in T PROVE k + 1 \in T
    <3>1. k + 1 \in 1..n /\ k + 1 \in 1..n + 1 /\ k + 1 \in 0..n /\ (k + 1) - 1 = k
      BY <2>1
    <3>2. run[k + 1] = run[k] + lengths[k + 1] /\ long[k + 1] = long[k] + more[k + 1]
      BY <2>1, <2>2, <2>3, <3>1
    <3> QED
      BY <2>1, <2>5, <3>1, <3>2
  <2>6. \A k \in 0..n : k \in T
    <3> HIDE DEF T
    <3> QED
      BY <2>1, <2>4, <2>5, BoundedInduction
  <2>7. n \in 0..n /\ n + 1 \in 1..n + 1 /\ (n + 1) - 1 = n
    BY <2>1
  <2>8. long[n + 1] = long[n] + len /\ long[n] = run[n]
    BY <2>1, <2>3, <2>6, <2>7
  <2> QED
    BY <2>1, <2>2, <2>3, <2>8 DEF more
<1>3. <<>> \in Seq(Nat)
  OBVIOUS
<1> QED
  BY <1>1, <1>2, <1>3

\* What is kept of the snippets so far, and how much may still be kept.
Account == [kept : Seq(Nat), left : Nat]

\* A step of Budgeted, and one of InPrompt.
BudgetStep(acc, len) ==
  IF acc.left = 0 THEN acc
  ELSE IF len <= acc.left
  THEN [kept |-> Append(acc.kept, len), left |-> acc.left - len]
  ELSE [kept |-> Append(acc.kept, acc.left + Ranking!EllipsisLength), left |-> 0]
PromptStep(acc, len) ==
  LET room == Ranking!Less(acc.left, Ranking!HeaderLength)
      cut == IF len > room THEN room ELSE len IN
  IF acc.left = 0 THEN acc
  ELSE [kept |-> Append(acc.kept, cut), left |-> Ranking!Less(acc.left, Ranking!HeaderLength + cut)]

LEMMA BudgetStepFacts ==
  ASSUME NEW acc \in Account, NEW len \in Nat
  PROVE  BudgetStep(acc, len) \in Account
<1>1. acc.kept \in Seq(Nat) /\ acc.left \in Nat
  BY DEF Account
<1>2. CASE acc.left = 0
  BY <1>2 DEF BudgetStep
<1>3. CASE acc.left # 0 /\ len <= acc.left
  <2>1. Append(acc.kept, len) \in Seq(Nat) /\ acc.left - len \in Nat
    BY <1>1, <1>3
  <2> QED
    BY <1>3, <2>1 DEF BudgetStep, Account
<1>4. CASE acc.left # 0 /\ ~(len <= acc.left)
  <2>1. Append(acc.kept, acc.left + 3) \in Seq(Nat)
    BY <1>1
  <2> QED
    BY <1>4, <2>1 DEF BudgetStep, Account, Ranking!EllipsisLength
<1> QED
  BY <1>2, <1>3, <1>4

LEMMA PromptStepFacts ==
  ASSUME NEW acc \in Account, NEW len \in Nat
  PROVE  PromptStep(acc, len) \in Account
<1> DEFINE room == Ranking!Less(acc.left, Ranking!HeaderLength)
           cut == IF len > room THEN room ELSE len
           left == Ranking!Less(acc.left, Ranking!HeaderLength + cut)
<1>1. acc.kept \in Seq(Nat) /\ acc.left \in Nat
  BY DEF Account
<1>2. cut \in Nat /\ left \in Nat
  BY <1>1 DEF Ranking!Less, Ranking!HeaderLength
<1>3. CASE acc.left = 0
  BY <1>3 DEF PromptStep
<1>4. CASE acc.left # 0
  <2>1. PromptStep(acc, len) = [kept |-> Append(acc.kept, cut), left |-> left]
    BY <1>4 DEF PromptStep
  <2> HIDE DEF cut, left
  <2>2. Append(acc.kept, cut) \in Seq(Nat)
    BY <1>1, <1>2
  <2> QED
    BY <1>2, <2>1, <2>2 DEF Account
<1> QED
  BY <1>3, <1>4

\* Budgeted takes one snippet after the other.
LEMMA BudgetedRuns ==
  ASSUME NEW snippets \in Seq(Nat), NEW budget \in Nat \ {0}
  PROVE  \E run : /\ run \in [0..Len(snippets) -> Account] /\ run[0] = [kept |-> <<>>, left |-> budget * Ranking!CharsPerToken]
                  /\ \A k \in 1..Len(snippets) : run[k] = BudgetStep(run[k - 1], snippets[k])
                  /\ Ranking!Budgeted(snippets, budget) = run[Len(snippets)].kept
<1> DEFINE n == Len(snippets)
           base == [kept |-> <<>>, left |-> budget * Ranking!CharsPerToken]
           step == [k \in 1..n |-> [acc \in Account |-> BudgetStep(acc, snippets[k])]]
           Fold(g) == g = [s \in SUBSET DOMAIN snippets |->
                             IF s = {} THEN base ELSE BudgetStep(g[s \ {Ranking!Max(s)}], snippets[Ranking!Max(s)])]
           g0 == CHOOSE g : Fold(g)
<1>1. Ranking!Budgeted(snippets, budget) = g0[DOMAIN snippets].kept
  BY Zenon DEF Ranking!Budgeted, Ranking!FoldLeft, Ranking!MapThenFoldSet, BudgetStep
<1>2. n \in Nat /\ DOMAIN snippets = 1..n /\ \A k \in 1..n : snippets[k] \in Nat
  OBVIOUS
<1>3. base \in Account
  BY DEF Account, Ranking!CharsPerToken, Ranking!Unlimited
<1> HIDE DEF base, n
<1>4. \A k \in 1..n : \A acc \in Account : BudgetStep(acc, snippets[k]) \in Account
  BY <1>2, BudgetStepFacts
<1>5. step \in [1..n -> [Account -> Account]]
  BY <1>4
<1>6. \A k \in 1..n : \A acc \in Account : step[k][acc] = BudgetStep(acc, snippets[k])
  OBVIOUS
<1> HIDE DEF step
<1>7. \A s \in SUBSET (1..n) : s # {} => Max(s) \in 1..n
  BY <1>2, MaxFacts
<1>8. PICK h : FoldsSets(h, n, Account, base, step)
  BY <1>2, <1>3, <1>5, SetFoldExists
<1>9. \A s \in SUBSET (1..n) : h[s] = IF s = {} THEN base ELSE BudgetStep(h[s \ {Max(s)}], snippets[Max(s)])
  <2>1. ASSUME NEW s \in SUBSET (1..n), s # {} PROVE h[s] = BudgetStep(h[s \ {Max(s)}], snippets[Max(s)])
    <3>1. h[s \ {Max(s)}] \in Account /\ h[s] = step[Max(s)][h[s \ {Max(s)}]]
      BY <1>8, <2>1 DEF FoldsSets
    <3> QED
      BY <1>6, <1>7, <2>1, <3>1
  <2> QED
    BY <1>8, <2>1 DEF FoldsSets
<1>10. Fold(h)
  <2>1. h \in [SUBSET (1..n) -> Account]
    BY <1>8 DEF FoldsSets
  <2> QED
    BY <1>2, <1>9, <2>1, SameRankingMax
<1>11. Fold(g0)
  <2> HIDE DEF Fold
  <2> QED
    BY <1>10
<1>12. \A s \in SUBSET (1..n) : g0[s] = IF s = {} THEN base ELSE BudgetStep(g0[s \ {Max(s)}], snippets[Max(s)])
  <2> DEFINE g == g0
  <2>1. g = [s \in SUBSET DOMAIN snippets |->
              IF s = {} THEN base ELSE BudgetStep(g[s \ {Ranking!Max(s)}], snippets[Ranking!Max(s)])]
    BY <1>11
  <2> HIDE DEF g
  <2>2. \A s \in SUBSET (1..n) : g[s] = IF s = {} THEN base ELSE BudgetStep(g[s \ {Max(s)}], snippets[Max(s)])
    BY <1>2, <2>1, SameRankingMax
  <2> QED
    BY <2>2 DEF g
<1> HIDE DEF g0
<1>13. Follows(g0, n, Account, base, step)
  BY <1>2, <1>3, <1>5, <1>6, <1>7, <1>12 DEF Follows
<1>14. PICK run : RunsThrough(run, n, Account, base, step) /\ g0[1..n] = run[n]
  BY <1>13, FoldRuns
<1>15. \A k \in 1..n : run[k] = BudgetStep(run[k - 1], snippets[k])
  <2>1. ASSUME NEW k \in 1..n PROVE run[k] = BudgetStep(run[k - 1], snippets[k])
    <3>1. k - 1 \in 0..n
      BY <1>2
    <3>2. run[k - 1] \in Account /\ run[k] = step[k][run[k - 1]]
      BY <1>14, <3>1 DEF RunsThrough
    <3> QED
      BY <1>6, <3>2
  <2> QED
    BY <2>1
<1> QED
  BY <1>1, <1>2, <1>14, <1>15 DEF RunsThrough, n, base

\* So does InPrompt.
LEMMA InPromptRuns ==
  ASSUME NEW snippets \in Seq(Nat), NEW budget \in Nat
  PROVE  \E run : /\ run \in [0..Len(snippets) -> Account] /\ run[0] = [kept |-> <<>>, left |-> IF budget > 0 THEN budget * Ranking!CharsPerToken ELSE Ranking!Unlimited]
                  /\ \A k \in 1..Len(snippets) : run[k] = PromptStep(run[k - 1], snippets[k])
                  /\ Ranking!InPrompt(snippets, budget) = run[Len(snippets)].kept
<1> DEFINE n == Len(snippets)
           base == [kept |-> <<>>, left |-> IF budget > 0 THEN budget * Ranking!CharsPerToken ELSE Ranking!Unlimited]
           step == [k \in 1..n |-> [acc \in Account |-> PromptStep(acc, snippets[k])]]
           Fold(g) == g = [s \in SUBSET DOMAIN snippets |->
                             IF s = {} THEN base ELSE PromptStep(g[s \ {Ranking!Max(s)}], snippets[Ranking!Max(s)])]
           g0 == CHOOSE g : Fold(g)
<1>1. Ranking!InPrompt(snippets, budget) = g0[DOMAIN snippets].kept
  BY Zenon DEF Ranking!InPrompt, Ranking!FoldLeft, Ranking!MapThenFoldSet, PromptStep
<1>2. n \in Nat /\ DOMAIN snippets = 1..n /\ \A k \in 1..n : snippets[k] \in Nat
  OBVIOUS
<1>3. base \in Account
  BY DEF Account, Ranking!CharsPerToken, Ranking!Unlimited
<1> HIDE DEF base, n
<1>4. \A k \in 1..n : \A acc \in Account : PromptStep(acc, snippets[k]) \in Account
  BY <1>2, PromptStepFacts
<1>5. step \in [1..n -> [Account -> Account]]
  BY <1>4
<1>6. \A k \in 1..n : \A acc \in Account : step[k][acc] = PromptStep(acc, snippets[k])
  OBVIOUS
<1> HIDE DEF step
<1>7. \A s \in SUBSET (1..n) : s # {} => Max(s) \in 1..n
  BY <1>2, MaxFacts
<1>8. PICK h : FoldsSets(h, n, Account, base, step)
  BY <1>2, <1>3, <1>5, SetFoldExists
<1>9. \A s \in SUBSET (1..n) : h[s] = IF s = {} THEN base ELSE PromptStep(h[s \ {Max(s)}], snippets[Max(s)])
  <2>1. ASSUME NEW s \in SUBSET (1..n), s # {} PROVE h[s] = PromptStep(h[s \ {Max(s)}], snippets[Max(s)])
    <3>1. h[s \ {Max(s)}] \in Account /\ h[s] = step[Max(s)][h[s \ {Max(s)}]]
      BY <1>8, <2>1 DEF FoldsSets
    <3> QED
      BY <1>6, <1>7, <2>1, <3>1
  <2> QED
    BY <1>8, <2>1 DEF FoldsSets
<1>10. Fold(h)
  <2>1. h \in [SUBSET (1..n) -> Account]
    BY <1>8 DEF FoldsSets
  <2> QED
    BY <1>2, <1>9, <2>1, SameRankingMax
<1>11. Fold(g0)
  <2> HIDE DEF Fold
  <2> QED
    BY <1>10
<1>12. \A s \in SUBSET (1..n) : g0[s] = IF s = {} THEN base ELSE PromptStep(g0[s \ {Max(s)}], snippets[Max(s)])
  <2> DEFINE g == g0
  <2>1. g = [s \in SUBSET DOMAIN snippets |->
              IF s = {} THEN base ELSE PromptStep(g[s \ {Ranking!Max(s)}], snippets[Ranking!Max(s)])]
    BY <1>11
  <2> HIDE DEF g
  <2>2. \A s \in SUBSET (1..n) : g[s] = IF s = {} THEN base ELSE PromptStep(g[s \ {Max(s)}], snippets[Max(s)])
    BY <1>2, <2>1, SameRankingMax
  <2> QED
    BY <2>2 DEF g
<1> HIDE DEF g0
<1>13. Follows(g0, n, Account, base, step)
  BY <1>2, <1>3, <1>5, <1>6, <1>7, <1>12 DEF Follows
<1>14. PICK run : RunsThrough(run, n, Account, base, step) /\ g0[1..n] = run[n]
  BY <1>13, FoldRuns
<1>15. \A k \in 1..n : run[k] = PromptStep(run[k - 1], snippets[k])
  <2>1. ASSUME NEW k \in 1..n PROVE run[k] = PromptStep(run[k - 1], snippets[k])
    <3>1. k - 1 \in 0..n
      BY <1>2
    <3>2. run[k - 1] \in Account /\ run[k] = step[k][run[k - 1]]
      BY <1>14, <3>1 DEF RunsThrough
    <3> QED
      BY <1>6, <3>2
  <2> QED
    BY <2>1
<1> QED
  BY <1>1, <1>2, <1>14, <1>15 DEF RunsThrough, n, base

\* Of k snippets the account has the first, whole but for the last one; and all of
\* them, whole, as long as something is left.
Faithful(acc, snippets, k) ==
  /\ Len(acc.kept) <= k
  /\ \A i \in 1..Len(acc.kept) - 1 : acc.kept[i] = snippets[i]
  /\ acc.left # 0 => Len(acc.kept) = k /\ \A i \in 1..k : acc.kept[i] = snippets[i]

LEMMA OneMoreKept ==
  ASSUME NEW snippets \in Seq(Nat), NEW k \in 0..Len(snippets) - 1, NEW acc \in Account,
         Faithful(acc, snippets, k), acc.left # 0, NEW len \in Nat, NEW left \in Nat,
         left = 0 \/ len = snippets[k + 1]
  PROVE  Faithful([kept |-> Append(acc.kept, len), left |-> left], snippets, k + 1)
<1> DEFINE more == Append(acc.kept, len)
           new == [kept |-> more, left |-> left]
<1>1. k \in Nat /\ acc.kept \in Seq(Nat) /\ new.kept = more /\ new.left = left
  BY DEF Account
<1>2. Len(acc.kept) = k /\ \A i \in 1..k : acc.kept[i] = snippets[i]
  BY DEF Faithful
<1>3. Len(more) = k + 1 /\ more[k + 1] = len /\ \A i \in 1..k : more[i] = acc.kept[i]
  BY <1>1, <1>2
<1> HIDE DEF more, new
<1>4. \A i \in 1..Len(new.kept) - 1 : new.kept[i] = snippets[i]
  BY <1>1, <1>2, <1>3
<1>5. new.left # 0 => \A i \in 1..k + 1 : new.kept[i] = snippets[i]
  <2> SUFFICES ASSUME left # 0, NEW i \in 1..k + 1 PROVE more[i] = snippets[i]
    BY <1>1
  <2>1. i = k + 1 \/ i \in 1..k
    BY <1>1
  <2> QED
    BY <1>2, <1>3, <2>1
<1>6. Len(new.kept) = k + 1 /\ k + 1 <= k + 1
  BY <1>1, <1>3
<1>7. Faithful(new, snippets, k + 1)
  BY <1>4, <1>5, <1>6 DEF Faithful
<1> QED
  BY <1>7 DEF new, more

LEMMA NoMoreKept ==
  ASSUME NEW snippets \in Seq(Nat), NEW k \in 0..Len(snippets) - 1, NEW acc \in Account,
         Faithful(acc, snippets, k), acc.left = 0
  PROVE  Faithful(acc, snippets, k + 1)
<1>1. Len(acc.kept) \in Nat /\ k \in Nat
  BY DEF Account
<1> QED
  BY <1>1 DEF Faithful

LEMMA StepsKeep ==
  ASSUME NEW snippets \in Seq(Nat), NEW k \in 0..Len(snippets) - 1, NEW acc \in Account,
         Faithful(acc, snippets, k)
  PROVE  /\ Faithful(BudgetStep(acc, snippets[k + 1]), snippets, k + 1)
         /\ Faithful(PromptStep(acc, snippets[k + 1]), snippets, k + 1)
<1> DEFINE len == snippets[k + 1]
           room == Ranking!Less(acc.left, Ranking!HeaderLength)
           cut == IF len > room THEN room ELSE len
           left == Ranking!Less(acc.left, Ranking!HeaderLength + cut)
<1>1. len \in Nat /\ acc.left \in Nat /\ acc.kept \in Seq(Nat)
  BY DEF Account
<1>2. CASE acc.left = 0
  BY <1>2, NoMoreKept DEF BudgetStep, PromptStep
<1>3. CASE acc.left # 0
  <2>1. Faithful(BudgetStep(acc, len), snippets, k + 1)
    <3>1. CASE len <= acc.left
      <4> DEFINE rest == acc.left - len
      <4>1. BudgetStep(acc, len) = [kept |-> Append(acc.kept, len), left |-> rest]
        BY <1>3, <3>1 DEF BudgetStep
      <4>2. rest \in Nat
        BY <1>1, <3>1
      <4> HIDE DEF rest
      <4>3. Faithful([kept |-> Append(acc.kept, len), left |-> rest], snippets, k + 1)
        BY <1>1, <1>3, <4>2, OneMoreKept
      <4> QED
        BY <4>1, <4>3
    <3>2. CASE ~(len <= acc.left)
      <4> DEFINE short == acc.left + Ranking!EllipsisLength
      <4>1. BudgetStep(acc, len) = [kept |-> Append(acc.kept, short), left |-> 0]
        BY <1>3, <3>2 DEF BudgetStep
      <4>2. short \in Nat /\ 0 \in Nat
        BY <1>1 DEF Ranking!EllipsisLength
      <4> HIDE DEF short
      <4>3. Faithful([kept |-> Append(acc.kept, short), left |-> 0], snippets, k + 1)
        BY <1>1, <1>3, <4>2, OneMoreKept
      <4> QED
        BY <4>1, <4>3
    <3> QED
      BY <3>1, <3>2
  <2>2. PromptStep(acc, len) = [kept |-> Append(acc.kept, cut), left |-> left]
    BY <1>3 DEF PromptStep
  <2>3. cut \in Nat /\ left \in Nat /\ (left = 0 \/ cut = len)
    BY <1>1 DEF Ranking!Less, Ranking!HeaderLength
  <2> HIDE DEF cut, left
  <2>4. Faithful(PromptStep(acc, len), snippets, k + 1)
    BY <1>1, <1>3, <2>2, <2>3, OneMoreKept
  <2> QED
    BY <2>1, <2>4
<1> QED
  BY <1>2, <1>3

\* What a run of either steps has kept in the end.
LEMMA RunKeeps ==
  ASSUME NEW snippets \in Seq(Nat), NEW run \in [0..Len(snippets) -> Account], run[0].kept = <<>>,
         \A k \in 1..Len(snippets) : \/ run[k] = BudgetStep(run[k - 1], snippets[k])
                                     \/ run[k] = PromptStep(run[k - 1], snippets[k])
  PROVE  LET kept == run[Len(snippets)].kept IN
         /\ kept \in Seq(Nat) /\ Len(kept) <= Len(snippets)
         /\ \A i \in 1..Len(kept) - 1 : kept[i] = snippets[i]
<1> DEFINE n == Len(snippets)
           T == {k \in 0..n : Faithful(run[k], snippets, k)}
<1>1. n \in Nat
  OBVIOUS
<1>2. 0 \in T
  <2>1. Len(run[0].kept) = 0
    OBVIOUS
  <2> QED
    BY <1>1, <2>1 DEF Faithful
<1>3. ASSUME NEW k \in 0..n - 1, k \in T PROVE k + 1 \in T
  <2>1. k + 1 \in 1..n /\ k + 1 \in 0..n /\ (k + 1) - 1 = k /\ k \in 0..n
    BY <1>1
  <2>2. run[k] \in Account /\ Faithful(run[k], snippets, k)
    BY <1>3, <2>1
  <2>3. run[k + 1] = BudgetStep(run[k], snippets[k + 1]) \/ run[k + 1] = PromptStep(run[k], snippets[k + 1])
    BY <2>1
  <2>4. Faithful(run[k + 1], snippets, k + 1)
    BY <2>2, <2>3, StepsKeep
  <2> QED
    BY <2>1, <2>4
<1>4. \A k \in 0..n : k \in T
  <2> HIDE DEF T, n
  <2> QED
    BY <1>1, <1>2, <1>3, BoundedInduction
<1>5. run[n] \in Account /\ Faithful(run[n], snippets, n)
  BY <1>1, <1>4
<1> QED
  BY <1>5 DEF Account, Faithful

\* What is kept, with a header for each, and what is left are within all; but the
\* last header may go beyond it.
HasRoom(acc, all) ==
  LET used == Ranking!Total(acc.kept) + Ranking!HeaderLength * Len(acc.kept) IN
  \/ used + acc.left <= all
  \/ acc.left = 0 /\ used < all + Ranking!HeaderLength

LEMMA PromptStepStaysWithin ==
  ASSUME NEW acc \in Account, NEW len \in Nat, NEW all \in Nat, HasRoom(acc, all)
  PROVE  HasRoom(PromptStep(acc, len), all)
<1> DEFINE room == Ranking!Less(acc.left, Ranking!HeaderLength)
           cut == IF len > room THEN room ELSE len
           left == Ranking!Less(acc.left, Ranking!HeaderLength + cut)
           new == [kept |-> Append(acc.kept, cut), left |-> left]
           total == Ranking!Total(acc.kept)
           count == Len(acc.kept)
<1>1. acc.kept \in Seq(Nat) /\ acc.left \in Nat
  BY DEF Account
<1>2. CASE acc.left = 0
  BY <1>2 DEF PromptStep
<1>3. CASE acc.left # 0
  <2>1. PromptStep(acc, len) = new
    BY <1>3 DEF PromptStep
  <2>2. /\ cut \in Nat /\ left \in Nat
        /\ \/ cut + 18 + left = acc.left
           \/ cut = 0 /\ left = 0
    <3> DEFINE had == acc.left
    <3>1. had \in Nat /\ room = IF had < 18 THEN 0 ELSE had - 18
      BY <1>1 DEF Ranking!Less, Ranking!HeaderLength
    <3>2. left = IF had < 18 + cut THEN 0 ELSE had - (18 + cut)
      BY DEF Ranking!Less, Ranking!HeaderLength
    <3>3. cut = IF len > room THEN room ELSE len
      OBVIOUS
    <3> HIDE DEF had, room, cut, left
    <3>4. room \in Nat /\ (had >= 18 => room + 18 = had) /\ (had < 18 => room = 0)
      BY <3>1
    <3>5. cut \in Nat /\ cut <= room
      BY <3>3, <3>4
    <3>6. CASE had < 18
      <4>1. cut = 0
        BY <3>4, <3>5, <3>6
      <4> QED
        BY <3>1, <3>2, <3>6, <4>1
    <3>7. CASE ~(had < 18)
      <4>1. left = had - (18 + cut) /\ had - (18 + cut) \in Nat /\ cut + 18 + (had - (18 + cut)) = had
        BY <3>1, <3>2, <3>4, <3>5, <3>7
      <4> QED
        BY <3>5, <4>1 DEF had
    <3> QED
      BY <3>6, <3>7
  <2> HIDE DEF cut, left
  <2>3. total \in Nat /\ Ranking!Total(new.kept) = total + cut
    BY <1>1, <2>2, TotalFacts
  <2>4. count \in Nat /\ Len(new.kept) = count + 1 /\ new.left = left
    BY <1>1
  <2>5. total + 18 * count + acc.left <= all
    BY <1>3 DEF HasRoom, Ranking!HeaderLength
  <2> DEFINE sum == Ranking!Total(new.kept)
             number == Len(new.kept)
             rest == new.left
             had == acc.left
  <2>6. /\ sum = total + cut /\ number = count + 1 /\ rest = left
        /\ had \in Nat /\ had # 0 /\ total + 18 * count + had <= all
        /\ cut + 18 + left = had \/ (cut = 0 /\ left = 0)
    BY <1>1, <1>3, <2>2, <2>3, <2>4, <2>5
  <2> HIDE DEF sum, number, rest, new, total, count, had
  <2>7. sum + 18 * number + rest <= all \/ (rest = 0 /\ sum + 18 * number < all + 18)
    BY <2>2, <2>3, <2>4, <2>6
  <2>8. HasRoom(new, all)
    BY <2>7 DEF HasRoom, Ranking!HeaderLength, sum, number, rest
  <2> QED
    BY <2>1, <2>8
<1> QED
  BY <1>2, <1>3

LEMMA PromptLeavesRoom ==
  ASSUME NEW snippets \in Seq(Nat), NEW budget \in Nat \ {0}
  PROVE  LET kept == Ranking!InPrompt(snippets, budget) IN
         Ranking!Total(kept) + Ranking!HeaderLength * Len(kept) < budget * Ranking!CharsPerToken + Ranking!HeaderLength
<1> DEFINE n == Len(snippets)
           all == budget * Ranking!CharsPerToken
<1>1. n \in Nat /\ all \in Nat /\ \A k \in 1..n : snippets[k] \in Nat
  BY DEF Ranking!CharsPerToken
<1>2. PICK run : /\ run \in [0..n -> Account] /\ run[0] = [kept |-> <<>>, left |-> all]
                 /\ \A k \in 1..n : run[k] = PromptStep(run[k - 1], snippets[k])
                 /\ Ranking!InPrompt(snippets, budget) = run[n].kept
  <2>1. budget \in Nat /\ budget > 0
    OBVIOUS
  <2> QED
    BY <2>1, InPromptRuns
<1> HIDE DEF n, all
<1> DEFINE T == {k \in 0..n : HasRoom(run[k], all)}
<1>3. 0 \in T
  <2>1. run[0].kept = <<>> /\ run[0].left = all /\ Len(<<>>) = 0 /\ 0 \in 0..n
    BY <1>1, <1>2
  <2>2. 0 + 18 * 0 + all <= all
    BY <1>1
  <2>3. HasRoom(run[0], all)
    BY <2>1, <2>2, TotalFacts DEF HasRoom, Ranking!HeaderLength
  <2> QED
    BY <2>1, <2>3
<1>4. ASSUME NEW k \in 0..n - 1, k \in T PROVE k + 1 \in T
  <2>1. k + 1 \in 1..n /\ k + 1 \in 0..n /\ (k + 1) - 1 = k /\ k \in 0..n
    BY <1>1
  <2>2. run[k] \in Account /\ run[k + 1] = PromptStep(run[k], snippets[k + 1])
    BY <1>2, <2>1
  <2>3. HasRoom(run[k + 1], all)
    BY <1>1, <1>4, <2>1, <2>2, PromptStepStaysWithin
  <2> QED
    BY <2>1, <2>3
<1>5. \A k \in 0..n : k \in T
  <2> HIDE DEF T
  <2> QED
    BY <1>1, <1>3, <1>4, BoundedInduction
<1>6. run[n] \in Account /\ HasRoom(run[n], all)
  BY <1>1, <1>2, <1>5
<1>7. Ranking!Total(run[n].kept) \in Nat /\ Len(run[n].kept) \in Nat /\ run[n].left \in Nat
  <2>1. run[n].kept \in Seq(Nat) /\ run[n].left \in Nat
    BY <1>6 DEF Account
  <2> DEFINE kept == run[n].kept
  <2>2. kept \in Seq(Nat)
    BY <2>1
  <2> HIDE DEF kept
  <2>3. Ranking!Total(kept) \in Nat /\ Len(kept) \in Nat
    BY <2>2, TotalFacts
  <2> QED
    BY <2>1, <2>3 DEF kept
<1> DEFINE sum == Ranking!Total(run[n].kept)
           number == Len(run[n].kept)
           rest == run[n].left
<1>8. sum + 18 * number + rest <= all \/ (rest = 0 /\ sum + 18 * number < all + 18)
  BY <1>6 DEF HasRoom, Ranking!HeaderLength
<1>9. sum + 18 * number < all + 18
  <2>1. sum \in Nat /\ number \in Nat /\ rest \in Nat
    BY <1>7
  <2> HIDE DEF sum, number, rest
  <2> QED
    BY <1>1, <1>8, <2>1
<1> QED
  BY <1>2, <1>9 DEF all, Ranking!HeaderLength

LEMMA BudgetedKeeps ==
  ASSUME NEW snippets \in Seq(Nat), NEW budget \in Nat
  PROVE  LET some == Ranking!Budgeted(snippets, budget) IN
         /\ some \in Seq(Nat) /\ Len(some) <= Len(snippets)
         /\ \A i \in 1..Len(some) - 1 : some[i] = snippets[i]
<1> DEFINE some == Ranking!Budgeted(snippets, budget)
<1>1. CASE budget = 0
  <2>1. some = snippets
    BY Zenon, <1>1 DEF Ranking!Budgeted
  <2> HIDE DEF some
  <2>2. Len(snippets) \in Nat
    OBVIOUS
  <2>3. some \in Seq(Nat) /\ Len(some) <= Len(snippets) /\ \A i \in 1..Len(some) - 1 : some[i] = snippets[i]
    BY <2>1, <2>2
  <2> QED
    BY <2>3 DEF some
<1>2. CASE budget # 0
  <2>1. PICK run : /\ run \in [0..Len(snippets) -> Account] /\ run[0] = [kept |-> <<>>, left |-> budget * Ranking!CharsPerToken]
                   /\ \A k \in 1..Len(snippets) : run[k] = BudgetStep(run[k - 1], snippets[k])
                   /\ some = run[Len(snippets)].kept
    BY <1>2, BudgetedRuns
  <2>2. run[0].kept = <<>>
    BY <2>1
  <2> HIDE DEF some
  <2>3. some \in Seq(Nat) /\ Len(some) <= Len(snippets) /\ \A i \in 1..Len(some) - 1 : some[i] = snippets[i]
    BY <2>1, <2>2, RunKeeps
  <2> QED
    BY <2>3 DEF some
<1> QED
  BY <1>1, <1>2

\* A context has the snippets themselves, but for its last.
LEMMA ContextKeeps ==
  ASSUME NEW snippets \in Seq(Nat), NEW budget \in Nat
  PROVE  LET kept == Ranking!ChatContext(snippets, budget) IN
         \A i \in 1..Len(kept) - 1 : kept[i] = snippets[i]
<1> DEFINE some == Ranking!Budgeted(snippets, budget)
           kept == Ranking!InPrompt(some, budget)
<1>1. some \in Seq(Nat) /\ Len(some) <= Len(snippets) /\ \A i \in 1..Len(some) - 1 : some[i] = snippets[i]
  BY BudgetedKeeps
<1> HIDE DEF some
<1>2. kept \in Seq(Nat) /\ Len(kept) <= Len(some) /\ \A i \in 1..Len(kept) - 1 : kept[i] = some[i]
  <2>1. PICK run : /\ run \in [0..Len(some) -> Account]
                   /\ run[0] = [kept |-> <<>>, left |-> IF budget > 0 THEN budget * Ranking!CharsPerToken ELSE Ranking!Unlimited]
                   /\ \A k \in 1..Len(some) : run[k] = PromptStep(run[k - 1], some[k])
                   /\ kept = run[Len(some)].kept
    BY <1>1, InPromptRuns
  <2>2. run[0].kept = <<>>
    BY <2>1
  <2> HIDE DEF kept
  <2> QED
    BY <1>1, <2>1, <2>2, RunKeeps
<1> HIDE DEF kept
<1>3. ASSUME NEW i \in 1..Len(kept) - 1 PROVE kept[i] = snippets[i]
  <2>1. i \in 1..Len(some) - 1
    BY <1>1, <1>2
  <2> QED
    BY <1>1, <1>2, <2>1
<1>4. kept = Ranking!ChatContext(snippets, budget)
  BY DEF Ranking!ChatContext, kept, some
<1> QED
  BY <1>3, <1>4

(***************************************************************************)
(* RetrievalRanking: chunks that were injected                             *)
(***************************************************************************)

\* The values at the members of F have a largest and a least one.
Spanned(F, value) ==
  LET S == {value[i] : i \in F} IN
  /\ Ranking!Max(S) \in S /\ \A v \in S : v <= Ranking!Max(S)
  /\ Ranking!Min(S) \in S /\ \A v \in S : Ranking!Min(S) <= v

LEMMA ExtremesExist ==
  ASSUME NEW n \in Nat, NEW F, F \subseteq 1..n, F # {}, NEW value \in [F -> Int]
  PROVE  Spanned(F, value)
<1> DEFINE S == {value[i] : i \in F}
           Upto(m) == {i \in F : i <= m}
           Top(m, p) == p \in Upto(m) /\ \A i \in Upto(m) : value[i] <= value[p]
           Bottom(m, p) == p \in Upto(m) /\ \A i \in Upto(m) : value[p] <= value[i]
           T == {m \in 0..n : Upto(m) # {} => (\E p \in F : Top(m, p)) /\ (\E p \in F : Bottom(m, p))}
<1>0. \A i \in F : i \in Nat /\ 1 <= i /\ i <= n
  OBVIOUS
<1>1. 0 \in T
  <2>1. Upto(0) = {}
    <3>1. \A i \in F : ~(i <= 0)
      BY <1>0
    <3> QED
      BY <3>1
  <2> HIDE DEF Upto
  <2> QED
    BY <2>1
<1>2. ASSUME NEW m \in 0..n - 1, m \in T PROVE m + 1 \in T
  <2>1. m \in Nat /\ m + 1 \in 0..n
    OBVIOUS
  <2>0. \A i \in F : i <= m + 1 <=> i <= m \/ i = m + 1
    BY <1>0, <2>1
  <2>2. CASE m + 1 \notin F
    <3>1. \A i \in F : i <= m + 1 <=> i <= m
      BY <2>0, <2>2
    <3>2. Upto(m + 1) = Upto(m)
      BY <3>1
    <3> QED
      BY <1>2, <2>1, <3>2
  <2>3. CASE m + 1 \in F
    <3>1. Upto(m + 1) = Upto(m) \cup {m + 1}
      <4>1. m + 1 <= m + 1
        BY <2>1
      <4> QED
        BY <2>0, <2>3, <4>1
    <3>2. CASE Upto(m) = {}
      <4>1. Upto(m + 1) = {m + 1} /\ value[m + 1] \in Int
        BY <2>3, <3>1, <3>2
      <4>2. Top(m + 1, m + 1) /\ Bottom(m + 1, m + 1)
        <5> HIDE DEF Upto
        <5> QED
          BY <4>1
      <4> QED
        BY <2>1, <2>3, <4>2
    <3>3. CASE Upto(m) # {}
      <4>1. PICK p \in F : Top(m, p)
        BY <1>2, <3>3
      <4>2. PICK q \in F : Bottom(m, q)
        BY <1>2, <3>3
      <4>3. /\ value[p] \in Int /\ value[q] \in Int /\ value[m + 1] \in Int
            /\ \A i \in Upto(m) : value[i] \in Int
        BY <2>3
      <4>4. \E x \in F : Top(m + 1, x)
        <5> HIDE DEF Upto
        <5>1. CASE value[m + 1] <= value[p]
          <6>1. Top(m + 1, p)
            BY <3>1, <4>1, <5>1
          <6> QED
            BY <6>1
        <5>2. CASE ~(value[m + 1] <= value[p])
          <6>1. Top(m + 1, m + 1)
            BY <3>1, <4>1, <4>3, <5>2
          <6> QED
            BY <2>3, <6>1
        <5> QED
          BY <5>1, <5>2
      <4>5. \E x \in F : Bottom(m + 1, x)
        <5> HIDE DEF Upto
        <5>1. CASE value[q] <= value[m + 1]
          <6>1. Bottom(m + 1, q)
            BY <3>1, <4>2, <5>1
          <6> QED
            BY <6>1
        <5>2. CASE ~(value[q] <= value[m + 1])
          <6>1. Bottom(m + 1, m + 1)
            BY <3>1, <4>2, <4>3, <5>2
          <6> QED
            BY <2>3, <6>1
        <5> QED
          BY <5>1, <5>2
      <4> QED
        BY <2>1, <4>4, <4>5
    <3> QED
      BY <3>2, <3>3
  <2> QED
    BY <2>2, <2>3
<1>3. \A m \in 0..n : m \in T
  <2> HIDE DEF T
  <2> QED
    BY <1>1, <1>2, BoundedInduction
<1>4. Upto(n) = F /\ n \in 0..n
  <2>1. \A i \in F : i <= n
    BY <1>0
  <2>2. Upto(n) = F
    BY ONLY <2>1
  <2>3. n \in 0..n
    OBVIOUS
  <2> QED
    BY <2>2, <2>3
<1>5. PICK p \in F : \A i \in F : value[i] <= value[p]
  BY <1>3, <1>4
<1>6. PICK q \in F : \A i \in F : value[q] <= value[i]
  BY <1>3, <1>4
<1>7. /\ value[p] \in S /\ \A v \in S : value[p] >= v
      /\ value[q] \in S /\ \A v \in S : value[q] =< v
  BY <1>5, <1>6
<1> HIDE DEF S
<1>8. Max(S) \in S /\ \A v \in S : Max(S) >= v
  <2>1. \E x \in S : \A y \in S : x >= y
    BY <1>7
  <2> QED
    BY <2>1 DEF Max
<1>9. Min(S) \in S /\ \A v \in S : Min(S) =< v
  <2>1. \E x \in S : \A y \in S : x =< y
    BY <1>7
  <2> QED
    BY <2>1 DEF Min
<1>10. S \subseteq Int
  BY DEF S
<1> DEFINE top == Max(S)
           bottom == Min(S)
<1>11. top \in S /\ (\A v \in S : v <= top) /\ bottom \in S /\ (\A v \in S : bottom <= v)
  BY <1>8, <1>9, <1>10
<1>12. Ranking!Max(S) = top /\ Ranking!Min(S) = bottom
  BY SameRankingMax
<1> HIDE DEF top, bottom
<1> QED
  BY <1>11, <1>12 DEF S, Spanned

AnyChunk ==
  {c \in [sim : Int, matches : {0, 1}, symbol : Ranking!SymbolMatch, inFile : BOOLEAN] :
     c.symbol # "none" => c.matches = 1}

\* The similarity of each candidate; those of the injected are above all others.
LEMMA InjectedAreOnTop ==
  ASSUME NEW chunks \in Seq(AnyChunk), Ranking!Found(chunks) # {}, NEW n \in Nat
  PROVE  LET cands == Ranking!Found(chunks) \cup Ranking!Injected(chunks, n)
             sims == {Ranking!Boosted(chunks, j) : j \in cands}
         IN /\ cands \subseteq DOMAIN chunks
            /\ \A j \in cands : Ranking!Boosted(chunks, j) \in Int
            /\ Ranking!Max(sims) \in Int /\ Ranking!Min(sims) \in Int
            /\ \A j \in cands : /\ Ranking!Boosted(chunks, j) <= Ranking!Max(sims)
                                /\ Ranking!Min(sims) <= Ranking!Boosted(chunks, j)
            /\ \A i \in Ranking!Injected(chunks, n), j \in Ranking!Found(chunks) :
                 /\ Ranking!Boosted(chunks, i) = Ranking!Max(sims)
                 /\ Ranking!Boosted(chunks, j) < Ranking!Max(sims)
<1> DEFINE N == Len(chunks)
           found == Ranking!Found(chunks)
           injected == Ranking!Injected(chunks, n)
           cands == found \cup injected
           raw == {chunks[i].sim : i \in found}
           best == Ranking!Max(raw)
           value == [j \in cands |-> Ranking!Boosted(chunks, j)]
           sims == {Ranking!Boosted(chunks, j) : j \in cands}
           top == Ranking!Max(sims)
           bottom == Ranking!Min(sims)
<1>1. N \in Nat /\ DOMAIN chunks = 1..N /\ \A i \in 1..N : chunks[i] \in AnyChunk
  OBVIOUS
<1>2. \A i \in 1..N : chunks[i].sim \in Int
  BY <1>1 DEF AnyChunk
<1>3. found \subseteq 1..N /\ found # {} /\ injected \subseteq 1..N /\ found \cap injected = {}
  BY <1>1 DEF Ranking!Found, Ranking!Injected
<1>4. \A j \in found : Ranking!Boosted(chunks, j) = chunks[j].sim
  BY DEF Ranking!Boosted
<1>5. \A j \in injected : Ranking!Boosted(chunks, j) = best + 1
  BY <1>3 DEF Ranking!Boosted, Ranking!Similarities
<1> HIDE DEF found, injected, N, cands
<1>6. best \in Int /\ \A j \in found : chunks[j].sim <= best
  <2> DEFINE sim == [i \in found |-> chunks[i].sim]
  <2>1. sim \in [found -> Int] /\ raw = {sim[i] : i \in found}
    BY <1>2, <1>3
  <2>2. \A i \in found : sim[i] = chunks[i].sim
    OBVIOUS
  <2> HIDE DEF sim
  <2>3. best \in {sim[i] : i \in found} /\ \A v \in {sim[i] : i \in found} : v <= best
    <3>1. N \in Nat /\ found \subseteq 1..N /\ found # {} /\ sim \in [found -> Int]
      BY <1>1, <1>3, <2>1
    <3>2. Spanned(found, sim)
      BY <3>1, ExtremesExist
    <3> QED
      BY <2>1, <3>2 DEF Spanned
  <2> QED
    BY <2>1, <2>2, <2>3
<1> HIDE DEF best
<1>7. \A j \in cands : Ranking!Boosted(chunks, j) \in Int /\ Ranking!Boosted(chunks, j) <= best + 1
  <2> SUFFICES ASSUME NEW j \in cands PROVE Ranking!Boosted(chunks, j) \in Int /\ Ranking!Boosted(chunks, j) <= best + 1
    OBVIOUS
  <2>1. CASE j \in found
    BY <1>2, <1>3, <1>4, <1>6, <2>1
  <2>2. CASE j \in injected
    BY <1>5, <1>6, <2>2
  <2> QED
    BY <2>1, <2>2 DEF cands
<1>8. value \in [cands -> Int] /\ sims = {value[j] : j \in cands} /\ \A j \in cands : value[j] = Ranking!Boosted(chunks, j)
  BY <1>7
<1> HIDE DEF value
<1>9. cands \subseteq 1..N /\ cands # {}
  BY <1>3 DEF cands
<1>10. /\ top \in {value[j] : j \in cands} /\ \A v \in {value[j] : j \in cands} : v <= top
       /\ bottom \in {value[j] : j \in cands} /\ \A v \in {value[j] : j \in cands} : bottom <= v
  <2>1. Spanned(cands, value)
    BY <1>1, <1>8, <1>9, ExtremesExist
  <2> QED
    BY <1>8, <2>1 DEF Spanned
<1> HIDE DEF top, bottom, sims
<1>11. /\ top \in Int /\ bottom \in Int
       /\ \A j \in cands : Ranking!Boosted(chunks, j) <= top /\ bottom <= Ranking!Boosted(chunks, j)
       /\ top <= best + 1
  BY <1>7, <1>8, <1>10
<1>12. ASSUME NEW i \in injected, NEW j \in found
       PROVE  Ranking!Boosted(chunks, i) = top /\ Ranking!Boosted(chunks, j) < top
  <2>1. i \in cands /\ j \in cands
    BY DEF cands
  <2>2. Ranking!Boosted(chunks, i) = best + 1 /\ best + 1 <= top
    BY <1>5, <1>11, <2>1
  <2>3. Ranking!Boosted(chunks, j) <= best /\ Ranking!Boosted(chunks, j) \in Int
    BY <1>4, <1>6, <1>7, <2>1
  <2> QED
    BY <1>6, <1>11, <2>2, <2>3
<1> QED
  BY <1>1, <1>7, <1>9, <1>11, <1>12 DEF top, bottom, sims, cands, found, injected

\* With one keyword, an injected chunk whose symbol is the keyword has a better
\* score than a chunk whose symbol does not have it, unless that is in the file.
LEMMA InjectedScoresMore ==
  ASSUME NEW chunks \in Seq(AnyChunk), Ranking!Found(chunks) # {}, NEW entry,
         NEW i \in Ranking!Injected(chunks, 1), chunks[i].symbol = "exact",
         NEW j \in Ranking!Found(chunks), chunks[j].symbol = "none", ~chunks[j].inFile
  PROVE  ~(Ranking!Score(entry, chunks, 1, j) >= Ranking!Score(entry, chunks, 1, i))
<1> DEFINE cands == Ranking!Found(chunks) \cup Ranking!Injected(chunks, 1)
           sims == {Ranking!Boosted(chunks, c) : c \in cands}
           top == Ranking!Max(sims)
           bottom == Ranking!Min(sims)
           range == top - bottom
           keyword == IF Ranking!Uniform(entry, chunks, sims) THEN 6 ELSE 3
           a == Ranking!Boosted(chunks, i)
           b == Ranking!Boosted(chunks, j)
           f == IF chunks[i].inFile THEN 20 * 1 * range ELSE 0
           p == Ranking!KeywordScore(chunks[i], 1)
           q == Ranking!KeywordScore(chunks[j], 1)
<1>1. /\ top \in Int /\ bottom \in Int /\ a = top /\ b < top /\ bottom <= b /\ b \in Int
      /\ i \in DOMAIN chunks /\ j \in DOMAIN chunks
  BY InjectedAreOnTop
<1>2. chunks[i] \in AnyChunk /\ chunks[j] \in AnyChunk
  BY <1>1
<1>3. p = 10
  <2>1. chunks[i].matches = 1
    BY <1>2 DEF AnyChunk
  <2> QED
    BY <2>1 DEF Ranking!KeywordScore
<1>4. q \in {0, 10}
  <2>1. chunks[j].matches \in {0, 1}
    BY <1>2 DEF AnyChunk
  <2>2. CASE chunks[j].matches = 0
    BY <2>2 DEF Ranking!KeywordScore
  <2>3. CASE chunks[j].matches = 1
    BY <2>3 DEF Ranking!KeywordScore
  <2> QED
    BY <2>1, <2>2, <2>3
<1>5. keyword \in {3, 6}
  OBVIOUS
<1>6. range \in Int /\ range >= 1 /\ range # 0
  <2> HIDE DEF top, bottom, b
  <2> QED
    BY <1>1
<1>7. Ranking!Score(entry, chunks, 1, i) = (10 - keyword) * (a - bottom) * 10 * 1 + keyword * p * range + f
  <2>1. Ranking!Score(entry, chunks, 1, i) = Ranking!Combined(entry, chunks, 1, i)
    BY DEF Ranking!Score
  <2>2. Ranking!Combined(entry, chunks, 1, i)
          = (10 - keyword) * (IF range = 0 THEN 1 ELSE a - bottom) * 10 * 1
              + keyword * p * (IF range = 0 THEN 2 ELSE range)
              + (IF chunks[i].inFile THEN 20 * 1 * (IF range = 0 THEN 2 ELSE range) ELSE 0)
    BY Zenon DEF Ranking!Combined
  <2> HIDE DEF range, keyword, a, bottom, p
  <2> QED
    BY <1>6, <2>1, <2>2
<1>8. Ranking!Score(entry, chunks, 1, j) = (10 - keyword) * (b - bottom) * 10 * 1 + keyword * q * range + 0
  <2>1. Ranking!Score(entry, chunks, 1, j) = Ranking!Combined(entry, chunks, 1, j)
    BY DEF Ranking!Score
  <2>2. Ranking!Combined(entry, chunks, 1, j)
          = (10 - keyword) * (IF range = 0 THEN 1 ELSE b - bottom) * 10 * 1
              + keyword * q * (IF range = 0 THEN 2 ELSE range)
              + (IF chunks[j].inFile THEN 20 * 1 * (IF range = 0 THEN 2 ELSE range) ELSE 0)
    BY Zenon DEF Ranking!Combined
  <2> HIDE DEF range, keyword, b, bottom, q
  <2> QED
    BY <1>6, <2>1, <2>2
<1>9. f \in Int /\ f >= 0
  <2> HIDE DEF range
  <2> QED
    BY <1>6
<1>10. range = top - bottom
  OBVIOUS
<1> HIDE DEF top, bottom, range, keyword, a, b, f, p, q
<1> DEFINE x == Ranking!Score(entry, chunks, 1, i)
           y == Ranking!Score(entry, chunks, 1, j)
<1>11. x \in Int /\ y \in Int /\ y < x
  <2>1. CASE keyword = 3
    <3>1. x = 70 * (a - bottom) + 30 * range + f
      BY <1>1, <1>3, <1>6, <1>7, <2>1
    <3>2. y = 70 * (b - bottom) + (IF q = 10 THEN 30 * range ELSE 0)
      BY <1>1, <1>4, <1>6, <1>8, <2>1
    <3> DEFINE gap == a - bottom
               rest == b - bottom
    <3>3. gap \in Int /\ rest \in Int /\ rest < gap
      BY <1>1
    <3> HIDE DEF gap, rest
    <3>4. y = 70 * rest \/ y = 70 * rest + 30 * range
      BY <1>4, <1>6, <3>2, <3>3 DEF rest
    <3>5. x = 70 * gap + 30 * range + f
      BY <3>1 DEF gap
    <3> HIDE DEF x, y
    <3> QED
      BY ONLY <1>6, <1>9, <3>3, <3>4, <3>5
  <2>2. CASE keyword = 6
    <3>1. x = 40 * (a - bottom) + 60 * range + f
      BY <1>1, <1>3, <1>6, <1>7, <2>2
    <3>2. y = 40 * (b - bottom) + (IF q = 10 THEN 60 * range ELSE 0)
      BY <1>1, <1>4, <1>6, <1>8, <2>2
    <3> DEFINE gap == a - bottom
               rest == b - bottom
    <3>3. gap \in Int /\ rest \in Int /\ rest < gap
      BY <1>1
    <3> HIDE DEF gap, rest
    <3>4. y = 40 * rest \/ y = 40 * rest + 60 * range
      BY <1>4, <1>6, <3>2, <3>3 DEF rest
    <3>5. x = 40 * gap + 60 * range + f
      BY <3>1 DEF gap
    <3> HIDE DEF x, y
    <3> QED
      BY ONLY <1>6, <1>9, <3>3, <3>4, <3>5
  <2> QED
    BY <1>5, <2>1, <2>2
<1>12. ~(y >= x)
  <2> HIDE DEF x, y
  <2> QED
    BY <1>11
<1> QED
  BY <1>12

(***************************************************************************)
(* The calls of retrieval                                                  *)
(***************************************************************************)

AnyRank ==
  [function : {"rank"}, entry : {"search", "chat"}, k : Nat,
   chunks : {s \in Seq(AnyChunk) : Ranking!Found(s) # {}}]
AnyQuery ==
  [function : {"keywords"}, query : Seq([kind : Ranking!WordKind, words : SUBSET STRING, length : Nat])]
AnyContext ==
  [function : {"context"}, snippets : Seq(Nat),
   flags : [n_ctx : Option(Nat), max_tokens : Option(Nat), context_token_budget : Nat]]

LEMMA RanksInjected ==
  ASSUME NEW calls, Called(calls), \A c \in calls : c.function = "rank" => c \in AnyRank
  PROVE  InjectedDefinitionIsKept
<1> SUFFICES ASSUME Is("rank"), NEW best \in output.value,
                    NEW i \in Ranking!Injected(input.chunks, 1) \ best, NEW j \in best,
                    input.chunks[i].symbol = "exact"
             PROVE  input.chunks[j].symbol # "none" \/ input.chunks[j].inFile
  BY DEF InjectedDefinitionIsKept
<1> DEFINE chunks == input.chunks
           cands == Ranking!Found(chunks) \cup Ranking!Injected(chunks, 1)
<1>1. input \in AnyRank /\ output.value = Ranking!Ranked(input.entry, chunks, 1, input.k)
  <2>1. input \in calls /\ input.function = "rank" /\ output.value = RetrievalResult(input)
    BY RetrievalCalls DEF RetrievalFunctions
  <2>2. input \in AnyRank
    BY <2>1
  <2>3. RetrievalResult(input) = Ranking!Ranked(input.entry, chunks, 1, input.k)
    BY Zenon, <2>1 DEF RetrievalResult
  <2> QED
    BY <2>1, <2>2, <2>3
<1>2. chunks \in Seq(AnyChunk) /\ Ranking!Found(chunks) # {}
  BY <1>1 DEF AnyRank
<1>3. /\ best \subseteq cands
      /\ Ranking!Score(input.entry, chunks, 1, j) >= Ranking!Score(input.entry, chunks, 1, i)
  <2>1. best \in Ranking!Ranked(input.entry, chunks, 1, input.k)
    BY <1>1
  <2>2. /\ best \subseteq cands
        /\ \A x \in best, y \in cands \ best :
             Ranking!Score(input.entry, chunks, 1, x) >= Ranking!Score(input.entry, chunks, 1, y)
    BY <2>1 DEF Ranking!Ranked
  <2>3. i \in cands \ best
    OBVIOUS
  <2> HIDE DEF cands
  <2> QED
    BY <2>2, <2>3
<1>4. CASE j \in Ranking!Injected(chunks, 1)
  BY <1>4 DEF Ranking!Injected
<1>5. CASE j \in Ranking!Found(chunks) /\ chunks[j].symbol = "none"
  <2>1. CASE chunks[j].inFile
    BY <2>1
  <2>2. CASE ~chunks[j].inFile
    <3> HIDE DEF chunks
    <3>1. i \in Ranking!Injected(chunks, 1) /\ chunks[i].symbol = "exact"
      BY DEF chunks
    <3> QED
      BY <1>2, <1>3, <1>5, <2>2, <3>1, InjectedScoresMore
  <2> QED
    BY <2>1, <2>2
<1> QED
  BY <1>3, <1>4, <1>5

LEMMA KeywordsAreNoPath ==
  ASSUME NEW calls, Called(calls)
  PROVE  PathIsNoKeyword
<1> DEFINE path == Ranking!PathWords(input.query)
           cleaned == Ranking!Cleaned(input.query)
<1> SUFFICES ASSUME Is("keywords"), NEW w \in output.value
             PROVE  \E j \in DOMAIN input.query \ path : w \in input.query[j].words
  BY DEF PathIsNoKeyword
<1>1. w \in Ranking!ExtractKeywords(input.query)
  <2>1. input.function = "keywords" /\ output.value = RetrievalResult(input)
    BY RetrievalCalls DEF RetrievalFunctions
  <2> QED
    BY <2>1 DEF RetrievalResult
<1>2. PICK j \in DOMAIN cleaned : w \in cleaned[j].words
  BY <1>1 DEF Ranking!ExtractKeywords
<1>3. /\ DOMAIN cleaned = DOMAIN input.query \ path
      /\ \A q \in DOMAIN cleaned : cleaned[q] = input.query[q]
  BY DEF Ranking!Cleaned
<1> HIDE DEF cleaned
<1> QED
  BY <1>2, <1>3

LEMMA ContextCalls ==
  ASSUME NEW calls, Called(calls), \A c \in calls : c.function = "context" => c \in AnyContext,
         Is("context")
  PROVE  /\ input.snippets \in Seq(Nat)
         /\ input.flags \in [n_ctx : Option(Nat), max_tokens : Option(Nat), context_token_budget : Nat]
         /\ output.value.kept = Ranking!ChatContext(input.snippets, Setup!ContextBudget(input.flags))
<1>1. input \in calls /\ input.function = "context" /\ output.value = RetrievalResult(input)
  BY RetrievalCalls DEF RetrievalFunctions
<1>2. input \in AnyContext
  BY <1>1
<1>3. RetrievalResult(input).kept = Ranking!ChatContext(input.snippets, Setup!ContextBudget(input.flags))
  BY <1>1 DEF RetrievalResult
<1> QED
  BY <1>1, <1>2, <1>3 DEF AnyContext

LEMMA BudgetFacts ==
  ASSUME NEW flags \in [n_ctx : Option(Nat), max_tokens : Option(Nat), context_token_budget : Nat]
  PROVE  /\ Setup!Typed(flags, "n_ctx") \in Nat /\ Setup!MaxTokens(flags) \in Nat
         /\ Setup!ContextBudget(flags) \in Nat
         /\ LET room == Setup!Typed(flags, "n_ctx") - Setup!MaxTokens(flags) - 300 IN
            flags.context_token_budget = 0 /\ room > 0 => Setup!ContextBudget(flags) = room
<1> DEFINE window == Setup!Typed(flags, "n_ctx")
           typed == Setup!Typed(flags, "max_tokens")
           answer == Setup!MaxTokens(flags)
<1>1. ASSUME NEW option \in Option(Nat), NEW v \in Nat PROVE Setup!UnwrapOr(option, v) \in Nat
  BY DEF Option, Setup!UnwrapOr, Setup!None
<1>2. window \in Nat
  <2>1. flags["n_ctx"] \in Option(Nat) /\ Setup!Default["n_ctx"] \in Nat
    BY DEF Setup!Default
  <2> QED
    BY <1>1, <2>1 DEF Setup!Typed
<1>3. typed \in Nat
  <2>1. flags["max_tokens"] \in Option(Nat) /\ Setup!Default["max_tokens"] \in Nat
    BY DEF Setup!Default
  <2> QED
    BY <1>1, <2>1 DEF Setup!Typed
<1> HIDE DEF window, typed
<1>4. answer \in Nat
  BY <1>3 DEF Setup!MaxTokens, typed
<1> HIDE DEF answer
<1>5. Setup!ContextBudget(flags) = IF flags.context_token_budget = 0
                                   THEN (IF window > answer + 300 THEN window - (answer + 300) ELSE 0)
                                   ELSE flags.context_token_budget
  BY DEF Setup!ContextBudget, Setup!SaturatingSub, window, answer
<1>6. flags.context_token_budget \in Nat
  OBVIOUS
<1> DEFINE budget == Setup!ContextBudget(flags)
           given == flags.context_token_budget
<1>7. /\ budget \in Nat
      /\ given = 0 /\ window - answer - 300 > 0 => budget = window - answer - 300
  <2> HIDE DEF budget, given
  <2> QED
    BY <1>2, <1>4, <1>5, <1>6 DEF budget, given
<1> QED
  BY <1>2, <1>4, <1>7 DEF window, answer

LEMMA ContextsFit ==
  ASSUME NEW calls, Called(calls), \A c \in calls : c.function = "context" => c \in AnyContext
  PROVE  RoomForAnswer /\ OnlyLastIsCut
<1>1. ASSUME Is("context")
      PROVE  \A i \in 1..Len(output.value.kept) - 1 : output.value.kept[i] = input.snippets[i]
  <2>1. Setup!ContextBudget(input.flags) \in Nat
    BY <1>1, ContextCalls, BudgetFacts
  <2> QED
    BY <1>1, <2>1, ContextCalls, ContextKeeps
<1>2. ASSUME Is("context"), input.flags.context_token_budget = 0
      PROVE  LET kept == output.value.kept
                 room == Setup!Typed(input.flags, "n_ctx") - Setup!MaxTokens(input.flags) - 300
             IN \/ room <= 0
                \/ Ranking!Total(kept) + Ranking!HeaderLength * Len(kept) < room * Ranking!CharsPerToken + Ranking!HeaderLength
  <2> DEFINE kept == output.value.kept
             room == Setup!Typed(input.flags, "n_ctx") - Setup!MaxTokens(input.flags) - 300
             some == Ranking!Budgeted(input.snippets, room)
  <2>1. room \in Int /\ (room > 0 => Setup!ContextBudget(input.flags) = room)
    BY <1>2, ContextCalls, BudgetFacts
  <2> HIDE DEF room
  <2>2. CASE room <= 0
    BY <2>2 DEF room
  <2>3. CASE room > 0
    <3>1. room \in Nat \ {0} /\ room \in Nat
      BY <2>1, <2>3
    <3>2. kept = Ranking!InPrompt(some, room) /\ input.snippets \in Seq(Nat)
      BY <1>2, <2>1, <2>3, ContextCalls DEF Ranking!ChatContext
    <3>3. some \in Seq(Nat)
      BY <3>1, <3>2, BudgetedKeeps
    <3> HIDE DEF some, kept
    <3>4. Ranking!Total(kept) + Ranking!HeaderLength * Len(kept) < room * Ranking!CharsPerToken + Ranking!HeaderLength
      BY <3>1, <3>2, <3>3, PromptLeavesRoom
    <3> QED
      BY <3>4 DEF kept, room
  <2> QED
    BY <2>1, <2>2, <2>3
<1> QED
  BY <1>1, <1>2 DEF RoomForAnswer, OnlyLastIsCut

\* What a question names is in the prompt, whatever the chunks, their number, the
\* question, the window and the snippets, CodeOfQuestionIsInPrompt of every call.
THEOREM CodeOfQuestionIsAlwaysInPrompt ==
  Computing(AnyRank \cup AnyQuery \cup AnyContext) => []CodeOfQuestionIsInPrompt
<1> DEFINE calls == AnyRank \cup AnyQuery \cup AnyContext
<1>1. ASSUME Called(calls) PROVE CodeOfQuestionIsInPrompt
  <2>1. \A c \in calls : c.function = "rank" => c \in AnyRank
    BY DEF AnyRank, AnyQuery, AnyContext
  <2>2. \A c \in calls : c.function = "context" => c \in AnyContext
    BY DEF AnyRank, AnyQuery, AnyContext
  <2> HIDE DEF calls
  <2>3. InjectedDefinitionIsKept
    BY <1>1, <2>1, RanksInjected
  <2>4. PathIsNoKeyword
    BY <1>1, KeywordsAreNoPath
  <2>5. RoomForAnswer /\ OnlyLastIsCut
    BY <1>1, <2>2, ContextsFit
  <2> QED
    BY <2>3, <2>4, <2>5 DEF CodeOfQuestionIsInPrompt
<1> HIDE DEF calls
<1>2. input \in calls /\ output = NotYet => Called(calls)
  BY CallIsMade
<1>3. Called(calls) /\ [Compute]_<<input, output>> => Called(calls)'
  BY CallIsMade
<1>4. Computing(calls) => []CodeOfQuestionIsInPrompt
  BY <1>1, <1>2, <1>3, PTL DEF Computing
<1> QED
  BY <1>4 DEF calls
=============================================================================
