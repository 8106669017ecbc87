----------------------------- MODULE ModelChecks -----------------------------
(***************************************************************************)
(* Inputs and properties of the functions that look at model files and     *)
(* make prompts for a model.                                               *)
(***************************************************************************)
EXTENDS AlgorithmCall, Integers, Sequences, FiniteSetsExt, SequencesExt

Gguf == INSTANCE GgufFile
Sizing == INSTANCE ModelSizing
Templates == INSTANCE PromptTemplates
Native == INSTANCE NativeText

----------------------------------------------------------------------------
(* Files as they are written: a pair is its key, the tag of its value and   *)
(* the fields of the value                                                  *)

Text(t) == [text |-> t, int |-> <<>>]
Num(n) == [text |-> "int", int |-> <<n>>]
Str(value) == [kind |-> "string", bytes |-> 8 + 5, value |-> value]
Scalar(bytes, value) == [kind |-> "number", bytes |-> bytes, value |-> value]
Pair(key, tag, value) == [key |-> key, tag |-> tag, value |-> value]
ArrayOf(tag, items) == <<Scalar(4, Num(tag)), Scalar(8, Num(Len(items)))>> \o items

Architecture(name) == Pair(<<"general", "architecture">>, 8, <<Str(Text(name))>>)
ContextLength(name, tag, number) == Pair(<<name, "context_length">>, tag, <<number>>)
Tokens(tag, value) == Pair(<<"tokenizer", "ggml.tokens">>, tag, value)

KnownPairs ==
  {Architecture("llama"), Architecture("gemma"),
   Pair(<<"general", "name">>, 8, <<Str(Text("m"))>>),
   Pair(<<"tokenizer", "ggml.bos_token_id">>, 4, <<Scalar(4, Num(1))>>),
   Pair(<<"tokenizer", "ggml.bos_token_id">>, 8, <<Str(Text("x"))>>),
   ContextLength("llama", 4, Scalar(4, Num(4096))),
   ContextLength("llama", 10, Scalar(8, Text("big"))),
   ContextLength("gemma", 2, Scalar(2, Num(8192))),
   Tokens(9, ArrayOf(8, <<Str(Text("a")), Str(Text("b"))>>)),
   Tokens(9, ArrayOf(7, <<Scalar(1, Text("true")), Scalar(1, Text("true")), Scalar(1, Text("false"))>>)),
   Tokens(9, ArrayOf(6, <<Scalar(4, Text("0.5"))>>))}
\* An array of arrays, and a value of a type that is not known.
OtherPairs ==
  {Tokens(9, ArrayOf(9, ArrayOf(4, <<Scalar(4, Num(1))>>))), Tokens(13, <<Scalar(4, Num(1))>>)}

Fields(pairs) ==
  FoldLeft(LAMBDA fields, pair :
             fields \o <<Str([key |-> pair.key]), Scalar(4, Num(pair.tag))>> \o pair.value,
           <<>>, pairs)
\* The fields one behind the other, from byte 24 on.
Laid(fields) ==
  FoldLeft(LAMBDA file, f :
             [size |-> file.size + f.bytes,
              fields |-> file.fields \cup {[at |-> file.size, kind |-> f.kind, bytes |-> f.bytes, value |-> f.value]}],
           [size |-> 24, fields |-> {}], fields)
Written(pairs) ==
  LET laid == Laid(Fields(pairs))
  IN [magic |-> TRUE, version |-> 3, kv_count |-> Len(pairs), size |-> laid.size, fields |-> laid.fields]
Cut(file, size) == [file EXCEPT !.size = size]

PairLists == UNION {[1..n -> KnownPairs \cup OtherPairs] : n \in 0..2}
             \cup {<<p, q, r>> : p \in KnownPairs, q, r \in {k \in KnownPairs : k.key[1] # "tokenizer"}}
PickFile ==
  \E pairs \in PairLists :
  \E size \in {f.at : f \in Written(pairs).fields} \cup {Written(pairs).size} :
    input = [function |-> "read_gguf_metadata", pairs |-> pairs, size |-> size]

----------------------------------------------------------------------------
(* Sizes, formats, conversations *)

ModelMetas ==
  [num_layers : {<<>>, <<0>>, <<1>>, <<32>>}, embedding_length : {<<1024>>}, num_heads : {<<>>, <<8>>},
   num_kv_heads : {<<>>, <<2>>, <<8>>}, context_length : {<<>>, <<8192>>}]
SizingInputs ==
  [function : {"sizing"}, meta : ModelMetas, file_size : {n * Sizing!GB : n \in {1, 4, 8}} \cup {4 * Sizing!GB + 31},
   n_ctx : {2048, 8192, 32768},
   vram : {0, 512 * Sizing!MB, 4 * Sizing!GB + 512 * Sizing!MB} \cup {n * Sizing!GB : n \in {4, 8, 24}},
   gpu_available : BOOLEAN]
QuantInputs ==
  [function : {"recommend_quant"}, n_params : {500, 3000, 7000, 13000, 70000},
   memory : {0, 1000, 3000, 5000, 6500, 8000, 16000, 32000, 200000}]
\* Files with no metadata.
ModelPaths ==
  [extension : {"gguf", "safetensors", "bin", "", "txt"}, is_file : BOOLEAN, content : {"gguf", "safetensors", "other"},
   size : {3, 23, 24}, version : {1, 3}]
AsGguf(f) ==
  [extension |-> f.extension, is_file |-> f.is_file,
   file |-> [size |-> f.size, magic |-> f.content = "gguf", version |-> f.version, kv_count |-> 0, fields |-> {}]]
FormatInputs ==
  [function : {"find_model_files"}, file : ModelPaths]

TemplateKinds == {"Raw", "ChatML", "Auto", "Llama3", "DeepSeek", "Phi", "Gemma", "CommandR", "Custom"}
\* Contents that differ from each other and from the markers.
Contents == <<"c1", "c2", "c3", "c4">>
Conversations ==
  UNION {{[i \in 1..n |-> [role |-> roles[i], content |-> Contents[i]]] :
            roles \in [1..n -> {"system", "user", "assistant"}]} : n \in 0..4}
ConversationInputs ==
  [function : {"format"}, template : TemplateKinds, messages : Conversations, generate : BOOLEAN]
PromptInputs ==
  [function : {"format_prompt"}, template : TemplateKinds,
   messages : {c \in Conversations : Len(c) <= 2},
   configured : {<<>>, <<"chatml">>},
   default : {<<>>, <<"jinja">>},
   named : {<<>>, [chatml |-> "jinja2"]},
   architecture : {<<>>, <<"llama">>, <<"mistral">>, <<"gemma">>},
   knows : {{"jinja"}, {"jinja", "jinja2", "custom"}}]

\* Lengths around those of the buffers, with and without a null byte inside.
NativeTexts ==
  {[name |-> "t", bytes |-> bytes, null |-> null] :
     bytes \in {0, 1, 255, 256, 257, 4096, 4097, 9000}, null \in {0, 2, 9000}}
Key(name, bytes) == [name |-> name, bytes |-> bytes, null |-> bytes]
MetadataPairs ==
  {[key |-> Key("general.architecture", 20), value |-> t] : t \in NativeTexts}
  \cup {[key |-> Key(name, 20), value |-> Key("v", 1)] : name \in {"general.file_type", "general.quantization_version"}}
NativeInputs ==
  [function : {"read_info"}, description : NativeTexts, pairs : {{p} : p \in MetadataPairs}]
  \cup [function : {"detokenize"}, texts : UpTo(2, NativeTexts)]
  \cup [function : {"tokenize"}, tokens : UpTo(3, {1, 2}), negative : BOOLEAN]
EmbedTexts == [text : {<<>>, <<1>>, <<2, 3>>, <<4, 5, 6>>}, outcome : {"embedded", "refused", "none"}]
EmbedInputs ==
  [function : {"embed"}, n_ctx : {2, 3},
   batches : {<<first, second>> : first, second \in {<<t>> : t \in EmbedTexts} \cup
                                                  {<<t, u>> : t \in {e \in EmbedTexts : Len(e.text) = 1}, u \in EmbedTexts}}]

ModelCall ==
  \/ PickFile
  \/ input \in SizingInputs \cup QuantInputs \cup FormatInputs \cup ConversationInputs \cup PromptInputs
              \cup NativeInputs \cup EmbedInputs

Service(call) ==
  LET meta == [chat_template |-> call.default, architecture |-> call.architecture]
      model == [default |-> call.default, named |-> call.named, meta |-> meta]
  IN [model |-> model,
      chat_template |-> Templates!ServiceTemplate([chat_template |-> call.configured], model)]

ModelFunctions == {"read_gguf_metadata", "sizing", "recommend_quant", "find_model_files", "format", "format_prompt",
                   "read_info", "detokenize", "tokenize", "embed"}
ModelResult(call) ==
  CASE call.function = "read_gguf_metadata" ->
         Gguf!PreValidateModel([exists |-> TRUE, is_file |-> TRUE, file |-> Cut(Written(call.pairs), call.size)])
    [] call.function = "sizing" ->
         [gpu |-> Sizing!RecommendGpuLayers(call.meta, call.file_size, call.vram, call.gpu_available),
          memory |-> Sizing!EstimateMemory(call.meta, call.file_size, call.n_ctx, <<16 * Sizing!GB>>)]
    [] call.function = "recommend_quant" ->
         [best |-> Sizing!RecommendQuant(call.n_params, call.memory),
          all |-> Sizing!QuantForMemory(call.n_params, call.memory)]
    [] call.function = "find_model_files" ->
         [discovered |-> Gguf!DiscoverGgufModels({AsGguf(call.file)}), formats |-> Sizing!FindModelFiles({call.file})]
    [] call.function = "format" -> Templates!Format(call.template, call.messages, call.generate)
    [] call.function = "format_prompt" ->
         Templates!FormatPrompt(Service(call), "question", call.template, call.messages, [knows |-> call.knows])
    [] call.function = "read_info" ->
         [info |-> Native!ReadInfo(call.description, call.pairs), metadata |-> Native!Metadata(call.pairs)]
    [] call.function = "detokenize" ->
         [whole |-> Native!DetokenizeAll(call.texts),
          pieces |-> [i \in DOMAIN call.texts |-> Native!TokenToPiece(call.texts[i])]]
    [] call.function = "tokenize" -> Native!Tokenize(call.tokens, call.negative)
    [] call.function = "embed" ->
         LET first == Native!EmbedBatch(Native!NewEmbeddingContext(call.n_ctx), call.batches[1])
         IN [first |-> first, second |-> Native!EmbedBatch(first.context, call.batches[2])]

----------------------------------------------------------------------------
(* Properties *)

\* The value of the last pair that has the key, whatever stands between.
LastOf(pairs, IsIt(_)) ==
  LET found == {i \in DOMAIN pairs : IsIt(i)}
  IN IF found = {} THEN <<>> ELSE <<pairs[Max(found)].value[1].value>>
ArchitectureAt(pairs, i) == LastOf(SubSeq(pairs, 1, i), LAMBDA j : pairs[j].key[2] = "architecture")

\* Whatever the order of the pairs and whatever arrays of known elements stand
\* between them, every field of the metadata is read from its own pair.
MetadataIsReadInStep ==
  Is("read_gguf_metadata") /\ input.size = Written(input.pairs).size /\ ToSet(input.pairs) \subseteq KnownPairs =>
    LET pairs == input.pairs
        context == LastOf(pairs, LAMBDA i : /\ pairs[i].key[2] = "context_length"
                                            /\ ArchitectureAt(pairs, i) = <<Text(pairs[i].key[1])>>)
        bos == LastOf(pairs, LAMBDA i : pairs[i].key[2] = "ggml.bos_token_id")
    IN /\ output.value.ok
       /\ output.value.value.context_length = (IF context = <<>> THEN <<>> ELSE context[1].int)
       /\ output.value.value.bos_token_id = (IF bos = <<>> THEN <<>> ELSE bos[1].int)

\* Of a file that was cut short the whole metadata are read, or an error.
TruncatedIsNeverWrong ==
  Is("read_gguf_metadata") /\ output.value.ok =>
    output.value = Gguf!ReadGgufMetadata(Written(input.pairs))

\* When all layers are recommended, the weights, the cache of a context of up to
\* 8192 tokens and the overhead fit, but for what the division by the layers drops;
\* when some are, they do.
RecommendedLayersFit ==
  Is("sizing") =>
    LET gpu == output.value.gpu
        memory == output.value.memory
        layers == Sizing!UnwrapOr(input.meta.num_layers, 0) IN
    /\ gpu.layers = -1 /\ input.n_ctx <= Sizing!GpuContext /\ layers <= input.file_size =>
         memory.model + memory.kv_cache + Sizing!GpuOverhead < input.vram + layers
    /\ gpu.layers > 0 => gpu.vram <= input.vram

\* The recommended quantization fits, and is as good as any that does.
BestQuantIsRecommended ==
  Is("recommend_quant") =>
    LET best == output.value.best all == output.value.all IN
    /\ best = <<>> <=> all = <<>>
    /\ best # <<>> => best[1] \in ToSet(all) /\ \A q \in ToSet(all) : q.quality <= best[1].quality

\* A file that discovery takes for a GGUF model is one for the formats, too,
\* unless its name says otherwise.
FormatsAgree ==
  Is("find_model_files") /\ output.value.discovered # {} /\ input.file.extension \notin {"safetensors", "bin"} =>
    output.value.formats = {[file |-> input.file, format |-> "Gguf"]}

\* A system message that a question follows before the next one.
Heard(messages, i) ==
  messages[i].role = "system" =>
    \E j \in (i + 1)..Len(messages) :
      /\ messages[j].role = "user"
      /\ \A k \in (i + 1)..j : messages[k].role # "system"
ContentsOf(messages) == [i \in DOMAIN messages |-> messages[i].content]

\* A template has every message once and in the order of the conversation; that
\* of Gemma puts a system message before the next question.
PromptKeepsMessages ==
  Is("format") /\ output.value.ok
    /\ (input.template = "Gemma" =>
          \A i \in DOMAIN input.messages :
            /\ Heard(input.messages, i)
            /\ (input.messages[i].role = "system" => input.messages[i + 1].role = "user")) =>
      SelectSeq(output.value.value, LAMBDA piece : piece \in ToSet(Contents)) = ContentsOf(input.messages)

\* "system messages are prepended to the first user message"
GemmaHearsTheSystem ==
  Is("format") /\ input.template = "Gemma" =>
    \A i \in DOMAIN input.messages : input.messages[i].content \in ToSet(output.value.value)

\* Whatever template a prompt is made with, the conversation and then the question
\* are in it, and the answer is what comes next.
QuestionIsAsked ==
  Is("format_prompt") /\ output.value.ok =>
    LET prompt == output.value.value
        said == SelectSeq(prompt, LAMBDA piece : piece \in ToSet(Contents) \cup {"question"})
    IN IF input.template = "Raw" THEN said = <<"question">>
       ELSE said = Append(ContentsOf(input.messages), "question")

\* "Use the detected/inferred template from model loading"
ServiceTemplateIsUsed ==
  Is("format_prompt") /\ input.template = "Auto" /\ output.value.ok =>
    output.value.value[1] = Service(input).chat_template

\* However long a text of the native library is, nothing of it is lost: not of a
\* value of the metadata, nor of the piece of a token up to its null byte, nor any of
\* the tokens; and the text of the tokens is their pieces up to the first cut one.
NativeTextIsWhole ==
  /\ Is("read_info") =>
       \A p \in input.pairs : p.value.bytes > 0 =>
         [key |-> p.key.name, value |-> p.value.name, bytes |-> p.value.bytes] \in output.value.metadata
  /\ Is("detokenize") =>
       /\ LET cut == {i \in DOMAIN input.texts : output.value.pieces[i].bytes < input.texts[i].bytes}
              last == IF cut = {} THEN Len(input.texts) ELSE Min(cut)
          IN output.value.whole = FoldLeft(LAMBDA sum, piece : sum + piece.bytes, 0, SubSeq(output.value.pieces, 1, last))
       /\ \A i \in DOMAIN input.texts :
            output.value.pieces[i].bytes = Min({input.texts[i].bytes, input.texts[i].null})
  /\ Is("tokenize") => output.value = [ok |-> TRUE, value |-> input.tokens]

\* "Detokenize a list of tokens into a string": of all of them.
TextOfAllTokens ==
  Is("detokenize") => output.value.whole = FoldLeft(LAMBDA sum, text : sum + text.bytes, 0, input.texts)

\* "Handle negative desc_len (indicates required buffer size)"
DescriptionIsWhole ==
  Is("read_info") => output.value.info.description = input.description.bytes

\* The embedding of a text is that of its own tokens, up to the context, whatever
\* was embedded before, as long as that succeeded.
EmbeddingIsOfItsText ==
  Is("embed") =>
    LET OwnTokens(batch, results) ==
          \A i \in DOMAIN results : results[i] = SubSeq(batch[i].text, 1, Min({input.n_ctx, Len(batch[i].text)}))
    IN /\ OwnTokens(input.batches[1], output.value.first.results)
       /\ output.value.first.ok => OwnTokens(input.batches[2], output.value.second.results)

\* "Clear KV cache for next embedding"
EmbeddingStartsClean ==
  Is("embed") => output.value.first.context.cache = <<>>
=============================================================================
