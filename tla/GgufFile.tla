------------------------------ MODULE GgufFile ------------------------------
(***************************************************************************)
(* gguf.rs: the header and the metadata of a model file are read one field *)
(* after the other, each at the byte where the one before it ended.        *)
(*                                                                         *)
(* A file is its size, its header and the fields that were written behind  *)
(* the header: [at, kind, bytes, value], where kind is "string" or         *)
(* "number".  Reading a field somewhere else, or of another kind, is to    *)
(* read out of step: what comes of it is anything.  A value has its text   *)
(* and what parse::<i32> makes of the text, and a key is the part before   *)
(* its first dot and the rest.                                             *)
(***************************************************************************)
EXTENDS Integers, Sequences, SequencesExt

None == <<>>
Some(v) == <<v>>

HeaderBytes == 24
StringLenBytes == 8
SupportedVersions == {2, 3}

Ok(v) == [ok |-> TRUE, value |-> v]
Err(what) == [ok |-> FALSE, value |-> what]

----------------------------------------------------------------------------
(* Header *)

\* validate_gguf
ValidateGguf(file) ==
  IF file.size < HeaderBytes THEN Err("too small")
  ELSE IF ~file.magic THEN Err("no magic")
  ELSE IF file.version \notin SupportedVersions THEN Err("version")
  ELSE Ok(file.kv_count)

\* is_gguf_file
IsGgufFile(file) == file.size >= 4 /\ file.magic

----------------------------------------------------------------------------
(* Fields *)

StringTag == 8
ArrayTag == 9
ScalarBytes ==
  [tag \in {0, 1, 7} |-> 1] @@ [tag \in {2, 3} |-> 2] @@ [tag \in {4, 5, 6} |-> 4]
  @@ [tag \in {10, 11, 12} |-> 8]

\* Mutant of ItemBytes: the elements of a Boolean array are taken for numbers of four bytes.
ItemBytesOfInts(tag) ==
  IF tag = 7 THEN Some(4) ELSE IF tag \in DOMAIN ScalarBytes THEN Some(ScalarBytes[tag]) ELSE None

\* gguf_value_type_size
ItemBytes(tag) == IF tag \in DOMAIN ScalarBytes THEN Some(ScalarBytes[tag]) ELSE None

\* A reader: where it is, how it does ("ok", "eof", "astray"), what it read last,
\* and the metadata so far.
NoMetadata == [architecture |-> None, name |-> None, bos_token_id |-> None, context_length |-> None]
Reader == [at |-> HeaderBytes, status |-> "ok", got |-> None, meta |-> NoMetadata]

\* read_exact, through read_gguf_string and the read_*_le
Read(file, reader, kind, bytes) ==
  LET here == {field \in file.fields : field.at = reader.at /\ field.kind = kind
                                       /\ (kind = "number" => field.bytes = bytes)}
  IN IF reader.status # "ok" THEN reader
     ELSE IF reader.at >= file.size THEN [reader EXCEPT !.status = "eof"]
     ELSE IF here = {} THEN [reader EXCEPT !.status = "astray"]
     ELSE LET field == CHOOSE f \in here : TRUE IN
          IF field.at + field.bytes > file.size THEN [reader EXCEPT !.status = "eof"]
          ELSE [reader EXCEPT !.at = @ + field.bytes, !.got = Some(field.value)]

ReadString(file, reader) == Read(file, reader, "string", StringLenBytes)
ReadNumber(file, reader, bytes) == Read(file, reader, "number", bytes)
Times(n, Step(_), reader) == FoldLeft(LAMBDA r, i : Step(r), reader, [i \in 1..n |-> i])

\* Elements of a known size are skipped without a look at where the file ends,
\* all others are read as strings.
SkipArray(file, reader) ==
  LET item == ReadNumber(file, reader, 4)
      count == ReadNumber(file, item, 8)
      size == ItemBytes(item.got[1].int[1])
      skipped == IF size # None THEN [count EXCEPT !.at = @ + count.got[1].int[1] * size[1]]
                 ELSE Times(count.got[1].int[1], LAMBDA r : ReadString(file, r), count)
  IN IF count.status # "ok" THEN count
     ELSE IF skipped.status # "ok" THEN skipped
     ELSE [skipped EXCEPT !.got = Some([text |-> "[array]", int |-> None])]

\* A value of a type nobody knows is read as a string.
ReadValue(file, reader) ==
  LET type == ReadNumber(file, reader, 4)
      tag == type.got[1].int[1]
  IN IF type.status # "ok" THEN type
     ELSE IF tag \in DOMAIN ScalarBytes THEN ReadNumber(file, type, ScalarBytes[tag])
     ELSE IF tag = ArrayTag THEN SkipArray(file, type)
     ELSE ReadString(file, type)

----------------------------------------------------------------------------
(* Metadata *)

\* Mutant of Extract: the keys of the first model that came to mind.
ExtractLlamaOnly(meta, key, value) ==
  CASE key = <<"general", "architecture">> -> [meta EXCEPT !.architecture = Some(value.text)]
    [] key = <<"general", "name">> -> [meta EXCEPT !.name = Some(value.text)]
    [] key = <<"tokenizer", "ggml.bos_token_id">> -> [meta EXCEPT !.bos_token_id = value.int]
    [] key = <<"llama", "context_length">> -> [meta EXCEPT !.context_length = value.int]
    [] OTHER -> meta

\* What a pair adds to the metadata.  A key of the architecture counts only
\* when the architecture is known by then; a text that is no i32 unsets.
Extract(meta, key, value) ==
  CASE key = <<"general", "architecture">> -> [meta EXCEPT !.architecture = Some(value.text)]
    [] key = <<"general", "name">> -> [meta EXCEPT !.name = Some(value.text)]
    [] key = <<"tokenizer", "ggml.bos_token_id">> -> [meta EXCEPT !.bos_token_id = value.int]
    [] meta.architecture = Some(key[1]) /\ key[2] = "context_length" ->
         [meta EXCEPT !.context_length = value.int]
    [] OTHER -> meta

ReadPair(file, reader) ==
  LET key == ReadString(file, reader)
      value == ReadValue(file, key)
  IN IF key.status # "ok" THEN key
     ELSE IF value.status # "ok" THEN value
     ELSE [value EXCEPT !.meta = Extract(@, key.got[1].key, value.got[1])]

\* Mutant of ReadGgufMetadata: the metadata end where the file does.
ReadWhatIsThere(file) ==
  LET reader == Times(file.kv_count, LAMBDA r : ReadPair(file, r), Reader)
  IN IF ~ValidateGguf(file).ok THEN ValidateGguf(file)
     ELSE IF reader.status = "astray" THEN Err(reader.status)
     ELSE Ok(reader.meta)

\* read_gguf_metadata
ReadGgufMetadata(file) ==
  LET reader == Times(file.kv_count, LAMBDA r : ReadPair(file, r), Reader)
  IN IF ~ValidateGguf(file).ok THEN ValidateGguf(file)
     ELSE IF reader.status # "ok" THEN Err(reader.status)
     ELSE Ok(reader.meta)

\* pre_validate_model
PreValidateModel(path) ==
  IF ~path.exists \/ ~path.is_file THEN Err("not found")
  ELSE IF ~ValidateGguf(path.file).ok THEN ValidateGguf(path.file)
  ELSE ReadGgufMetadata(path.file)

\* discover_gguf_models: a file with a good header is a model, with or without metadata.
DiscoverGgufModels(dir) ==
  {[path |-> path, metadata |-> ReadGgufMetadata(path.file)] :
     path \in {p \in dir : /\ p.is_file
                           /\ p.extension = "gguf" \/ IsGgufFile(p.file)
                           /\ ValidateGguf(p.file).ok}}
=============================================================================
