----------------------------- MODULE NativeText ------------------------------
(***************************************************************************)
(* context.rs: texts, tokens and embeddings that the native library hands  *)
(* back.  A call that fills a buffer returns how much it wrote, or, when   *)
(* the buffer is too small, minus what it needs; the caller makes the      *)
(* buffer larger and calls once more.  A text is a name, its length in     *)
(* bytes and the place of its first null byte (its length if it has none). *)
(***************************************************************************)
EXTENDS Integers, Sequences, FiniteSets, SequencesExt

Ok(v) == [ok |-> TRUE, value |-> v]
Err(what) == [ok |-> FALSE, value |-> what]
AtLeast(n, least) == IF n < least THEN least ELSE n
AtMost(n, most) == IF n > most THEN most ELSE n

\* The buffers, in bytes.
PieceBuffer == 256
KeyBuffer == 256
ValueBuffer == 4096
DescriptionBuffer == 1024
TextBuffer(tokens) == Len(tokens) * 64 + 256

\* What the library returns for a text and a buffer.
Fills(length, capacity) == IF length <= capacity THEN length ELSE -length

\* Mutant of Received: the larger buffer is filled, and the first answer used.
ReceivedFirst(length, capacity) == AtLeast(Fills(length, capacity), 0)

\* How much of a text of that length a caller that asks again receives.
Received(length, capacity) ==
  LET first == Fills(length, capacity)
  IN IF first < 0 THEN AtLeast(Fills(length, -first + 1), 0) ELSE first

Kept(text, length) == [name |-> text.name, bytes |-> IF length < text.null THEN length ELSE text.null]

\* token_to_piece
TokenToPiece(text) == Kept(text, Received(text.bytes, PieceBuffer))

\* The texts of some tokens, one behind the other.
Joined(texts) ==
  FoldLeft(LAMBDA all, text :
             [name |-> "all", bytes |-> all.bytes + text.bytes,
              null |-> all.null + IF all.null < all.bytes THEN 0 ELSE AtMost(text.null, text.bytes)],
           [name |-> "all", bytes |-> 0, null |-> 0], texts)

\* Mutant of DetokenizeAll: what is behind a null byte is kept.
DetokenizeAllUncut(texts) == Received(Joined(texts).bytes, TextBuffer(texts))

\* detokenize_all: up to the first null byte of all of them.
DetokenizeAll(texts) ==
  LET text == Joined(texts)
  IN IF texts = <<>> THEN 0 ELSE Kept(text, Received(text.bytes, TextBuffer(texts))).bytes

\* metadata, and the same in read_info: a key is not asked for again, and a pair
\* without a key or a value is left out.
Metadata(pairs) ==
  {[key |-> p.key.name, value |-> p.value.name, bytes |-> Received(p.value.bytes, ValueBuffer)] :
     p \in {q \in pairs : Fills(q.key.bytes, KeyBuffer) > 0 /\ Received(q.value.bytes, ValueBuffer) > 0}}

ValueOf(metadata, key) == {entry.value : entry \in {e \in metadata : e.key = key}}

\* read_info: the description is not asked for with the answer of the second call.
ReadInfo(description, pairs) ==
  LET meta == Metadata(pairs)
  IN [description |-> AtLeast(Fills(description.bytes, DescriptionBuffer), 0),
      architecture |-> ValueOf(meta, "general.architecture"),
      ftype |-> IF ValueOf(meta, "general.file_type") # {} THEN ValueOf(meta, "general.file_type")
                ELSE ValueOf(meta, "general.quantization_version")]

\* tokenize: the count is asked for with no buffer; it comes as a count or as
\* minus a count ("old behavior").
Tokenize(tokens, negative) ==
  LET n == IF negative THEN -Len(tokens) ELSE Len(tokens)
      size == IF n < 0 THEN -n ELSE n
      actual == Fills(Len(tokens), size)
  IN IF n = 0 THEN Ok(<<>>)
     ELSE IF actual < 0 THEN Err("tokenize")
     ELSE Ok(SubSeq(tokens, 1, actual))

----------------------------------------------------------------------------
(* LlamaEmbeddingContext: its cache of tokens is the state.  An embedding is *)
(* the mean of what the cache then holds, normalized: the cache stands for   *)
(* it.  The library may refuse to decode, having taken some of the tokens,   *)
(* or have no embedding of the sequence.                                     *)

FirstOf(tokens, n) == IF Len(tokens) > n THEN SubSeq(tokens, 1, n) ELSE tokens

\* Mutant of Embed: the cache is not cleared for the next text.
EmbedOnTop(context, text, outcome) ==
  LET tokens == FirstOf(text, context.n_ctx)
      decoded == context.cache \o tokens
  IN IF text = <<>> THEN [context EXCEPT !.last = Err("no tokens")]
     ELSE IF outcome = "refused" THEN [context EXCEPT !.last = Err("decode"), !.cache = @ \o FirstOf(tokens, 1)]
     ELSE IF outcome = "none" THEN [context EXCEPT !.last = Err("no embedding"), !.cache = decoded]
     ELSE [context EXCEPT !.last = Ok(decoded), !.cache = decoded]

\* embed: the cache is cleared when an embedding was taken out of it, and only then.
Embed(context, text, outcome) ==
  LET tokens == FirstOf(text, context.n_ctx)
      decoded == context.cache \o tokens
  IN IF text = <<>> THEN [context EXCEPT !.last = Err("no tokens")]
     ELSE IF outcome = "refused" THEN [context EXCEPT !.last = Err("decode"), !.cache = @ \o FirstOf(tokens, 1)]
     ELSE IF outcome = "none" THEN [context EXCEPT !.last = Err("no embedding"), !.cache = decoded]
     ELSE [context EXCEPT !.last = Ok(decoded), !.cache = <<>>]

\* LlamaEmbeddingContext::new
NewEmbeddingContext(n_ctx) == [n_ctx |-> n_ctx, cache |-> <<>>, last |-> Err("none yet")]

\* embed_batch, of texts with the outcome each meets: the first error ends it.
EmbedBatch(context, texts) ==
  FoldLeft(LAMBDA acc, t :
             IF ~acc.ok THEN acc
             ELSE LET after == Embed(acc.context, t.text, t.outcome)
                  IN [ok |-> after.last.ok, context |-> after,
                      results |-> IF after.last.ok THEN Append(acc.results, after.last.value) ELSE acc.results],
           [ok |-> TRUE, context |-> context, results |-> <<>>], texts)
=============================================================================
