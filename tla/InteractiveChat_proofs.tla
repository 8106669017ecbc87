------------------------ MODULE InteractiveChat_proofs ------------------------
(***************************************************************************)
(* Proofs about ChatSession and InteractiveChat, for every capacity of the *)
(* context, every limit of the session and every set of questions, system  *)
(* prompts and answers.                                                    *)
(***************************************************************************)
EXTENDS InteractiveChat, DataLemmas

----------------------------------------------------------------------------
(* Texts and prompts *)

\* The words of a chat template.
Markers == {"user", "assistant", "system", "end"}

\* All words there are: those of the templates and of the prompts that the
\* interactive chat makes for retrieval, the generated ones and the given ones.
Word == Markers \cup {"rag", "snippet"} \cup AnswerWords
          \cup UNION {Range(text) : text \in Questions \cup SystemPrompts}

\* A message of a history, and one of a prompt, over a set of words.
Message == [role : {"user", "assistant"}, content : Contents]
Worded(words) == [role : {"user", "assistant", "system"}, content : Seq(words)]

\* An answer is a sequence of words the model may generate; what is decoded of
\* it, and what is decoded of it before a failure, are parts of it.
LEMMA AnswerFacts ==
  ASSUME NEW text \in Answers
  PROVE  /\ text \in Seq(AnswerWords)
         /\ Decoded(text) \in Seq(AnswerWords)
         /\ text # <<>> => /\ Front(text) \in Seq(AnswerWords)
                           /\ Len(Front(text)) = Len(text) - 1
<1>1. text \in Seq(AnswerWords)
  <2>1. PICK m \in 0..MaxTokens : text \in [1..m -> AnswerWords]
    BY DEF Answers, BoundedSeq, SeqOf
  <2>2. m \in Nat
    BY <2>1, ContextAssumption
  <2> QED
    BY <2>1, <2>2, FunctionIsSeq
<1>2. text # <<>> => /\ Front(text) \in Seq(AnswerWords)
                     /\ Len(Front(text)) = Len(text) - 1
  <2> SUFFICES ASSUME text # <<>>
               PROVE  /\ Front(text) \in Seq(AnswerWords)
                      /\ Len(Front(text)) = Len(text) - 1
    OBVIOUS
  <2> QED
    BY <1>1, FrontFacts
<1> QED
  BY <1>1, <1>2 DEF Decoded

\* Every message, question and prompt is a sequence of words.
LEMMA ContentsTyped ==
  /\ Contents \subseteq Seq(Word)
  /\ SystemPrompts \cup {None} \subseteq Seq(Word)
<1>1. \A text \in Answers : text \in Seq(Word)
  BY AnswerFacts, SeqMonotonic DEF Word
<1>2. None \in Seq(Word)
  BY EmptySeq DEF None
<1>3. ASSUME NEW text \in Questions \cup SystemPrompts PROVE text \in Seq(Word)
  <2>1. text \in Seq(STRING)
    BY SessionAssumption
  <2>2. text \in Seq(Range(text))
    BY <2>1, SeqOfRange
  <2>3. Range(text) \subseteq Word
    BY DEF Word
  <2> QED
    BY <2>2, <2>3, SeqMonotonic
<1> QED
  BY <1>1, <1>2, <1>3 DEF Contents

\* A prompt has the words of its messages and those of the template; it closes
\* with its last message.
LEMMA FormatFacts ==
  ASSUME NEW words, Markers \subseteq words, NEW msgs \in Seq(Worded(words))
  PROVE  /\ Format(msgs) \in Seq(words)
         /\ Len(msgs) > 0 =>
              LET last == <<msgs[Len(msgs)].role>> \o msgs[Len(msgs)].content \o <<"end">>
              IN /\ last \in Seq(words)
                 /\ \E before \in Seq(words) :
                      Format(msgs) = (before \o last) \o <<"assistant">>
                 /\ Len(msgs) = 1 => Format(msgs) = last \o <<"assistant">>
<1> DEFINE Part(i) == <<msgs[i].role>> \o msgs[i].content \o <<"end">>
           parts == [i \in 1..Len(msgs) |-> Part(i)]
<1>1. \A i \in 1..Len(msgs) : Part(i) \in Seq(words)
  <2> SUFFICES ASSUME NEW i \in 1..Len(msgs) PROVE Part(i) \in Seq(words)
    OBVIOUS
  <2>1. msgs[i] \in Worded(words)
    BY ElementOfSeq
  <2>2. msgs[i].role \in words /\ msgs[i].content \in Seq(words) /\ "end" \in words
    BY <2>1 DEF Worded, Markers
  <2>3. <<msgs[i].role>> \in Seq(words) /\ <<"end">> \in Seq(words)
    BY <2>2
  <2> QED
    BY <2>2, <2>3
<1>2. Len(msgs) \in Nat
  BY LenProperties
<1>3. parts \in Seq(Seq(words)) /\ Len(parts) = Len(msgs)
  <2>1. parts \in [1..Len(msgs) -> Seq(words)]
    BY <1>1
  <2> HIDE DEF parts
  <2> QED
    BY <1>2, <2>1, FunctionIsSeq
<1>4. \A i \in 1..Len(msgs) : parts[i] = Part(i)
  OBVIOUS
<1>5. Format(msgs) = FlattenSeq(parts) \o <<"assistant">>
  BY DEF Format
<1>6. <<"assistant">> \in Seq(words)
  BY DEF Markers
<1> HIDE DEF parts, Part
<1>7. /\ FlattenSeq(parts) \in Seq(words)
      /\ Len(parts) = 1 => FlattenSeq(parts) = parts[1]
      /\ Len(parts) > 0 => \E before \in Seq(words) : FlattenSeq(parts) = before \o parts[Len(parts)]
  BY <1>3, FlattenFacts
<1>8. Format(msgs) \in Seq(words)
  BY <1>5, <1>6, <1>7
<1>9. Len(msgs) > 0 => /\ Part(Len(msgs)) \in Seq(words)
                       /\ \E before \in Seq(words) : Format(msgs) = (before \o Part(Len(msgs))) \o <<"assistant">>
                       /\ Len(msgs) = 1 => Format(msgs) = Part(Len(msgs)) \o <<"assistant">>
  <2> SUFFICES ASSUME Len(msgs) > 0
               PROVE  /\ Part(Len(msgs)) \in Seq(words)
                      /\ \E before \in Seq(words) : Format(msgs) = (before \o Part(Len(msgs))) \o <<"assistant">>
                      /\ Len(msgs) = 1 => Format(msgs) = Part(Len(msgs)) \o <<"assistant">>
    OBVIOUS
  <2>1. Len(msgs) \in 1..Len(msgs)
    BY <1>2
  <2>2. parts[Len(msgs)] = Part(Len(msgs)) /\ Part(Len(msgs)) \in Seq(words)
    BY <1>1, <1>4, <2>1
  <2>3. PICK before \in Seq(words) : FlattenSeq(parts) = before \o Part(Len(msgs))
    BY <1>3, <1>7, <2>2
  <2>4. Len(msgs) = 1 => FlattenSeq(parts) = Part(Len(msgs))
    BY <1>3, <1>7, <2>2
  <2> QED
    BY <1>5, <2>2, <2>3, <2>4
<1> QED
  BY <1>8, <1>9 DEF Part

----------------------------------------------------------------------------
(* The calls of the context *)

\* What is known of the context and the text after a call of it, whatever set
\* the words of the prompt and of the cache are from.
Sound(outcome, words) ==
  /\ outcome.kv \in Seq(words)
  /\ outcome.cached = Len(outcome.kv)
  /\ outcome.cached <= NCtx
  /\ outcome.ok => outcome.text \in Answers

\* Decoding a batch and generating keeps the count of the tokens in the cache.
LEMMA GenerationsAreSound ==
  ASSUME NEW words, AnswerWords \subseteq words,
         NEW cache \in Seq(words), Len(cache) <= NCtx,
         NEW batch \in Seq(words),
         NEW outcome \in Generations(cache, Len(cache), batch)
  PROVE  /\ Sound(outcome, words)
         /\ outcome.ok => outcome.kv = (cache \o batch) \o Decoded(outcome.text)
<1> DEFINE start == cache \o batch
           n == Len(cache) + Len(batch)
           room == NCtx - Len(start)
<1>1. start \in Seq(words) /\ Len(start) = n /\ n \in Nat
  BY ConcatProperties
<1> HIDE DEF start
<1>2. \A text \in Seq(AnswerWords) : /\ start \o text \in Seq(words)
                                     /\ Len(start \o text) = n + Len(text)
                                     /\ Len(text) \in Nat
  <2> SUFFICES ASSUME NEW text \in Seq(AnswerWords)
               PROVE  /\ start \o text \in Seq(words)
                      /\ Len(start \o text) = n + Len(text)
                      /\ Len(text) \in Nat
    OBVIOUS
  <2>1. text \in Seq(words)
    BY SeqMonotonic
  <2>2. start \o text \in Seq(words) /\ Len(start \o text) = Len(start) + Len(text)
    BY <1>1, <2>1, ConcatProperties
  <2>3. Len(text) \in Nat
    BY LenProperties
  <2> QED
    BY <1>1, <2>2, <2>3
<1>3. CASE outcome = Failure(cache, Len(cache))
  BY <1>3 DEF Failure, Sound
<1>4. ASSUME NEW text \in Answers, Len(Decoded(text)) <= room,
             outcome = Answer(text, start \o Decoded(text), n + Len(Decoded(text)))
      PROVE  Sound(outcome, words) /\ (outcome.ok => outcome.kv = start \o Decoded(outcome.text))
  <2>1. Decoded(text) \in Seq(AnswerWords)
    BY AnswerFacts
  <2>2. /\ start \o Decoded(text) \in Seq(words)
        /\ Len(start \o Decoded(text)) = n + Len(Decoded(text))
        /\ n + Len(Decoded(text)) <= NCtx
    BY <1>1, <1>2, <1>4, <2>1, ContextAssumption
  <2> QED
    BY <1>4, <2>2 DEF Answer, Sound
<1>5. ASSUME NEW text \in Answers, text # <<>>, Len(text) - 1 <= room,
             outcome = Failure(start \o Front(text), n + Len(text) - 1)
      PROVE  Sound(outcome, words) /\ ~outcome.ok
  <2>1. Front(text) \in Seq(AnswerWords) /\ Len(Front(text)) = Len(text) - 1 /\ Len(text) \in Nat
    BY <1>5, AnswerFacts
  <2>2. /\ start \o Front(text) \in Seq(words)
        /\ Len(start \o Front(text)) = n + Len(text) - 1
        /\ n + Len(text) - 1 <= NCtx
    <3>1. /\ start \o Front(text) \in Seq(words)
          /\ Len(start \o Front(text)) = n + Len(Front(text))
      BY <1>2, <2>1
    <3>2. n + (Len(text) - 1) = n + Len(text) - 1
      BY <1>1, <2>1
    <3>3. n + Len(text) - 1 <= NCtx
      BY <1>1, <1>5, <2>1, ContextAssumption
    <3> QED
      BY <2>1, <3>1, <3>2, <3>3, Zenon
  <2> QED
    BY <1>5, <2>2 DEF Failure, Sound
<1>6. \/ outcome = Failure(cache, Len(cache))
      \/ \E text \in Answers : /\ Len(Decoded(text)) <= room
                               /\ outcome = Answer(text, start \o Decoded(text), n + Len(Decoded(text)))
      \/ \E text \in Answers : /\ text # <<>> /\ Len(text) - 1 <= room
                               /\ outcome = Failure(start \o Front(text), n + Len(text) - 1)
  BY DEF Generations, start
<1>7. CASE ~(outcome = Failure(cache, Len(cache)))
  <2>1. Sound(outcome, words) /\ (outcome.ok => outcome.kv = start \o Decoded(outcome.text))
    BY <1>4, <1>5, <1>6, <1>7
  <2> QED
    BY <2>1 DEF start
<1>8. Failure(cache, Len(cache)).ok = FALSE
  BY DEF Failure
<1> QED
  BY <1>3, <1>7, <1>8

\* infer starts from an empty cache: what it decodes is its prompt and the answer.
LEMMA InferIsSound ==
  ASSUME NEW words, AnswerWords \subseteq words,
         NEW prompt \in Seq(words), NEW outcome \in Infer(prompt)
  PROVE  /\ Sound(outcome, words)
         /\ outcome.ok => outcome.kv = prompt \o Decoded(outcome.text)
<1>1. <<>> \in Seq(words) /\ Len(<<>>) = 0 /\ Len(<<>>) <= NCtx
  BY EmptySeq, ContextAssumption
<1>2. outcome \in Generations(<<>>, Len(<<>>), prompt)
  BY <1>1 DEF Infer
<1>3. <<>> \o prompt = prompt
  BY ConcatEmptySeq
<1>4. /\ Sound(outcome, words)
      /\ outcome.ok => outcome.kv = (<<>> \o prompt) \o Decoded(outcome.text)
  BY <1>1, <1>2, GenerationsAreSound
<1> QED
  BY <1>3, <1>4

\* So does infer_incremental for a count of 0; whatever its count is, the tokens
\* of the cache and of the prompt are all there is in the cache afterwards.
LEMMA InferIncrementalIsSound ==
  ASSUME NEW words, AnswerWords \subseteq words,
         kv \in Seq(Word), cached_tokens = Len(kv), Len(kv) <= NCtx,
         NEW count \in Nat, count > 0 => kv \in Seq(words),
         NEW prompt \in Seq(words), NEW outcome \in InferIncremental(prompt, count)
  PROVE  /\ Sound(outcome, words)
         /\ count = 0 /\ outcome.ok => outcome.kv = prompt \o Decoded(outcome.text)
<1>1. CASE outcome \in Infer(prompt)
  BY <1>1, InferIsSound
<1>2. CASE outcome = Failure(<<>>, 0)
  <2>1. <<>> \in Seq(words) /\ Len(<<>>) = 0 /\ 0 <= NCtx
    BY EmptySeq, ContextAssumption
  <2> QED
    BY <1>2, <2>1 DEF Failure, Sound
<1>3. CASE count > 0 /\ outcome = Failure(kv, cached_tokens)
  BY <1>3 DEF Failure, Sound
<1>4. CASE /\ count > 0
           /\ count < Len(prompt)
           /\ outcome \in Generations(kv, cached_tokens, SubSeq(prompt, count + 1, Len(prompt)))
  <2>1. /\ count + 1 \in Int /\ Len(prompt) \in Int
        /\ \A i \in count + 1..Len(prompt) : prompt[i] \in words
    OBVIOUS
  <2>2. SubSeq(prompt, count + 1, Len(prompt)) \in Seq(words)
    BY <2>1, SubSeqProperties
  <2>3. kv \in Seq(words)
    BY <1>4
  <2>4. Sound(outcome, words)
    BY <1>4, <2>2, <2>3, GenerationsAreSound
  <2> QED
    BY <1>4, <2>4
<1>5. Len(prompt) \in Nat
  BY LenProperties
<1> QED
  BY <1>1, <1>2, <1>3, <1>4, <1>5 DEF InferIncremental

----------------------------------------------------------------------------
(* Estimates *)

\* The sums that TokenEstimate makes, message by message.
Estimates(msgs) ==
  CHOOSE total : total =
    [n \in 0..Len(msgs) |->
       IF n = 0 THEN 0 ELSE total[n - 1] + Len(msgs[n].content) + OVERHEAD_PER_MSG]

\* The messages of a history or of a prompt: what an estimate looks at.
Texts == [role : {"user", "assistant", "system"}, content : Seq(Word)]

LEMMA EstimatesValues ==
  ASSUME NEW msgs \in Seq(Texts)
  PROVE  /\ TokenEstimate(msgs) = Estimates(msgs)[Len(msgs)]
         /\ Estimates(msgs)[0] = 0
         /\ \A n \in 1..Len(msgs) :
              Estimates(msgs)[n] = Estimates(msgs)[n - 1] + Len(msgs[n].content) + 4
         /\ \A n \in 0..Len(msgs) : Estimates(msgs)[n] \in Nat
<1> DEFINE Step(g, n) == IF n = 0 THEN 0
                         ELSE g[n - 1] + Len(msgs[n].content) + OVERHEAD_PER_MSG
           Defined == {m \in Nat : \E g : g = [n \in 0..m |-> Step(g, n)]}
           E == Estimates(msgs)
           Typed == {n \in Nat : n <= Len(msgs) => E[n] \in Nat}
<1>1. 0 \in Defined
  <2>1. [n \in 0..0 |-> 0] = [n \in 0..0 |-> Step([k \in 0..0 |-> 0], n)]
    OBVIOUS
  <2> QED
    BY <2>1
<1>2. ASSUME NEW m \in Nat, m \in Defined PROVE m + 1 \in Defined
  <2> SUFFICES \E g : g = [n \in 0..(m + 1) |-> Step(g, n)]
    <3> HIDE DEF Step
    <3> QED
      OBVIOUS
  <2>1. PICK g : g = [n \in 0..m |-> Step(g, n)]
    <3> HIDE DEF Step
    <3> QED
      BY <1>2
  <2> DEFINE h == [n \in 0..(m + 1) |-> IF n = m + 1 THEN Step(g, m + 1) ELSE g[n]]
  <2> HIDE DEF Step
  <2>2. \A n \in 0..(m + 1) : Step(h, n) = Step(g, n)
    BY DEF Step
  <2>3. \A n \in 0..m : g[n] = Step(g, n)
    BY <2>1
  <2>4. h = [n \in 0..(m + 1) |-> Step(h, n)]
    BY <2>2, <2>3
  <2> QED
    BY <2>4
<1>3. Len(msgs) \in Nat
  BY LenProperties
<1>4. \E g : g = [n \in 0..Len(msgs) |-> Step(g, n)]
  <2>1. Len(msgs) \in Defined
    <3> HIDE DEF Defined
    <3> QED
      BY <1>1, <1>2, <1>3, NatInductionOnSet
  <2> HIDE DEF Step
  <2> QED
    BY <2>1
<1>5. E = [n \in 0..Len(msgs) |->
             IF n = 0 THEN 0 ELSE E[n - 1] + Len(msgs[n].content) + OVERHEAD_PER_MSG]
  BY <1>4 DEF Estimates
<1>6. TokenEstimate(msgs) = E[Len(msgs)]
  BY DEF TokenEstimate, Estimates
<1> HIDE DEF E
<1>7. /\ E[0] = 0
      /\ \A n \in 1..Len(msgs) : E[n] = E[n - 1] + Len(msgs[n].content) + 4
  <2>1. \A n \in 0..Len(msgs) :
          E[n] = IF n = 0 THEN 0 ELSE E[n - 1] + Len(msgs[n].content) + OVERHEAD_PER_MSG
    BY <1>5
  <2>2. 0 \in 0..Len(msgs) /\ \A n \in 1..Len(msgs) : n \in 0..Len(msgs) /\ n # 0
    BY <1>3
  <2> QED
    BY <2>1, <2>2 DEF OVERHEAD_PER_MSG
<1>8. ASSUME NEW n \in Nat, n \in Typed PROVE n + 1 \in Typed
  <2> SUFFICES ASSUME n + 1 <= Len(msgs) PROVE E[n + 1] \in Nat
    OBVIOUS
  <2>1. E[n] \in Nat /\ n + 1 \in 1..Len(msgs) /\ (n + 1) - 1 = n
    BY <1>3, <1>8
  <2>2. msgs[n + 1] \in Texts
    BY <2>1, ElementOfSeq
  <2>3. Len(msgs[n + 1].content) \in Nat
    BY <2>2, LenProperties DEF Texts
  <2> QED
    BY <1>7, <2>1, <2>3
<1>9. 0 \in Typed
  BY <1>7
<1>10. \A n \in 0..Len(msgs) : E[n] \in Nat
  <2> HIDE DEF Typed
  <2>1. Nat \subseteq Typed
    BY <1>8, <1>9, NatInductionOnSet
  <2> QED
    BY <1>3, <2>1 DEF Typed
<1> QED
  BY <1>6, <1>7, <1>10 DEF E

\* An estimate counts every message, the more of them the more.
LEMMA EstimateIsNat ==
  ASSUME NEW msgs \in Seq(Texts)
  PROVE  /\ TokenEstimate(msgs) \in Nat
         /\ Len(msgs) = 1 => TokenEstimate(msgs) >= 4
<1>1. Len(msgs) \in Nat
  BY LenProperties
<1>2. Len(msgs) \in 0..Len(msgs)
  BY <1>1
<1>3. TokenEstimate(msgs) \in Nat
  BY <1>2, EstimatesValues
<1>4. ASSUME Len(msgs) = 1 PROVE TokenEstimate(msgs) >= 4
  <2>1. 1 \in 1..Len(msgs) /\ 1 - 1 = 0
    BY <1>4
  <2>2. TokenEstimate(msgs) = 0 + Len(msgs[1].content) + 4
    BY <1>4, <2>1, EstimatesValues
  <2>3. Len(msgs[1].content) \in Nat
    <3>1. msgs[1] \in Texts
      BY <2>1, ElementOfSeq
    <3> QED
      BY <3>1, LenProperties DEF Texts
  <2> QED
    BY <2>2, <2>3
<1> QED
  BY <1>3, <1>4

\* The estimate of two histories together is the sum of their estimates.
LEMMA EstimateOfConcat ==
  ASSUME NEW a \in Seq(Texts), NEW b \in Seq(Texts)
  PROVE  TokenEstimate(a \o b) = TokenEstimate(a) + TokenEstimate(b)
<1> DEFINE A == Estimates(a)
           B == Estimates(b)
           C == Estimates(a \o b)
           k == Len(a)
           m == Len(b)
<1>1. /\ a \o b \in Seq(Texts)
      /\ Len(a \o b) = k + m
      /\ \A i \in 1..k + m : (a \o b)[i] = IF i <= k THEN a[i] ELSE b[i - k]
  BY ConcatProperties
<1>2. k \in Nat /\ m \in Nat
  BY LenProperties
<1>3. /\ TokenEstimate(a) = A[k] /\ A[0] = 0
      /\ \A n \in 1..k : A[n] = A[n - 1] + Len(a[n].content) + 4
      /\ \A n \in 0..k : A[n] \in Nat
  BY EstimatesValues
<1>4. /\ TokenEstimate(b) = B[m] /\ B[0] = 0
      /\ \A n \in 1..m : B[n] = B[n - 1] + Len(b[n].content) + 4
      /\ \A n \in 0..m : B[n] \in Nat
  BY EstimatesValues
<1>5. /\ TokenEstimate(a \o b) = C[k + m] /\ C[0] = 0
      /\ \A n \in 1..k + m : C[n] = C[n - 1] + Len((a \o b)[n].content) + 4
  BY <1>1, EstimatesValues
<1>6. \A n \in 1..k : C[n] = C[n - 1] + Len(a[n].content) + 4
  <2>1. \A n \in 1..k : n \in 1..k + m /\ n <= k
    BY <1>2
  <2> QED
    BY <1>1, <1>5, <2>1
<1>7. \A n \in 1..m : C[k + n] = C[k + n - 1] + Len(b[n].content) + 4
  <2>1. \A n \in 1..m : k + n \in 1..k + m /\ ~(k + n <= k) /\ k + n - k = n
    BY <1>2
  <2> QED
    BY <1>1, <1>5, <2>1
<1> DEFINE Same == {n \in Nat : n <= k => C[n] = A[n]}
           Sum == {n \in Nat : n <= m => C[k + n] = A[k] + B[n]}
<1> HIDE DEF A, B, C, k, m
<1>8. Nat \subseteq Same
  <2>1. 0 \in Same
    BY <1>3, <1>5
  <2>2. ASSUME NEW n \in Nat, n \in Same PROVE n + 1 \in Same
    <3> SUFFICES ASSUME n + 1 <= k PROVE C[n + 1] = A[n + 1]
      OBVIOUS
    <3>1. n + 1 \in 1..k /\ (n + 1) - 1 = n /\ C[n] = A[n]
      BY <1>2, <2>2
    <3> QED
      BY <1>3, <1>6, <3>1
  <2> HIDE DEF Same
  <2> QED
    BY <2>1, <2>2, NatInductionOnSet
<1>9. C[k] = A[k]
  BY <1>2, <1>8
<1>10. Nat \subseteq Sum
  <2>1. 0 \in Sum
    <3>1. k + 0 = k /\ A[k] \in Nat /\ A[k] + 0 = A[k]
      <4>1. k \in 0..k
        BY <1>2
      <4>2. A[k] \in Nat
        BY <1>3, <4>1
      <4> QED
        BY <1>2, <4>2
    <3> QED
      BY <1>4, <1>9, <3>1
  <2>2. ASSUME NEW n \in Nat, n \in Sum PROVE n + 1 \in Sum
    <3> SUFFICES ASSUME n + 1 <= m PROVE C[k + (n + 1)] = A[k] + B[n + 1]
      OBVIOUS
    <3>1. /\ n + 1 \in 1..m /\ (n + 1) - 1 = n /\ k + (n + 1) - 1 = k + n
          /\ C[k + n] = A[k] + B[n]
          /\ n \in 0..m /\ k \in 0..k
      BY <1>2, <2>2
    <3>2. /\ C[k + (n + 1)] = C[k + n] + Len(b[n + 1].content) + 4
          /\ B[n + 1] = B[n] + Len(b[n + 1].content) + 4
      BY <1>4, <1>7, <3>1
    <3>3. Len(b[n + 1].content) \in Nat
      <4>1. b[n + 1] \in Texts
        BY <3>1, ElementOfSeq DEF m
      <4> QED
        BY <4>1, LenProperties DEF Texts
    <3>4. A[k] \in Nat /\ B[n] \in Nat
      BY <1>3, <1>4, <3>1
    <3>5. C[k + (n + 1)] = (A[k] + B[n]) + Len(b[n + 1].content) + 4
      BY <3>1, <3>2, Zenon
    <3>6. \A x, y, z \in Nat : (x + y) + z + 4 = x + (y + z + 4)
      OBVIOUS
    <3>7. (A[k] + B[n]) + Len(b[n + 1].content) + 4 = A[k] + (B[n] + Len(b[n + 1].content) + 4)
      <4>1. \A z \in Nat : (A[k] + B[n]) + z + 4 = A[k] + (B[n] + z + 4)
        BY <3>4, <3>6, Zenon
      <4> QED
        BY <3>3, <4>1, Zenon
    <3> QED
      BY <3>2, <3>5, <3>7, Zenon
  <2> HIDE DEF Sum
  <2> QED
    BY <2>1, <2>2, NatInductionOnSet
<1>11. C[k + m] = A[k] + B[m]
  BY <1>2, <1>10
<1> QED
  BY <1>3, <1>4, <1>5, <1>11

----------------------------------------------------------------------------
(* Trimming *)

\* The messages of a history are texts, and so is the system prompt.
LEMMA MessagesAreTexts ==
  /\ Message \subseteq Texts
  /\ \A text \in Questions : User(text) \in Message
  /\ \A text \in Answers : Assistant(text) \in Message
  /\ \A text \in Seq(Word) : System(text) \in Seq(Texts)
<1>1. Message \subseteq Texts
  BY ContentsTyped DEF Message, Texts
<1>2. /\ \A text \in Questions : User(text) \in Message
      /\ \A text \in Answers : Assistant(text) \in Message
  BY DEF Message, User, Assistant, Contents
<1>3. ASSUME NEW text \in Seq(Word) PROVE System(text) \in Seq(Texts)
  <2>1. [role |-> "system", content |-> text] \in Texts
    BY DEF Texts
  <2>2. <<[role |-> "system", content |-> text]>> \in Seq(Texts) /\ <<>> \in Seq(Texts)
    BY <2>1
  <2> QED
    BY <2>2 DEF System
<1> QED
  BY <1>1, <1>2, <1>3

\* What trim_history leaves of a history: all of it without a limit, nothing
\* without a budget, and else its longest end that fits, at least one message.
LEMMA TrimHistoryFacts ==
  ASSUME NEW msgs \in Seq(Message), msgs # <<>>, system_prompt \in Seq(Word)
  PROVE  /\ MaxContext = 0 => TrimHistory(msgs) = msgs
         /\ MaxContext # 0 /\ HistoryBudget = 0 => TrimHistory(msgs) = <<>>
         /\ MaxContext # 0 /\ HistoryBudget # 0 =>
              \E i \in 1..Len(msgs) :
                /\ TrimHistory(msgs) = SubSeq(msgs, i, Len(msgs))
                /\ i = Len(msgs) \/ TokenEstimate(SubSeq(msgs, i, Len(msgs))) <= HistoryBudget
                /\ i > 1 => ~(TokenEstimate(SubSeq(msgs, i - 1, Len(msgs))) <= HistoryBudget)
<1> DEFINE fits(i) == \/ i = Len(msgs)
                      \/ TokenEstimate(SubSeq(msgs, i, Len(msgs))) <= HistoryBudget
           T == {i \in 1..Len(msgs) : fits(i)}
<1>1. Len(msgs) \in Nat \ {0}
  BY EmptySeq
<1>2. Len(msgs) \in T /\ T \subseteq 1..Len(msgs)
  BY <1>1
<1>3. Min(T) \in T /\ \A q \in T : Min(T) <= q
  <2> HIDE DEF T
  <2> QED
    BY <1>1, <1>2, SmallestExists
<1>4. Min(T) > 1 => Min(T) - 1 \notin T /\ Min(T) - 1 \in 1..Len(msgs)
  <2>1. Min(T) \in 1..Len(msgs)
    BY <1>2, <1>3
  <2> HIDE DEF T
  <2> QED
    BY <1>1, <1>3, <2>1
<1>5. /\ Min(T) \in 1..Len(msgs)
      /\ fits(Min(T))
      /\ Min(T) > 1 => ~fits(Min(T) - 1)
  BY <1>3, <1>4
<1>6. MaxContext # 0 /\ HistoryBudget # 0 => TrimHistory(msgs) = SubSeq(msgs, Min(T), Len(msgs))
  BY DEF TrimHistory
<1> HIDE DEF T
<1>7. MaxContext # 0 /\ HistoryBudget # 0 =>
        \E i \in 1..Len(msgs) :
          /\ TrimHistory(msgs) = SubSeq(msgs, i, Len(msgs))
          /\ i = Len(msgs) \/ TokenEstimate(SubSeq(msgs, i, Len(msgs))) <= HistoryBudget
          /\ i > 1 => ~(TokenEstimate(SubSeq(msgs, i - 1, Len(msgs))) <= HistoryBudget)
  BY <1>5, <1>6
<1>8. MaxContext = 0 => TrimHistory(msgs) = msgs
  BY DEF TrimHistory
<1>9. MaxContext # 0 /\ HistoryBudget = 0 => TrimHistory(msgs) = <<>>
  BY DEF TrimHistory
<1> QED
  BY <1>7, <1>8, <1>9

\* A trimmed history is an end of it, without messages or with its last message.
LEMMA TrimHistoryKeepsTheEnd ==
  ASSUME NEW M, M \subseteq Message, NEW msgs \in Seq(M), msgs # <<>>,
         system_prompt \in Seq(Word)
  PROVE  /\ TrimHistory(msgs) \in Seq(M)
         /\ \/ /\ TrimHistory(msgs) = <<>>
               /\ MaxContext # 0 /\ HistoryBudget = 0
            \/ \E i \in 1..Len(msgs) :
                 /\ TrimHistory(msgs) = SubSeq(msgs, i, Len(msgs))
                 /\ Len(TrimHistory(msgs)) = Len(msgs) - i + 1
                 /\ \A j \in 1..Len(msgs) - i + 1 : TrimHistory(msgs)[j] = msgs[i + j - 1]
<1>1. Len(msgs) \in Nat \ {0} /\ msgs \in Seq(Message)
  BY EmptySeq, SeqMonotonic
<1>2. CASE MaxContext # 0 /\ HistoryBudget = 0
  <2>1. TrimHistory(msgs) = <<>>
    BY <1>1, <1>2, TrimHistoryFacts
  <2>2. TrimHistory(msgs) \in Seq(M)
    BY <2>1, EmptySeq
  <2> QED
    BY <1>2, <2>1, <2>2
<1>3. CASE ~(MaxContext # 0 /\ HistoryBudget = 0)
  <2>1. \E i \in 1..Len(msgs) : TrimHistory(msgs) = SubSeq(msgs, i, Len(msgs))
    <3>1. CASE MaxContext = 0
      <4>1. msgs = SubSeq(msgs, 1, Len(msgs))
        BY SubSeqFull
      <4>2. TrimHistory(msgs) = msgs
        BY <1>1, <3>1, TrimHistoryFacts
      <4>3. 1 \in 1..Len(msgs)
        BY <1>1
      <4> QED
        BY <4>1, <4>2, <4>3
    <3>2. CASE MaxContext # 0
      BY <1>1, <1>3, <3>2, TrimHistoryFacts
    <3> QED
      BY <3>1, <3>2
  <2>2. PICK i \in 1..Len(msgs) : TrimHistory(msgs) = SubSeq(msgs, i, Len(msgs))
    BY <2>1
  <2>3. /\ SubSeq(msgs, i, Len(msgs)) \in Seq(M)
        /\ Len(SubSeq(msgs, i, Len(msgs))) = Len(msgs) - i + 1
        /\ \A j \in 1..Len(msgs) - i + 1 : SubSeq(msgs, i, Len(msgs))[j] = msgs[i + j - 1]
    BY RestFacts
  <2> QED
    BY <2>2, <2>3
<1> QED
  BY <1>2, <1>3

----------------------------------------------------------------------------
(* The prompt of a turn *)

\* The messages of a history over a set of words.
MessageOf(words) == {msg \in Message : msg.content \in Seq(words)}

\* The history with a new question ends with it, unless there is no budget.
LEMMA AskedFacts ==
  ASSUME NEW words, messages \in Seq(MessageOf(words)), system_prompt \in Seq(Word),
         NEW question \in Questions, question \in Seq(words)
  PROVE  /\ Asked(question) \in Seq(MessageOf(words))
         /\ \/ Asked(question) = <<>> /\ MaxContext # 0 /\ HistoryBudget = 0
            \/ /\ Len(Asked(question)) > 0
               /\ Asked(question)[Len(Asked(question))] = User(question)
<1> DEFINE asked == Append(messages, User(question))
           M == MessageOf(words)
<1>1. User(question) \in M
  BY MessagesAreTexts DEF MessageOf, User
<1>2. /\ asked \in Seq(M) /\ asked # <<>> /\ Len(asked) = Len(messages) + 1
      /\ asked[Len(messages) + 1] = User(question)
  BY <1>1, AppendProperties
<1>3. M \subseteq Message /\ Asked(question) = TrimHistory(asked)
  BY DEF MessageOf, Asked
<1>4. Len(messages) \in Nat
  BY LenProperties
<1> HIDE DEF asked, M
<1>5. /\ TrimHistory(asked) \in Seq(M)
      /\ \/ /\ TrimHistory(asked) = <<>>
            /\ MaxContext # 0 /\ HistoryBudget = 0
         \/ \E i \in 1..Len(asked) :
              /\ TrimHistory(asked) = SubSeq(asked, i, Len(asked))
              /\ Len(TrimHistory(asked)) = Len(asked) - i + 1
              /\ \A j \in 1..Len(asked) - i + 1 : TrimHistory(asked)[j] = asked[i + j - 1]
  BY <1>2, <1>3, TrimHistoryKeepsTheEnd
<1>6. ASSUME NEW i \in 1..Len(asked),
             Len(TrimHistory(asked)) = Len(asked) - i + 1,
             \A j \in 1..Len(asked) - i + 1 : TrimHistory(asked)[j] = asked[i + j - 1]
      PROVE  /\ Len(TrimHistory(asked)) > 0
             /\ TrimHistory(asked)[Len(TrimHistory(asked))] = User(question)
  <2>1. /\ Len(asked) - i + 1 \in 1..Len(asked) - i + 1
        /\ i + (Len(asked) - i + 1) - 1 = Len(messages) + 1
        /\ Len(asked) - i + 1 > 0
    BY <1>2, <1>4
  <2> QED
    BY <1>2, <1>6, <2>1
<1>7. TrimHistory(asked) \in Seq(M)
  BY <1>5
<1> QED
  BY <1>3, <1>5, <1>6, <1>7 DEF M

\* The limit of turns keeps the last message.
LEMMA TrimmedMessagesFacts ==
  ASSUME NEW M, NEW msgs \in Seq(M), max_history_turns \in Nat
  PROVE  /\ TrimmedMessages(msgs) \in Seq(M)
         /\ Len(msgs) > 0 =>
              /\ Len(TrimmedMessages(msgs)) > 0
              /\ TrimmedMessages(msgs)[Len(TrimmedMessages(msgs))] = msgs[Len(msgs)]
<1> DEFINE i == Len(msgs) - 2 * max_history_turns + 1
<1>1. Len(msgs) \in Nat
  BY LenProperties
<1>2. CASE max_history_turns > 0 /\ Len(msgs) > 2 * max_history_turns
  <2>1. i \in 1..Len(msgs)
    BY <1>1, <1>2
  <2>2. TrimmedMessages(msgs) = SubSeq(msgs, i, Len(msgs))
    BY <1>2 DEF TrimmedMessages
  <2> HIDE DEF i
  <2>3. /\ SubSeq(msgs, i, Len(msgs)) \in Seq(M)
        /\ Len(SubSeq(msgs, i, Len(msgs))) = Len(msgs) - i + 1
        /\ \A j \in 1..Len(msgs) - i + 1 : SubSeq(msgs, i, Len(msgs))[j] = msgs[i + j - 1]
    BY <2>1, RestFacts
  <2>4. /\ Len(msgs) - i + 1 \in 1..Len(msgs) - i + 1
        /\ i + (Len(msgs) - i + 1) - 1 = Len(msgs)
        /\ Len(msgs) - i + 1 > 0
    BY <1>1, <2>1
  <2> QED
    BY <2>2, <2>3, <2>4
<1>3. CASE ~(max_history_turns > 0 /\ Len(msgs) > 2 * max_history_turns)
  BY <1>3 DEF TrimmedMessages
<1> QED
  BY <1>2, <1>3

\* The prompt of a turn has words of the system prompt, of the history and of
\* the question and the markers; it closes with the question when there is a
\* budget for the history.
LEMMA PromptFacts ==
  ASSUME NEW words, Markers \subseteq words,
         system_prompt \in Seq(Word), system_prompt \in Seq(words),
         messages \in Seq(MessageOf(words)), max_history_turns \in Nat,
         NEW question \in Questions, question \in Seq(words)
  PROVE  /\ PromptTokens(question) \in Seq(words)
         /\ MaxContext = 0 \/ HistoryBudget # 0 =>
              IsSuffix(Closing(question), PromptTokens(question))
<1> DEFINE asked == Asked(question)
           trimmed == TrimmedMessages(asked)
           all == System(system_prompt) \o trimmed
           B == BuildPrompt(asked)
           budget == MaxContext = 0 \/ HistoryBudget # 0
           last == <<"user">> \o question \o <<"end">>
           W == Worded(words)
<1>1. /\ asked \in Seq(MessageOf(words))
      /\ budget => Len(asked) > 0 /\ asked[Len(asked)] = User(question)
  BY AskedFacts
<1>2. MessageOf(words) \subseteq W
  BY DEF MessageOf, Message, Worded
<1>3. System(system_prompt) \in Seq(W)
  <2>1. [role |-> "system", content |-> system_prompt] \in W
    BY DEF Worded
  <2> HIDE DEF W
  <2>2. <<[role |-> "system", content |-> system_prompt]>> \in Seq(W) /\ <<>> \in Seq(W)
    BY <2>1
  <2> QED
    BY <2>2 DEF System
<1> HIDE DEF asked, W
<1>4. /\ trimmed \in Seq(MessageOf(words))
      /\ budget => Len(trimmed) > 0 /\ trimmed[Len(trimmed)] = User(question)
  BY <1>1, TrimmedMessagesFacts
<1> HIDE DEF trimmed
<1>5. /\ all \in Seq(W)
      /\ budget => Len(all) > 0 /\ all[Len(all)] = User(question)
  <2>1. trimmed \in Seq(W)
    BY <1>2, <1>4, SeqMonotonic
  <2> DEFINE sys == System(system_prompt)
  <2> HIDE DEF sys
  <2>2. /\ sys \o trimmed \in Seq(W)
        /\ Len(sys \o trimmed) = Len(sys) + Len(trimmed)
        /\ \A i \in 1..Len(sys) + Len(trimmed) :
             (sys \o trimmed)[i] = IF i <= Len(sys) THEN sys[i] ELSE trimmed[i - Len(sys)]
    BY <1>3, <2>1, ConcatProperties DEF sys
  <2>3. Len(sys) \in Nat /\ Len(trimmed) \in Nat
    BY <1>3, <2>1, LenProperties DEF sys
  <2>4. Len(trimmed) > 0 =>
          /\ Len(sys) + Len(trimmed) \in 1..Len(sys) + Len(trimmed)
          /\ ~(Len(sys) + Len(trimmed) <= Len(sys))
          /\ Len(sys) + Len(trimmed) - Len(sys) = Len(trimmed)
          /\ Len(sys) + Len(trimmed) > 0
    BY <2>3
  <2> QED
    BY <1>4, <2>2, <2>4 DEF sys
<1>6. B = Format(all)
  BY DEF BuildPrompt, asked, trimmed
<1> HIDE DEF all, B
<1>7. last \in Seq(words)
  <2>1. <<"user">> \in Seq(words) /\ <<"end">> \in Seq(words)
    BY DEF Markers
  <2> QED
    BY <2>1
<1>8. /\ B \in Seq(words)
      /\ budget => \E before \in Seq(words) : B = (before \o last) \o <<"assistant">>
  <2>1. /\ Format(all) \in Seq(words)
        /\ Len(all) > 0 =>
             \E before \in Seq(words) :
               Format(all) = (before \o (<<all[Len(all)].role>> \o all[Len(all)].content \o <<"end">>))
                               \o <<"assistant">>
    BY <1>5, FormatFacts DEF W
  <2>2. User(question).role = "user" /\ User(question).content = question
    BY DEF User
  <2> QED
    BY <1>5, <1>6, <2>1, <2>2
<1>9. PromptTokens(question) = Format(<<User(B)>>)
  BY DEF PromptTokens, FormatPrompt, User, B, asked
<1>10. /\ <<User(B)>> \in Seq(Worded(words)) /\ Len(<<User(B)>>) = 1
       /\ <<User(B)>>[1].role = "user" /\ <<User(B)>>[1].content = B
  <2>1. User(B) \in Worded(words)
    BY <1>8 DEF User, Worded
  <2> QED
    BY <2>1 DEF User
<1>11. /\ PromptTokens(question) \in Seq(words)
       /\ PromptTokens(question) = (<<"user">> \o B \o <<"end">>) \o <<"assistant">>
  <2> DEFINE one == <<User(B)>>
  <2>1. one \in Seq(Worded(words)) /\ Len(one) = 1 /\ one[1].role = "user" /\ one[1].content = B
    BY <1>10
  <2> HIDE DEF one
  <2>2. /\ Format(one) \in Seq(words)
        /\ Len(one) > 0 => (Len(one) = 1 =>
             Format(one) = (<<one[Len(one)].role>> \o one[Len(one)].content \o <<"end">>) \o <<"assistant">>)
    BY <2>1, FormatFacts
  <2>3. Len(one) > 0
    BY <2>1
  <2>4. Format(one) = (<<one[1].role>> \o one[1].content \o <<"end">>) \o <<"assistant">>
    BY <2>1, <2>2, <2>3, Zenon
  <2>5. PromptTokens(question) = Format(one)
    BY <1>9 DEF one
  <2> QED
    BY <2>1, <2>2, <2>4, <2>5, Zenon
<1>12. ASSUME budget PROVE IsSuffix(Closing(question), PromptTokens(question))
  <2>1. PICK before \in Seq(words) : B = (before \o last) \o <<"assistant">>
    BY <1>8, <1>12
  <2> DEFINE u == <<"user">>
             e == <<"end">>
             a == <<"assistant">>
  <2>2. u \in Seq(words) /\ e \in Seq(words) /\ a \in Seq(words)
    BY DEF Markers
  <2>3. ((e \o a) \o e) \o a = <<"end", "assistant", "end", "assistant">>
    <3>1. "end" \in words /\ "assistant" \in words
      BY DEF Markers
    <3> QED
      BY <3>1, ConcatFour
  <2> HIDE DEF u, e, a
  <2>4. PromptTokens(question)
          = ((u \o ((before \o (u \o question \o e)) \o a)) \o e) \o a
    BY <1>11, <2>1 DEF u, e, a
  <2>5. PromptTokens(question)
          = (u \o before) \o ((u \o question) \o (((e \o a) \o e) \o a))
    <3>1. \A v, b, t, f, i \in Seq(words) : Around(v, b, t, f, i) = Behind(v, b, t, f, i)
      BY Regrouped
    <3>2. before \in Seq(words) /\ question \in Seq(words)
      OBVIOUS
    <3> DEFINE Equal(v, b, t, f, i) == Around(v, b, t, f, i) = Behind(v, b, t, f, i)
               D == Seq(words)
    <3>3. Equal(u, before, question, e, a)
      <4>1. /\ u \in D /\ before \in D /\ question \in D /\ e \in D /\ a \in D
            /\ \A v, b, t, f, i \in D : Equal(v, b, t, f, i)
        BY <2>2, <3>1, <3>2
      <4> HIDE DEF Equal, D
      <4>2. \A t, f, i \in D : Equal(u, before, t, f, i)
        BY <4>1
      <4> QED
        BY <4>1, <4>2
    <3> QED
      BY <2>4, <3>3 DEF Around, Behind
  <2>6. Closing(question) = (u \o question) \o (((e \o a) \o e) \o a)
    BY <2>3 DEF Closing, u
  <2>7. u \o before \in Seq(words)
    BY <2>2, ConcatProperties
  <2>8. Closing(question) \in Seq(words)
    <3>1. /\ u \o question \in Seq(words)
          /\ e \o a \in Seq(words)
      BY <2>2, ConcatProperties
    <3>2. (e \o a) \o e \in Seq(words)
      BY <2>2, <3>1, ConcatProperties
    <3>3. ((e \o a) \o e) \o a \in Seq(words)
      BY <2>2, <3>2, ConcatProperties
    <3> QED
      BY <2>6, <3>1, <3>3, ConcatProperties
  <2> QED
    BY <2>5, <2>6, <2>7, <2>8, SuffixOfConcat
<1> QED
  BY <1>11, <1>12

----------------------------------------------------------------------------
(* The session and its context *)

\* The fields of the session and of a session file.
SessionTypes ==
  /\ system_prompt \in SystemPrompts \cup {None}
  /\ messages \in Seq(Message)
  /\ max_history_turns \in {0, MaxTurns}
  /\ kv_cache_state \in Nat
  /\ saved \in [readable : BOOLEAN, system_prompt : SystemPrompts \cup {None},
                messages : Seq(Message)]

\* The context: its count is the number of its tokens, which fit.
ContextInv ==
  /\ kv \in Seq(Word)
  /\ CachedTokensAreInCache
  /\ Len(kv) <= NCtx

SessionInv == SessionTypes /\ ContextInv

\* What the types say of the arguments of the lemmas above.
LEMMA SessionFacts ==
  ASSUME SessionTypes
  PROVE  /\ system_prompt \in Seq(Word)
         /\ max_history_turns \in Nat
         /\ messages \in Seq(MessageOf(Word))
         /\ Questions \subseteq Seq(Word)
         /\ MessageOf(Word) = Message
         /\ Markers \subseteq Word
         /\ AnswerWords \subseteq Word
<1>1. MessageOf(Word) = Message
  <2>1. \A msg \in Message : msg.content \in Seq(Word)
    BY ContentsTyped DEF Message
  <2> QED
    BY <2>1 DEF MessageOf
<1>2. Questions \subseteq Seq(Word)
  BY ContentsTyped DEF Contents
<1>3. Markers \subseteq Word /\ AnswerWords \subseteq Word
  BY DEF Word
<1>4. system_prompt \in Seq(Word) /\ max_history_turns \in Nat
  BY ContentsTyped, SessionAssumption DEF SessionTypes
<1>5. messages \in Seq(MessageOf(Word))
  BY <1>1 DEF SessionTypes
<1> QED
  BY <1>1, <1>2, <1>3, <1>4, <1>5, Zenon

\* The history of a turn, its prompt and the outcome of its call.
LEMMA TurnFacts ==
  ASSUME SessionInv, NEW question \in Questions
  PROVE  /\ Asked(question) \in Seq(Message)
         /\ \/ Asked(question) = <<>>
            \/ /\ Len(Asked(question)) > 0
               /\ Asked(question)[Len(Asked(question))] = User(question)
         /\ PromptTokens(question) \in Seq(Word)
         /\ \A outcome \in InferIncremental(PromptTokens(question), kv_cache_state) :
              /\ Sound(outcome, Word)
              /\ kv_cache_state = 0 /\ outcome.ok =>
                   outcome.kv = PromptTokens(question) \o Decoded(outcome.text)
<1>1. SessionTypes /\ ContextInv
  BY DEF SessionInv
<1>2. /\ Asked(question) \in Seq(Message)
      /\ \/ Asked(question) = <<>>
         \/ /\ Len(Asked(question)) > 0
            /\ Asked(question)[Len(Asked(question))] = User(question)
  BY <1>1, SessionFacts, AskedFacts
<1>3. PromptTokens(question) \in Seq(Word)
  BY <1>1, SessionFacts, PromptFacts
<1>4. kv_cache_state \in Nat /\ kv \in Seq(Word) /\ cached_tokens = Len(kv) /\ Len(kv) <= NCtx
  BY <1>1 DEF SessionTypes, ContextInv, CachedTokensAreInCache
<1>5. AnswerWords \subseteq Word
  BY DEF Word
<1>6. \A outcome \in InferIncremental(PromptTokens(question), kv_cache_state) :
        /\ Sound(outcome, Word)
        /\ kv_cache_state = 0 /\ outcome.ok =>
             outcome.kv = PromptTokens(question) \o Decoded(outcome.text)
  BY <1>3, <1>4, <1>5, InferIncrementalIsSound
<1> QED
  BY <1>2, <1>3, <1>6

\* The context after a call that is sound.
LEMMA ContextAfterCall ==
  ASSUME NEW outcome, Sound(outcome, Word), ContextAfter(outcome)
  PROVE  ContextInv'
BY DEF Sound, ContextAfter, ContextInv, CachedTokensAreInCache

LEMMA SessionInit == Init => SessionInv
<1> SUFFICES ASSUME Init PROVE SessionInv
  OBVIOUS
<1>1. SessionTypes
  <2>1. saved \in [readable : BOOLEAN, system_prompt : SystemPrompts \cup {None},
                   messages : Seq(Message)]
    BY EmptySeq DEF Init, NoSession
  <2> QED
    BY <2>1, EmptySeq DEF Init, SessionTypes
<1>2. ContextInv
  BY EmptySeq, ContextAssumption DEF Init, ContextInit, ContextInv, CachedTokensAreInCache
<1> QED
  BY <1>1, <1>2 DEF SessionInv

\* A turn of the session keeps the invariant.
LEMMA TurnKeepsSession ==
  ASSUME SessionInv, NEW question \in Questions,
         \/ ChatAnswered(question) \/ ChatFailed(question)
         \/ ChatRefused(question) \/ ChatStream(question)
  PROVE  SessionInv'
<1>1. SessionTypes /\ ContextInv
  BY DEF SessionInv
<1>2. Asked(question) \in Seq(Message) /\ PromptTokens(question) \in Seq(Word)
  BY TurnFacts
<1>3. \A text \in Answers : Append(Asked(question), Assistant(text)) \in Seq(Message)
  BY <1>2, MessagesAreTexts, AppendProperties
<1>4. CASE ChatAnswered(question)
  <2>1. PICK outcome \in InferIncremental(PromptTokens(question), kv_cache_state) :
          /\ outcome.ok
          /\ ContextAfter(outcome)
          /\ messages' = Append(Asked(question), Assistant(outcome.text))
          /\ kv_cache_state' = NewCached(PromptTokens(question), outcome.text)
    BY <1>4 DEF ChatAnswered
  <2>2. Sound(outcome, Word) /\ outcome.text \in Answers
    BY <2>1, TurnFacts DEF Sound
  <2>3. NewCached(PromptTokens(question), outcome.text) \in Nat
    <3>1. Len(PromptTokens(question)) \in Nat
      BY <1>2, LenProperties
    <3>2. Len(outcome.text) \in Nat
      BY <2>2, AnswerFacts, LenProperties
    <3> QED
      BY <3>1, <3>2 DEF NewCached
  <2>4. ContextInv'
    BY <2>1, <2>2, ContextAfterCall
  <2>5. SessionTypes'
    BY <1>1, <1>3, <1>4, <2>1, <2>2, <2>3 DEF SessionTypes, ChatAnswered
  <2> QED
    BY <2>4, <2>5 DEF SessionInv
<1>5. CASE ChatFailed(question)
  <2>1. PICK outcome \in InferIncremental(PromptTokens(question), kv_cache_state) :
          ContextAfter(outcome)
    BY <1>5 DEF ChatFailed
  <2>2. ContextInv'
    BY <2>1, TurnFacts, ContextAfterCall
  <2>3. SessionTypes'
    BY <1>1, <1>2, <1>5 DEF SessionTypes, ChatFailed
  <2> QED
    BY <2>2, <2>3 DEF SessionInv
<1>6. CASE ChatRefused(question)
  <2>1. ContextInv'
    BY <1>1, <1>6 DEF ChatRefused, ContextInv, CachedTokensAreInCache, contextVars
  <2>2. SessionTypes'
    BY <1>1, <1>2, <1>6 DEF SessionTypes, ChatRefused
  <2> QED
    BY <2>1, <2>2 DEF SessionInv
<1>7. CASE ChatStream(question)
  <2>1. ContextInv'
    BY <1>1, <1>7 DEF ChatStream, ContextInv, CachedTokensAreInCache, contextVars
  <2>2. messages' \in Seq(Message)
    BY <1>2, <1>3, <1>7 DEF ChatStream
  <2>3. SessionTypes'
    BY <1>1, <1>7, <2>2 DEF SessionTypes, ChatStream
  <2> QED
    BY <2>1, <2>3 DEF SessionInv
<1> QED
  BY <1>4, <1>5, <1>6, <1>7

\* The operations between the turns.
LEMMA CommandKeepsSession ==
  ASSUME SessionInv,
         \/ \E prompt \in SystemPrompts \cup {None} : SetSystemPrompt(prompt)
         \/ Clear \/ Reset \/ Save \/ Load \/ SwitchModel
  PROVE  SessionInv'
<1>1. SessionTypes /\ ContextInv
  BY DEF SessionInv
<1>2. <<>> \in Seq(Message) /\ <<>> \in Seq(Word) /\ Len(<<>>) = 0 /\ 0 <= NCtx
  BY EmptySeq, ContextAssumption
<1>3. ASSUME NEW prompt \in SystemPrompts \cup {None}, SetSystemPrompt(prompt) PROVE SessionInv'
  BY <1>1, <1>3 DEF SessionInv, SessionTypes, ContextInv, CachedTokensAreInCache,
                    SetSystemPrompt, contextVars
<1>4. CASE Clear
  BY <1>1, <1>2, <1>4 DEF SessionInv, SessionTypes, ContextInv, CachedTokensAreInCache,
                          Clear, Cleared, contextVars
<1>5. CASE Reset
  BY <1>1, <1>2, <1>5 DEF SessionInv, SessionTypes, ContextInv, CachedTokensAreInCache,
                          Reset, Cleared, contextVars
<1>6. CASE Save
  <2>1. /\ [readable |-> TRUE, system_prompt |-> system_prompt, messages |-> messages]
             \in [readable : BOOLEAN, system_prompt : SystemPrompts \cup {None},
                  messages : Seq(Message)]
        /\ NoSession \in [readable : BOOLEAN, system_prompt : SystemPrompts \cup {None},
                          messages : Seq(Message)]
    BY <1>1, <1>2 DEF SessionTypes, NoSession
  <2>2. SessionTypes'
    BY <1>1, <1>6, <2>1 DEF SessionTypes, Save, sessionVars
  <2>3. ContextInv'
    BY <1>1, <1>6 DEF ContextInv, CachedTokensAreInCache, Save, contextVars
  <2> QED
    BY <2>2, <2>3 DEF SessionInv
<1>7. CASE Load
  <2>1. SessionTypes'
    BY <1>1, <1>7 DEF SessionTypes, Load
  <2>2. ContextInv'
    BY <1>1, <1>7 DEF ContextInv, CachedTokensAreInCache, Load, contextVars
  <2> QED
    BY <2>1, <2>2 DEF SessionInv
<1>8. CASE SwitchModel
  BY <1>1, <1>2, <1>8 DEF SessionInv, SessionTypes, ContextInv, CachedTokensAreInCache,
                          SwitchModel, NewContext, Cleared
<1> QED
  BY <1>3, <1>4, <1>5, <1>6, <1>7, <1>8

LEMMA SessionStep == SessionInv /\ [Next]_vars => SessionInv'
<1> SUFFICES ASSUME SessionInv, [Next]_vars PROVE SessionInv'
  OBVIOUS
<1>1. CASE UNCHANGED vars
  BY <1>1 DEF SessionInv, SessionTypes, ContextInv, CachedTokensAreInCache, vars,
              sessionVars, contextVars
<1>2. CASE Next
  BY <1>2, TurnKeepsSession, CommandKeepsSession DEF Next
<1> QED
  BY <1>1, <1>2

\* The count of cached tokens is the number of tokens in the KV cache, after
\* every path of infer and infer_incremental (CachedTokensAreInCache).
THEOREM CountedTokensAreInCache == Spec => []CachedTokensAreInCache
<1>1. SessionInv => CachedTokensAreInCache
  BY DEF SessionInv, ContextInv
<1> QED
  BY <1>1, SessionInit, SessionStep, PTL DEF Spec

\* The variables hold what the fields of the session and of the context can hold
\* (TypeOK).
THEOREM SessionIsTyped == Spec => []TypeOK
<1>1. SessionInv => TypeOK
  <2> SUFFICES ASSUME SessionInv PROVE TypeOK
    OBVIOUS
  <2>1. SessionTypes /\ ContextInv
    BY DEF SessionInv
  <2>2. \A i \in DOMAIN messages : /\ messages[i].role \in {"user", "assistant"}
                                   /\ messages[i].content \in Contents
    <3>1. \A i \in DOMAIN messages : messages[i] \in Message
      BY <2>1 DEF SessionTypes
    <3> QED
      BY <3>1 DEF Message
  <2>3. cached_tokens \in Nat /\ Len(kv) <= NCtx
    BY <2>1, LenProperties DEF ContextInv, CachedTokensAreInCache
  <2> QED
    BY <2>1, <2>2, <2>3 DEF SessionTypes, TypeOK
<1> QED
  BY <1>1, SessionInit, SessionStep, PTL DEF Spec

\* A turn that starts with count 0 is answered on exactly its own prompt,
\* whatever is left in the cache by the turns before it (FreshTurnIsExact).
THEOREM FreshTurnHasItsPrompt == Spec => []FreshTurnIsExact
<1>1. Init => FreshTurnIsExact
  BY DEF Init, NoCall, FreshTurnIsExact
<1>2. ASSUME SessionInv, FreshTurnIsExact, [Next]_vars PROVE FreshTurnIsExact'
  <2>1. ASSUME NEW question \in Questions, ChatAnswered(question) PROVE FreshTurnIsExact'
    <3>1. PICK outcome \in InferIncremental(PromptTokens(question), kv_cache_state) :
            /\ outcome.ok
            /\ ContextAfter(outcome)
            /\ call' = Call("chat", question, TRUE, outcome.text)
      BY <2>1 DEF ChatAnswered
    <3>2. kv_cache_state = 0 => outcome.kv = PromptTokens(question) \o Decoded(outcome.text)
      BY <1>2, <3>1, TurnFacts
    <3>3. /\ call'.count = kv_cache_state /\ call'.prompt = PromptTokens(question)
          /\ call'.text = outcome.text /\ kv' = outcome.kv
      BY <3>1 DEF Call, ContextAfter
    <3> QED
      BY <3>2, <3>3 DEF FreshTurnIsExact
  <2>2. ASSUME NEW question \in Questions, ChatFailed(question) PROVE FreshTurnIsExact'
    BY <2>2 DEF ChatFailed, Call, FreshTurnIsExact
  <2>3. ASSUME NEW question \in Questions, ChatRefused(question) PROVE FreshTurnIsExact'
    BY <2>3 DEF ChatRefused, Call, FreshTurnIsExact
  <2>4. ASSUME NEW question \in Questions, ChatStream(question) PROVE FreshTurnIsExact'
    BY <2>4 DEF ChatStream, Call, FreshTurnIsExact
  <2>5. CASE \/ \E prompt \in SystemPrompts \cup {None} : SetSystemPrompt(prompt)
             \/ Clear \/ Reset \/ Save \/ Load \/ SwitchModel
    <3>1. call' = NoCall
      BY <2>5 DEF SetSystemPrompt, Clear, Reset, Save, Load, SwitchModel, Cleared
    <3> QED
      BY <3>1 DEF NoCall, FreshTurnIsExact
  <2>6. CASE UNCHANGED vars
    BY <1>2, <2>6 DEF vars, contextVars, FreshTurnIsExact
  <2> QED
    BY <1>2, <2>1, <2>2, <2>3, <2>4, <2>5, <2>6 DEF Next
<1> QED
  BY <1>1, <1>2, SessionInit, SessionStep, PTL DEF Spec

\* Every turn that is recorded is one of a question asked with the history and
\* the system prompt of now; any other step records none.
LEMMA CallOfStep ==
  ASSUME Next
  PROVE  \/ call' = NoCall
         \/ \E question \in Questions, via \in {"chat", "refused", "stream"},
               ok \in BOOLEAN : \E text :
              /\ call' = Call(via, question, ok, text)
              /\ system_prompt' = system_prompt
<1>1. CASE \/ \E prompt \in SystemPrompts \cup {None} : SetSystemPrompt(prompt)
           \/ Clear \/ Reset \/ Save \/ Load \/ SwitchModel
  BY <1>1 DEF SetSystemPrompt, Clear, Reset, Save, Load, SwitchModel, Cleared
<1>2. ASSUME NEW question \in Questions,
             \/ ChatAnswered(question) \/ ChatFailed(question)
             \/ ChatRefused(question) \/ ChatStream(question)
      PROVE  \E via \in {"chat", "refused", "stream"}, ok \in BOOLEAN : \E text :
               /\ call' = Call(via, question, ok, text)
               /\ system_prompt' = system_prompt
  BY <1>2 DEF ChatAnswered, ChatFailed, ChatRefused, ChatStream
<1> QED
  BY <1>1, <1>2 DEF Next

\* The budget depends on the system prompt alone.
LEMMA BudgetIsKept ==
  ASSUME system_prompt' = system_prompt
  PROVE  HistoryBudget' = HistoryBudget
BY DEF HistoryBudget

\* Whatever trimming and the limit of turns drop, the prompt of a turn closes
\* with its question when there is room for any history (QuestionClosesPrompt).
THEOREM PromptAsksTheQuestion == Spec => []QuestionClosesPrompt
<1>1. Init => QuestionClosesPrompt
  BY DEF Init, NoCall, QuestionClosesPrompt
<1>2. ASSUME SessionInv, QuestionClosesPrompt, [Next]_vars PROVE QuestionClosesPrompt'
  <2>1. CASE UNCHANGED vars
    <3>1. call' = call /\ system_prompt' = system_prompt
      BY <2>1 DEF vars, sessionVars
    <3> QED
      BY <1>2, <3>1, BudgetIsKept DEF QuestionClosesPrompt
  <2>2. CASE call' = NoCall
    BY <2>2 DEF NoCall, QuestionClosesPrompt
  <2>3. ASSUME NEW question \in Questions, NEW via, NEW ok, NEW text,
               call' = Call(via, question, ok, text),
               system_prompt' = system_prompt
        PROVE  QuestionClosesPrompt'
    <3>1. call'.question = question /\ call'.prompt = PromptTokens(question)
      BY <2>3 DEF Call
    <3>2. MaxContext = 0 \/ HistoryBudget # 0 =>
            IsSuffix(Closing(question), PromptTokens(question))
      BY <1>2, SessionFacts, PromptFacts DEF SessionInv
    <3>3. HistoryBudget' > 0 => HistoryBudget # 0
      BY <2>3, BudgetIsKept
    <3> QED
      BY <3>1, <3>2, <3>3 DEF QuestionClosesPrompt
  <2> QED
    BY <1>2, <2>1, <2>2, <2>3, CallOfStep
<1> QED
  BY <1>1, <1>2, SessionInit, SessionStep, PTL DEF Spec

----------------------------------------------------------------------------
(* The words of a conversation *)

\* The words that may be in the history of a conversation, and in the cache as
\* long as the session believes in it.
Spoken == conversation \cup AnswerWords
Known == Spoken \cup Range(system_prompt) \cup Markers

\* The invariant: neither the history nor the cache the session believes in has
\* a word from elsewhere.  The history is needed for the prompts to come.
OwnWords ==
  /\ messages \in Seq(MessageOf(Spoken))
  /\ kv_cache_state > 0 => kv \in Seq(Known)

LEMMA MoreWords ==
  ASSUME NEW A, NEW B, A \subseteq B
  PROVE  /\ Seq(A) \subseteq Seq(B)
         /\ Seq(MessageOf(A)) \subseteq Seq(MessageOf(B))
<1>1. Seq(A) \subseteq Seq(B)
  BY SeqMonotonic
<1>2. MessageOf(A) \subseteq MessageOf(B)
  BY <1>1 DEF MessageOf
<1> QED
  BY <1>1, <1>2, SeqMonotonic

\* A turn speaks of the conversation with the words of its question.
LEMMA TurnWords ==
  ASSUME SessionInv, OwnWords, NEW question \in Questions,
         conversation' = conversation \cup Range(question),
         system_prompt' = system_prompt
  PROVE  /\ Asked(question) \in Seq(MessageOf(Spoken'))
         /\ \A text \in Answers :
              Append(Asked(question), Assistant(text)) \in Seq(MessageOf(Spoken'))
         /\ kv_cache_state > 0 => kv \in Seq(Known')
         /\ \A outcome \in InferIncremental(PromptTokens(question), kv_cache_state) :
              outcome.kv \in Seq(Known')
<1>1. Spoken \subseteq Spoken' /\ Known \subseteq Known' /\ Spoken' \subseteq Known'
  BY DEF Spoken, Known
<1>2. question \in Seq(Spoken') /\ question \in Seq(Known')
  <2>1. question \in Seq(Word)
    BY ContentsTyped DEF Contents
  <2>2. question \in Seq(Range(question))
    BY <2>1, SeqOfRange
  <2>3. Range(question) \subseteq Spoken' /\ Range(question) \subseteq Known'
    BY DEF Spoken, Known
  <2> QED
    BY <2>2, <2>3, SeqMonotonic
<1>3. messages \in Seq(MessageOf(Spoken')) /\ messages \in Seq(MessageOf(Known'))
  <2>1. messages \in Seq(MessageOf(Spoken))
    BY DEF OwnWords
  <2>2. messages \in Seq(MessageOf(Spoken'))
    BY <1>1, <2>1, MoreWords
  <2> QED
    BY <1>1, <2>2, MoreWords
<1>4. /\ system_prompt \in Seq(Word) /\ max_history_turns \in Nat
      /\ SessionTypes /\ ContextInv
  BY SessionFacts DEF SessionInv
<1>5. Asked(question) \in Seq(MessageOf(Spoken'))
  BY <1>2, <1>3, <1>4, AskedFacts
<1>6. ASSUME NEW text \in Answers
      PROVE  Append(Asked(question), Assistant(text)) \in Seq(MessageOf(Spoken'))
  <2>1. text \in Seq(Spoken')
    <3>1. text \in Seq(AnswerWords) /\ AnswerWords \subseteq Spoken'
      BY AnswerFacts DEF Spoken
    <3> QED
      BY <3>1, SeqMonotonic
  <2>2. Assistant(text) \in MessageOf(Spoken')
    BY <2>1, MessagesAreTexts DEF MessageOf, Assistant
  <2> QED
    BY <1>5, <2>2, AppendProperties
<1>7. kv_cache_state > 0 => kv \in Seq(Known')
  BY <1>1, MoreWords DEF OwnWords
<1>8. PromptTokens(question) \in Seq(Known')
  <2>1. system_prompt \in Seq(Known')
    <3>1. system_prompt \in Seq(Range(system_prompt))
      BY <1>4, SeqOfRange
    <3>2. Range(system_prompt) \subseteq Known'
      BY DEF Known
    <3> QED
      BY <3>1, <3>2, SeqMonotonic
  <2>2. Markers \subseteq Known'
    BY DEF Known
  <2> QED
    BY <1>2, <1>3, <1>4, <2>1, <2>2, PromptFacts
<1>9. ASSUME NEW outcome \in InferIncremental(PromptTokens(question), kv_cache_state)
      PROVE  outcome.kv \in Seq(Known')
  <2>1. /\ kv_cache_state \in Nat /\ kv \in Seq(Word)
        /\ cached_tokens = Len(kv) /\ Len(kv) <= NCtx
    BY <1>4 DEF SessionTypes, ContextInv, CachedTokensAreInCache
  <2>2. AnswerWords \subseteq Known'
    BY DEF Known, Spoken
  <2>3. Sound(outcome, Known')
    BY <1>7, <1>8, <2>1, <2>2, InferIncrementalIsSound
  <2> QED
    BY <2>3 DEF Sound
<1> QED
  BY <1>5, <1>6, <1>7, <1>9

LEMMA OwnWordsStep == SessionInv /\ OwnWords /\ [Next]_vars => OwnWords'
<1> SUFFICES ASSUME SessionInv, OwnWords, [Next]_vars PROVE OwnWords'
  OBVIOUS
<1>1. ASSUME NEW question \in Questions, ChatAnswered(question) PROVE OwnWords'
  <2>1. PICK outcome \in InferIncremental(PromptTokens(question), kv_cache_state) :
          /\ outcome.ok
          /\ ContextAfter(outcome)
          /\ messages' = Append(Asked(question), Assistant(outcome.text))
    BY <1>1 DEF ChatAnswered
  <2>2. conversation' = conversation \cup Range(question) /\ system_prompt' = system_prompt
    BY <1>1 DEF ChatAnswered
  <2>3. outcome.text \in Answers
    BY <2>1, TurnFacts DEF Sound
  <2>4. kv' \in Seq(Known')
    BY <2>1, <2>2, TurnWords DEF ContextAfter
  <2>5. messages' \in Seq(MessageOf(Spoken'))
    BY <2>1, <2>2, <2>3, TurnWords
  <2> QED
    BY <2>4, <2>5 DEF OwnWords, MessageOf
<1>2. ASSUME NEW question \in Questions, ChatFailed(question) PROVE OwnWords'
  <2>1. PICK outcome \in InferIncremental(PromptTokens(question), kv_cache_state) :
          ContextAfter(outcome)
    BY <1>2 DEF ChatFailed
  <2>2. /\ conversation' = conversation \cup Range(question) /\ system_prompt' = system_prompt
        /\ messages' = Asked(question)
    BY <1>2 DEF ChatFailed
  <2>3. kv' \in Seq(Known')
    BY <2>1, <2>2, TurnWords DEF ContextAfter
  <2>4. messages' \in Seq(MessageOf(Spoken'))
    BY <2>2, TurnWords
  <2> QED
    BY <2>3, <2>4 DEF OwnWords, MessageOf
<1>3. ASSUME NEW question \in Questions, ChatRefused(question) PROVE OwnWords'
  <2>1. /\ conversation' = conversation \cup Range(question) /\ system_prompt' = system_prompt
        /\ messages' = Asked(question) /\ kv' = kv /\ kv_cache_state' = kv_cache_state
    BY <1>3 DEF ChatRefused, contextVars
  <2>2. /\ messages' \in Seq(MessageOf(Spoken'))
        /\ kv_cache_state > 0 => kv \in Seq(Known')
    BY <2>1, TurnWords
  <2> QED
    BY <2>1, <2>2 DEF OwnWords, MessageOf
<1>4. ASSUME NEW question \in Questions, ChatStream(question) PROVE OwnWords'
  <2>1. /\ conversation' = conversation \cup Range(question) /\ system_prompt' = system_prompt
        /\ kv_cache_state' = 0
    BY <1>4 DEF ChatStream
  <2>2. \/ messages' = Asked(question)
        \/ \E text \in Answers : messages' = Append(Asked(question), Assistant(text))
    BY <1>4 DEF ChatStream
  <2>3. messages' \in Seq(MessageOf(Spoken'))
    BY <2>1, <2>2, TurnWords
  <2> QED
    BY <2>1, <2>3 DEF OwnWords, MessageOf
<1>5. CASE \/ \E prompt \in SystemPrompts \cup {None} : SetSystemPrompt(prompt)
  <2>1. /\ messages' = messages /\ conversation' = conversation /\ kv_cache_state' = 0
    BY <1>5 DEF SetSystemPrompt
  <2>2. Spoken' = Spoken
    BY <2>1 DEF Spoken
  <2> QED
    BY <2>1, <2>2 DEF OwnWords, MessageOf
<1>6. CASE Clear \/ Reset \/ SwitchModel
  <2>1. messages' = <<>> /\ kv_cache_state' = 0
    BY <1>6 DEF Clear, Reset, SwitchModel, Cleared
  <2>2. messages' \in Seq(MessageOf(Spoken'))
    BY <2>1, EmptySeq
  <2> QED
    BY <2>1, <2>2 DEF OwnWords, MessageOf
<1>7. CASE Save \/ UNCHANGED vars
  <2>1. /\ messages' = messages /\ conversation' = conversation
        /\ kv_cache_state' = kv_cache_state /\ kv' = kv /\ system_prompt' = system_prompt
    BY <1>7 DEF Save, vars, contextVars, sessionVars
  <2>2. Spoken' = Spoken /\ Known' = Known
    BY <2>1 DEF Spoken, Known
  <2> QED
    BY <2>1, <2>2 DEF OwnWords, MessageOf
<1>8. CASE Load
  <2>1. /\ messages' = saved.messages /\ kv_cache_state' = 0
        /\ conversation' = UNION {Range(saved.messages[i].content) : i \in DOMAIN saved.messages}
    BY <1>8 DEF Load
  <2>2. saved.messages \in Seq(Message)
    BY DEF SessionInv, SessionTypes
  <2>3. ASSUME NEW i \in 1..Len(saved.messages)
        PROVE  saved.messages[i] \in MessageOf(Spoken')
    <3>1. saved.messages[i] \in Message /\ i \in DOMAIN saved.messages
      BY <2>2, ElementOfSeq, LenProperties
    <3>2. saved.messages[i].content \in Seq(Word)
      BY <3>1, ContentsTyped DEF Message
    <3>3. saved.messages[i].content \in Seq(Range(saved.messages[i].content))
      BY <3>2, SeqOfRange
    <3>4. Range(saved.messages[i].content) \subseteq Spoken'
      BY <2>1, <3>1 DEF Spoken
    <3>5. saved.messages[i].content \in Seq(Spoken')
      BY <3>3, <3>4, SeqMonotonic
    <3> QED
      BY <3>1, <3>5 DEF MessageOf
  <2>4. saved.messages \in Seq(MessageOf(Spoken'))
    <3>1. Len(saved.messages) \in Nat /\ saved.messages \in [1..Len(saved.messages) -> Message]
      BY <2>2, LenProperties
    <3>2. saved.messages \in [1..Len(saved.messages) -> MessageOf(Spoken')]
      BY <2>3, <3>1
    <3> QED
      BY <3>1, <3>2, FunctionIsSeq
  <2> QED
    BY <2>1, <2>4 DEF OwnWords, MessageOf
<1> QED
  BY <1>1, <1>2, <1>3, <1>4, <1>5, <1>6, <1>7, <1>8 DEF Next

\* As long as the session believes in a cache, the cache holds no word of
\* another conversation nor of another system prompt: a turn that builds on the
\* tokens of the turns before it builds on its own (NothingFromAnotherConversation).
THEOREM CacheIsOfThisConversation == Spec => []NothingFromAnotherConversation
<1>1. Init => OwnWords
  BY EmptySeq DEF Init, OwnWords
<1>2. SessionInv /\ OwnWords => NothingFromAnotherConversation
  <2> SUFFICES ASSUME OwnWords, kv_cache_state > 0,
                      NEW word \in Range(kv),
                      NEW text \in Questions \cup SystemPrompts, word \in Range(text)
               PROVE  word \in conversation \cup Range(system_prompt)
    BY DEF NothingFromAnotherConversation
  <2>1. kv \in Seq(Known)
    BY DEF OwnWords
  <2>2. word \in Known
    BY <2>1, RangeOfSeq
  <2>3. word \notin AnswerWords \cup Markers
    BY WordsAssumption DEF Markers
  <2> QED
    BY <2>2, <2>3 DEF Known, Spoken
<1> QED
  BY <1>1, <1>2, SessionInit, SessionStep, OwnWordsStep, PTL DEF Spec

----------------------------------------------------------------------------
(* What trimming keeps and drops *)

\* What fits the budget fits, with the system prompt and the reserve, in the
\* context, and what exceeds the one exceeds the other.
LEMMA BudgetFacts ==
  ASSUME system_prompt \in Seq(Word), NEW msgs \in Seq(Texts)
  PROVE  LET whole == TokenEstimate(System(system_prompt) \o msgs) + Reserve
         IN /\ HistoryBudget \in Nat
            /\ HistoryBudget # 0 /\ TokenEstimate(msgs) <= HistoryBudget => whole <= MaxContext
            /\ ~(TokenEstimate(msgs) <= HistoryBudget) => whole > MaxContext
<1> DEFINE sys == TokenEstimate(System(system_prompt))
           e == TokenEstimate(msgs)
<1>1. System(system_prompt) \in Seq(Texts)
  BY MessagesAreTexts
<1>2. sys \in Nat /\ e \in Nat
  BY <1>1, EstimateIsNat
<1>3. TokenEstimate(System(system_prompt) \o msgs) = sys + e
  BY <1>1, EstimateOfConcat
<1>4. HistoryBudget = SaturatingSub(SaturatingSub(MaxContext, Reserve), sys)
  BY DEF HistoryBudget
<1> HIDE DEF sys, e
<1>5. /\ HistoryBudget \in Nat
      /\ HistoryBudget # 0 /\ e <= HistoryBudget => sys + e + Reserve <= MaxContext
      /\ ~(e <= HistoryBudget) => sys + e + Reserve > MaxContext
  <2>1. MaxContext \in Nat /\ Reserve \in Nat
    BY SessionAssumption
  <2>2. CASE MaxContext > Reserve
    <3>1. HistoryBudget = IF MaxContext - Reserve > sys THEN MaxContext - Reserve - sys ELSE 0
      BY <1>4, <2>2 DEF SaturatingSub
    <3> QED
      BY <1>2, <2>1, <2>2, <3>1
  <2>3. CASE ~(MaxContext > Reserve)
    <3>1. HistoryBudget = IF 0 > sys THEN 0 - sys ELSE 0
      BY <1>4, <2>3 DEF SaturatingSub
    <3> QED
      BY <1>2, <2>1, <2>3, <3>1
  <2> QED
    BY <2>2, <2>3
<1> QED
  BY <1>3, <1>5 DEF e

\* The history of a turn is an end of the history with its question: it fits or
\* is one message, and the message before it would not fit.
LEMMA AskedIsTrimmedExactly ==
  ASSUME SessionTypes, NEW question \in Questions
  PROVE  LET asked == Append(messages, User(question))
             kept == Len(Asked(question))
             sys == System(system_prompt)
         IN /\ IsSuffix(Asked(question), asked)
            /\ kept < Len(asked) =>
                 TokenEstimate(sys \o SubSeq(asked, Len(asked) - kept, Len(asked)))
                   + Reserve > MaxContext
            /\ MaxContext > 0 /\ HistoryBudget > 0 =>
                 kept = 1 \/ TokenEstimate(sys \o Asked(question)) + Reserve <= MaxContext
<1> DEFINE asked == Append(messages, User(question))
           kept == Len(Asked(question))
           Whole(msgs) == TokenEstimate(System(system_prompt) \o msgs) + Reserve
           Rest(i) == SubSeq(asked, i, Len(asked))
<1>1. system_prompt \in Seq(Word) /\ messages \in Seq(Message) /\ User(question) \in Message
  BY SessionFacts, MessagesAreTexts DEF SessionTypes
<1>2. asked \in Seq(Message) /\ asked # <<>> /\ Len(asked) \in Nat \ {0}
  BY <1>1, AppendProperties, EmptySeq
<1>3. Asked(question) = TrimHistory(asked)
  BY DEF Asked
<1>4. \A msgs \in Seq(Message) :
        /\ HistoryBudget \in Nat
        /\ HistoryBudget # 0 /\ TokenEstimate(msgs) <= HistoryBudget => Whole(msgs) <= MaxContext
        /\ ~(TokenEstimate(msgs) <= HistoryBudget) => Whole(msgs) > MaxContext
  <2> SUFFICES ASSUME NEW msgs \in Seq(Message)
               PROVE  /\ HistoryBudget \in Nat
                      /\ HistoryBudget # 0 /\ TokenEstimate(msgs) <= HistoryBudget => Whole(msgs) <= MaxContext
                      /\ ~(TokenEstimate(msgs) <= HistoryBudget) => Whole(msgs) > MaxContext
    OBVIOUS
  <2>1. msgs \in Seq(Texts)
    BY MessagesAreTexts, SeqMonotonic
  <2> QED
    BY <1>1, <2>1, BudgetFacts
<1> HIDE DEF asked, Whole
<1>5. \A i \in 1..Len(asked) : /\ Rest(i) \in Seq(Message)
                               /\ Len(Rest(i)) = Len(asked) - i + 1
                               /\ IsSuffix(Rest(i), asked)
  BY <1>2, RestFacts, RestIsSuffix
<1>6. CASE MaxContext = 0
  <2>1. Asked(question) = asked
    BY <1>1, <1>2, <1>3, <1>6, TrimHistoryFacts
  <2>2. asked = Rest(1) /\ 1 \in 1..Len(asked)
    BY <1>2, SubSeqFull
  <2>3. IsSuffix(asked, asked)
    BY <1>5, <2>2
  <2>4. ~(Len(asked) < Len(asked)) /\ ~(MaxContext > 0)
    BY <1>2, <1>6
  <2> QED
    BY <2>1, <2>3, <2>4 DEF asked
<1>7. CASE MaxContext # 0 /\ HistoryBudget = 0
  <2>1. Asked(question) = <<>>
    BY <1>1, <1>2, <1>3, <1>7, TrimHistoryFacts
  <2>2. IsSuffix(<<>>, asked)
    <3>1. <<>> \in Seq(Message) /\ asked \o <<>> = asked
      BY <1>2, EmptySeq, ConcatEmptySeq
    <3> QED
      BY <1>2, <3>1, SuffixOfConcat
  <2>3. kept = 0 /\ Len(asked) - 0 = Len(asked) /\ Len(asked) \in 1..Len(asked)
    BY <1>2, <2>1, EmptySeq
  <2>4. ~(TokenEstimate(Rest(Len(asked))) <= HistoryBudget)
    <3>1. Rest(Len(asked)) \in Seq(Message) /\ Len(Rest(Len(asked))) = Len(asked) - Len(asked) + 1
      BY <1>5, <2>3
    <3>2. Len(Rest(Len(asked))) = 1 /\ Rest(Len(asked)) \in Seq(Texts)
      BY <1>2, <3>1, MessagesAreTexts, SeqMonotonic
    <3>3. TokenEstimate(Rest(Len(asked))) \in Nat /\ TokenEstimate(Rest(Len(asked))) >= 4
      BY <3>2, EstimateIsNat
    <3> QED
      BY <1>7, <3>3
  <2>5. Whole(Rest(Len(asked))) > MaxContext
    BY <1>4, <1>5, <2>3, <2>4
  <2>6. ~(HistoryBudget > 0)
    BY <1>7
  <2> QED
    BY <2>1, <2>2, <2>3, <2>5, <2>6 DEF asked, Whole
<1>8. CASE MaxContext # 0 /\ HistoryBudget # 0
  <2>1. PICK i \in 1..Len(asked) :
          /\ Asked(question) = Rest(i)
          /\ i = Len(asked) \/ TokenEstimate(Rest(i)) <= HistoryBudget
          /\ i > 1 => ~(TokenEstimate(Rest(i - 1)) <= HistoryBudget)
    BY <1>1, <1>2, <1>3, <1>8, TrimHistoryFacts
  <2>2. /\ IsSuffix(Asked(question), asked) /\ kept = Len(asked) - i + 1
        /\ Rest(i) \in Seq(Message)
    BY <1>5, <2>1
  <2>3. kept < Len(asked) => Whole(Rest(Len(asked) - kept)) > MaxContext
    <3> SUFFICES ASSUME kept < Len(asked) PROVE Whole(Rest(Len(asked) - kept)) > MaxContext
      OBVIOUS
    <3>1. i > 1 /\ i - 1 \in 1..Len(asked) /\ Len(asked) - kept = i - 1
      BY <1>2, <2>2
    <3>2. Whole(Rest(i - 1)) > MaxContext
      BY <1>4, <1>5, <2>1, <3>1
    <3> QED
      BY <3>1, <3>2
  <2>4. kept = 1 \/ Whole(Asked(question)) <= MaxContext
    <3>1. CASE i = Len(asked)
      BY <1>2, <2>2, <3>1
    <3>2. CASE TokenEstimate(Rest(i)) <= HistoryBudget
      BY <1>4, <1>8, <2>1, <2>2, <3>2
    <3> QED
      BY <2>1, <3>1, <3>2
  <2> QED
    BY <2>2, <2>3, <2>4 DEF asked, Whole
<1> QED
  BY <1>6, <1>7, <1>8

\* A step that records no turn, or one of a question that was trimmed in, drops
\* what it must.
LEMMA TrimmedStep ==
  ASSUME SessionTypes,
         \/ call' = NoCall
         \/ \E question \in Questions : \E via, ok, text :
              /\ call' = Call(via, question, ok, text)
              /\ system_prompt' = system_prompt
  PROVE  DropsOnlyWhatOverflows /\ TrimmedToFit'
<1>1. CASE call' = NoCall
  BY <1>1 DEF NoCall, DropsOnlyWhatOverflows, TrimmedToFit
<1>2. ASSUME NEW question \in Questions, NEW via, NEW ok, NEW text,
             call' = Call(via, question, ok, text),
             system_prompt' = system_prompt
      PROVE  DropsOnlyWhatOverflows /\ TrimmedToFit'
  <2>1. call'.question = question /\ call'.history = Asked(question)
    BY <1>2 DEF Call
  <2>2. DropsOnlyWhatOverflows
    BY <2>1, AskedIsTrimmedExactly DEF DropsOnlyWhatOverflows
  <2>3. HistoryBudget' = HistoryBudget
    BY <1>2, BudgetIsKept
  <2>4. TrimmedToFit'
    BY <1>2, <2>1, <2>3, AskedIsTrimmedExactly DEF TrimmedToFit
  <2> QED
    BY <2>2, <2>4
<1> QED
  BY <1>1, <1>2

----------------------------------------------------------------------------
(* The interactive chat *)

\* No answer follows another in a history.
Alternate(msgs) ==
  \A i \in 2..Len(msgs) : msgs[i].role = "assistant" => msgs[i - 1].role = "user"

\* The invariant: the histories at hand and in the session file alternate, and
\* what /retry would ask is a question.
InteractiveInv ==
  /\ SessionInv
  /\ AnswersFollowQuestions
  /\ Alternate(saved.messages)
  /\ last_question \in Questions \cup {None}
  /\ SourcesOfLastAnswer

LEMMA AlternateAppend ==
  ASSUME NEW msgs \in Seq(Message), Alternate(msgs), NEW msg \in Message,
         \/ msg.role = "user"
         \/ msgs = <<>>
         \/ Len(msgs) > 0 /\ msgs[Len(msgs)].role = "user"
  PROVE  Alternate(Append(msgs, msg))
<1> DEFINE longer == Append(msgs, msg)
           n == Len(msgs)
<1>1. /\ Len(longer) = n + 1
      /\ \A i \in 1..n : longer[i] = msgs[i]
      /\ longer[n + 1] = msg
  BY AppendProperties
<1>2. n \in Nat /\ (msgs = <<>> => n = 0)
  BY LenProperties, EmptySeq
<1> HIDE DEF longer, n
<1>3. ASSUME NEW i \in 2..n + 1, longer[i].role = "assistant" PROVE longer[i - 1].role = "user"
  <2>1. CASE i = n + 1
    <3>1. msg.role = "assistant" /\ n > 0 /\ i - 1 = n /\ n \in 1..n
      BY <1>1, <1>2, <1>3, <2>1
    <3>2. msgs[n].role = "user"
      BY <1>2, <3>1 DEF n
    <3> QED
      BY <1>1, <3>1, <3>2
  <2>2. CASE i # n + 1
    <3>1. i \in 2..n /\ i \in 1..n /\ i - 1 \in 1..n
      BY <1>2, <2>2
    <3> QED
      BY <1>1, <1>3, <3>1 DEF Alternate, n
  <2> QED
    BY <2>1, <2>2
<1> QED
  BY <1>1, <1>3 DEF Alternate, longer

\* Trimming a history with a question keeps the alternation.
LEMMA AskedAlternates ==
  ASSUME SessionTypes, Alternate(messages), NEW question \in Questions
  PROVE  /\ Alternate(Asked(question))
         /\ \A text \in Answers : Alternate(Append(Asked(question), Assistant(text)))
<1> DEFINE asked == Append(messages, User(question))
<1>1. /\ system_prompt \in Seq(Word) /\ messages \in Seq(Message)
      /\ User(question) \in Message /\ User(question).role = "user"
  BY SessionFacts, MessagesAreTexts DEF SessionTypes, User
<1>2. /\ asked \in Seq(Message) /\ asked # <<>> /\ Len(asked) \in Nat
      /\ Alternate(asked)
  BY <1>1, AppendProperties, LenProperties, AlternateAppend
<1>3. Asked(question) = TrimHistory(asked)
  BY DEF Asked
<1> HIDE DEF asked
<1>4. \/ TrimHistory(asked) = <<>>
      \/ \E i \in 1..Len(asked) :
           /\ Len(TrimHistory(asked)) = Len(asked) - i + 1
           /\ \A j \in 1..Len(asked) - i + 1 : TrimHistory(asked)[j] = asked[i + j - 1]
  BY <1>1, <1>2, TrimHistoryKeepsTheEnd
<1>5. TrimHistory(asked) = <<>> => Alternate(TrimHistory(asked))
  <2>1. Alternate(<<>>)
    BY EmptySeq DEF Alternate
  <2> QED
    BY <2>1
<1>6. ASSUME NEW i \in 1..Len(asked),
             Len(TrimHistory(asked)) = Len(asked) - i + 1,
             \A j \in 1..Len(asked) - i + 1 : TrimHistory(asked)[j] = asked[i + j - 1]
      PROVE  Alternate(TrimHistory(asked))
  <2> SUFFICES ASSUME NEW j \in 2..Len(asked) - i + 1,
                      TrimHistory(asked)[j].role = "assistant"
               PROVE  TrimHistory(asked)[j - 1].role = "user"
    BY <1>6 DEF Alternate
  <2>1. /\ j \in 1..Len(asked) - i + 1 /\ j - 1 \in 1..Len(asked) - i + 1
        /\ i + j - 1 \in 2..Len(asked) /\ i + (j - 1) - 1 = i + j - 1 - 1
    BY <1>2
  <2>2. /\ TrimHistory(asked)[j] = asked[i + j - 1]
        /\ TrimHistory(asked)[j - 1] = asked[i + j - 1 - 1]
    BY <1>6, <2>1
  <2>3. \A k \in 2..Len(asked) : asked[k].role = "assistant" => asked[k - 1].role = "user"
    BY <1>2 DEF Alternate
  <2>4. asked[i + j - 1].role = "assistant"
    BY <2>2
  <2> QED
    BY <2>1, <2>2, <2>3, <2>4
<1>7. Alternate(Asked(question))
  BY <1>3, <1>4, <1>5, <1>6
<1>8. ASSUME NEW text \in Answers PROVE Alternate(Append(Asked(question), Assistant(text)))
  <2>1. /\ Asked(question) \in Seq(Message)
        /\ \/ Asked(question) = <<>>
           \/ /\ Len(Asked(question)) > 0
              /\ Asked(question)[Len(Asked(question))] = User(question)
    <3>1. /\ messages \in Seq(MessageOf(Word)) /\ question \in Seq(Word)
          /\ MessageOf(Word) = Message
      BY SessionFacts
    <3> QED
      BY <1>1, <3>1, AskedFacts
  <2>2. Assistant(text) \in Message
    BY MessagesAreTexts
  <2> QED
    BY <1>1, <1>7, <2>1, <2>2, AlternateAppend
<1> QED
  BY <1>7, <1>8

\* A turn with retrieval records its question and its answer together.
LEMMA RecordedFacts ==
  ASSUME SessionTypes, Alternate(messages), NEW question \in Questions, NEW text \in Answers
  PROVE  Recorded(question, text) \in Seq(Message) /\ Alternate(Recorded(question, text))
<1> DEFINE asked == Append(messages, User(question))
           n == Len(messages)
           pair == <<User(question), Assistant(text)>>
<1>1. messages \in Seq(Message) /\ n \in Nat
  BY LenProperties DEF SessionTypes
<1>2. /\ User(question) \in Message /\ User(question).role = "user"
      /\ Assistant(text) \in Message
  BY MessagesAreTexts DEF User
<1>3. /\ asked \in Seq(Message) /\ Len(asked) = n + 1
      /\ asked[n + 1] = User(question)
      /\ \A i \in 1..n : asked[i] = messages[i]
  BY <1>1, <1>2, AppendProperties
<1>4. Alternate(asked)
  BY <1>1, <1>2, AlternateAppend
<1>5. /\ pair \in Seq(Message) /\ Len(pair) = 2
      /\ pair[1] = User(question) /\ pair[2] = Assistant(text)
  BY <1>2
<1> HIDE DEF asked, pair, n
<1>6. Len(asked) > 0 /\ asked[Len(asked)].role = "user"
  BY <1>1, <1>2, <1>3
<1>7. Append(asked, Assistant(text)) \in Seq(Message) /\ Alternate(Append(asked, Assistant(text)))
  BY <1>2, <1>3, <1>4, <1>6, AlternateAppend, AppendProperties
<1> DEFINE both == Append(asked, Assistant(text))
           joined == messages \o pair
<1>8. /\ Len(both) = n + 1 + 1
      /\ \A i \in 1..n + 1 : both[i] = asked[i]
      /\ both[n + 1 + 1] = Assistant(text)
  BY <1>2, <1>3, AppendProperties
<1>9. /\ joined \in Seq(Message) /\ Len(joined) = n + 2
      /\ \A i \in 1..n + 2 : joined[i] = IF i <= n THEN messages[i] ELSE pair[i - n]
  <2>1. /\ joined \in Seq(Message) /\ Len(joined) = Len(messages) + Len(pair)
        /\ \A i \in 1..Len(messages) + Len(pair) :
             joined[i] = IF i <= Len(messages) THEN messages[i] ELSE pair[i - Len(messages)]
    BY <1>1, <1>5, ConcatProperties
  <2> HIDE DEF joined
  <2> QED
    BY <1>5, <2>1 DEF n
<1> HIDE DEF both, joined
<1>10. \A i \in 1..n + 2 : joined[i] = both[i]
  <2> SUFFICES ASSUME NEW i \in 1..n + 2 PROVE joined[i] = both[i]
    OBVIOUS
  <2>1. CASE i <= n
    BY <1>1, <1>3, <1>8, <1>9, <2>1
  <2>2. CASE i = n + 1
    <3>1. i - n = 1 /\ ~(i <= n) /\ i \in 1..n + 1
      BY <1>1, <2>2
    <3> QED
      BY <1>3, <1>5, <1>8, <1>9, <2>2, <3>1
  <2>3. CASE i = n + 2
    <3>1. i - n = 2 /\ ~(i <= n) /\ n + 1 + 1 = i
      BY <1>1, <2>3
    <3> QED
      BY <1>5, <1>8, <1>9, <2>3, <3>1
  <2> QED
    BY <1>1, <2>1, <2>2, <2>3
<1>11. joined = both
  <2>1. both \in Seq(Message) /\ n + 1 + 1 = n + 2
    BY <1>1, <1>7 DEF both
  <2> QED
    BY <1>8, <1>9, <1>10, <2>1, SeqEqual
<1> QED
  BY <1>7, <1>11 DEF Recorded, both, joined, pair

\* The prompt of a turn with retrieval is made of words.
LEMMA RagPromptFacts ==
  ASSUME NEW question \in Questions, NEW found \in {None, question}
  PROVE  RagPrompt(question, found) \in Seq(Word)
<1> DEFINE first == [role |-> "system", content |-> <<"rag">>]
           asks == (IF found = None THEN <<>> ELSE <<"snippet">>) \o question
           msgs == <<first, User(asks)>>
<1>1. Markers \subseteq Word /\ "rag" \in Word /\ "snippet" \in Word
  BY DEF Word
<1>2. question \in Seq(Word)
  BY ContentsTyped DEF Contents
<1>3. asks \in Seq(Word)
  <2>1. <<>> \in Seq(Word) /\ <<"snippet">> \in Seq(Word)
    BY <1>1
  <2> QED
    BY <1>2, <2>1, ConcatProperties
<1> HIDE DEF asks
<1>4. first \in Worded(Word) /\ User(asks) \in Worded(Word)
  <2>1. <<"rag">> \in Seq(Word)
    BY <1>1
  <2> QED
    BY <1>3, <2>1 DEF Worded, User
<1> HIDE DEF first
<1>5. msgs \in Seq(Worded(Word))
  BY <1>4
<1> HIDE DEF msgs
<1>6. Format(msgs) \in Seq(Word)
  BY <1>1, <1>5, FormatFacts
<1>7. User(Format(msgs)) \in Worded(Word)
  BY <1>6 DEF Worded, User
<1>8. <<User(Format(msgs))>> \in Seq(Worded(Word))
  BY <1>7
<1>9. Format(<<User(Format(msgs))>>) \in Seq(Word)
  BY <1>1, <1>8, FormatFacts
<1>10. RagPrompt(question, found) = Format(<<User(Format(msgs))>>)
  BY DEF RagPrompt, FormatPrompt, User, msgs, first, asks
<1> QED
  BY <1>9, <1>10

\* What a question, a command of the loop and a turn of the session do to the
\* session, its histories and its sources.
Kept == SessionInv' /\ AnswersFollowQuestions' /\ Alternate(saved.messages)'

\* The calls that a step records.
Recorder ==
  \/ call' = NoCall
  \/ \E question \in Questions : \E via, ok, text :
       /\ call' = Call(via, question, ok, text)
       /\ system_prompt' = system_prompt

LEMMA TurnKeeps ==
  ASSUME InteractiveInv, NEW question \in Questions, Turn(question)
  PROVE  Kept /\ Recorder
<1>1. SessionInv /\ SessionTypes /\ ContextInv /\ Alternate(messages) /\ Alternate(saved.messages)
  BY DEF InteractiveInv, SessionInv, AnswersFollowQuestions, Alternate
<1>2. CASE SessionTurn(question)
  <2>1. \/ ChatAnswered(question) \/ ChatFailed(question)
        \/ ChatRefused(question) \/ ChatStream(question)
    BY <1>2 DEF SessionTurn
  <2>2. SessionInv'
    BY <1>1, <2>1, TurnKeepsSession
  <2>3. \/ messages' = Asked(question)
        \/ \E text \in Answers : messages' = Append(Asked(question), Assistant(text))
    <3>1. CASE ChatAnswered(question)
      <4>1. PICK outcome \in InferIncremental(PromptTokens(question), kv_cache_state) :
              /\ outcome.ok
              /\ messages' = Append(Asked(question), Assistant(outcome.text))
        BY <3>1 DEF ChatAnswered
      <4>2. outcome.text \in Answers
        BY <1>1, <4>1, TurnFacts DEF Sound
      <4> QED
        BY <4>1, <4>2
    <3>2. CASE ChatFailed(question) \/ ChatRefused(question) \/ ChatStream(question)
      BY <3>2 DEF ChatFailed, ChatRefused, ChatStream
    <3> QED
      BY <2>1, <3>1, <3>2
  <2>4. Alternate(messages')
    BY <1>1, <2>3, AskedAlternates
  <2>5. saved' = saved /\ Recorder
    BY <2>1 DEF ChatAnswered, ChatFailed, ChatRefused, ChatStream, Recorder
  <2> QED
    BY <1>1, <2>2, <2>4, <2>5 DEF Kept, AnswersFollowQuestions, Alternate
<1>3. CASE RagAnswered(question)
  <2>0. PICK found \in {None, question} : \E outcome \in Infer(RagPrompt(question, found)) :
          /\ outcome.ok
          /\ ContextAfter(outcome)
          /\ messages' = Recorded(question, outcome.text)
    BY <1>3 DEF RagAnswered
  <2>1. PICK outcome \in Infer(RagPrompt(question, found)) :
          /\ outcome.ok
          /\ ContextAfter(outcome)
          /\ messages' = Recorded(question, outcome.text)
    BY <2>0
  <2>2. Sound(outcome, Word) /\ outcome.text \in Answers
    <3>1. RagPrompt(question, found) \in Seq(Word) /\ AnswerWords \subseteq Word
      BY RagPromptFacts DEF Word
    <3> QED
      BY <2>1, <3>1, InferIsSound DEF Sound
  <2>3. ContextInv'
    BY <2>1, <2>2, ContextAfterCall
  <2>4. messages' \in Seq(Message) /\ Alternate(messages')
    BY <1>1, <2>1, <2>2, RecordedFacts
  <2>5. SessionTypes' /\ saved' = saved /\ call' = NoCall
    BY <1>1, <1>3, <2>4 DEF RagAnswered, SessionTypes
  <2> QED
    BY <1>1, <2>3, <2>4, <2>5 DEF Kept, Recorder, SessionInv, AnswersFollowQuestions, Alternate
<1>4. CASE RagStreamed(question)
  <2>1. PICK text \in Answers : messages' = Recorded(question, text)
    BY <1>4 DEF RagStreamed
  <2>2. messages' \in Seq(Message) /\ Alternate(messages')
    BY <1>1, <2>1, RecordedFacts
  <2>3. SessionTypes' /\ saved' = saved /\ call' = NoCall
    BY <1>1, <1>4, <2>2 DEF RagStreamed, SessionTypes
  <2>4. ContextInv'
    BY <1>1, <1>4 DEF RagStreamed, ContextInv, CachedTokensAreInCache, contextVars
  <2> QED
    BY <1>1, <2>2, <2>3, <2>4 DEF Kept, Recorder, SessionInv, AnswersFollowQuestions, Alternate
<1>5. CASE RagFailed(question)
  <2>1. messages' = messages /\ saved' = saved /\ call' = NoCall
    BY <1>5 DEF RagFailed, sessionVars
  <2>2. SessionTypes'
    BY <1>1, <1>5 DEF RagFailed, SessionTypes, sessionVars
  <2>3. ContextInv'
    <3>1. CASE UNCHANGED contextVars
      BY <1>1, <3>1 DEF ContextInv, CachedTokensAreInCache, contextVars
    <3>2. ASSUME NEW outcome \in Infer(RagPrompt(question, None)), ContextAfter(outcome)
          PROVE  ContextInv'
      <4>1. RagPrompt(question, None) \in Seq(Word) /\ AnswerWords \subseteq Word
        BY RagPromptFacts DEF Word
      <4>2. Sound(outcome, Word)
        BY <4>1, <3>2, InferIsSound
      <4> QED
        BY <3>2, <4>2, ContextAfterCall
    <3> QED
      BY <1>5, <3>1, <3>2 DEF RagFailed
  <2> QED
    BY <1>1, <2>1, <2>2, <2>3 DEF Kept, Recorder, SessionInv, AnswersFollowQuestions, Alternate
<1> QED
  BY <1>2, <1>3, <1>4, <1>5 DEF Turn

LEMMA CommandKeeps ==
  ASSUME InteractiveInv, ClearChat \/ LoadChat \/ Command
  PROVE  Kept /\ Recorder
<1>1. SessionInv /\ Alternate(messages) /\ Alternate(saved.messages)
  BY DEF InteractiveInv, AnswersFollowQuestions, Alternate
<1>2. Clear \/ Load \/ Save \/ SwitchModel
  BY DEF ClearChat, LoadChat, Command
<1>3. SessionInv'
  BY <1>1, <1>2, CommandKeepsSession
<1>4. Recorder
  BY <1>2 DEF Recorder, Clear, Load, Save, SwitchModel, Cleared
<1>5. Alternate(<<>>)
  BY EmptySeq DEF Alternate
<1>6. Alternate(messages')
  <2>1. messages' = <<>> \/ messages' = messages \/ messages' = saved.messages
    BY <1>2 DEF Clear, Load, Save, SwitchModel, Cleared, sessionVars
  <2> QED
    BY <1>1, <1>5, <2>1
<1>7. Alternate(saved'.messages)
  <2>1. saved' = saved \/ saved'.messages = messages \/ saved'.messages = <<>>
    BY <1>2 DEF Clear, Load, Save, SwitchModel, NoSession
  <2> QED
    BY <1>1, <1>5, <2>1
<1> QED
  BY <1>3, <1>4, <1>6, <1>7 DEF Kept, AnswersFollowQuestions, Alternate

LEMMA InteractiveCases ==
  ASSUME InteractiveInv, InteractiveNext
  PROVE  (\E question \in Questions : Turn(question)) \/ ClearChat \/ LoadChat \/ Command
<1>1. Retry => \E question \in Questions : Turn(question)
  BY DEF Retry, InteractiveInv
<1> QED
  BY <1>1 DEF InteractiveNext

LEMMA InteractiveInitially == InteractiveInit => InteractiveInv
<1> SUFFICES ASSUME InteractiveInit PROVE InteractiveInv
  OBVIOUS
<1>1. SessionInv
  BY SessionInit DEF InteractiveInit
<1>2. messages = <<>> /\ saved.messages = <<>>
  BY DEF InteractiveInit, Init, NoSession
<1>3. Alternate(<<>>)
  BY EmptySeq DEF Alternate
<1>4. AnswersFollowQuestions
  BY <1>2, EmptySeq DEF AnswersFollowQuestions
<1> QED
  BY <1>1, <1>2, <1>3, <1>4 DEF InteractiveInit, InteractiveInv, SourcesOfLastAnswer

LEMMA InteractiveStep ==
  InteractiveInv /\ [InteractiveNext]_interactiveVars => InteractiveInv'
<1> SUFFICES ASSUME InteractiveInv, [InteractiveNext]_interactiveVars PROVE InteractiveInv'
  OBVIOUS
<1>1. ASSUME NEW question \in Questions, Turn(question) PROVE InteractiveInv'
  <2>1. Kept
    BY <1>1, TurnKeeps
  <2>2. last_question' = question
    BY <1>1 DEF Turn
  <2>3. last_sources' = None \/ (last_sources' = question /\ answered' = question)
    BY <1>1 DEF Turn, SessionTurn, RagAnswered, RagStreamed, RagFailed
  <2> QED
    BY <2>1, <2>2, <2>3 DEF Kept, InteractiveInv, SourcesOfLastAnswer
<1>2. CASE ClearChat \/ LoadChat
  <2>1. Kept
    BY <1>2, CommandKeeps
  <2>2. last_question' = None /\ last_sources' = None
    BY <1>2 DEF ClearChat, LoadChat, Forget
  <2> QED
    BY <2>1, <2>2 DEF Kept, InteractiveInv, SourcesOfLastAnswer
<1>3. CASE Command
  <2>1. Kept
    BY <1>3, CommandKeeps
  <2>2. UNCHANGED lastVars
    BY <1>3 DEF Command
  <2> QED
    BY <2>1, <2>2 DEF Kept, InteractiveInv, SourcesOfLastAnswer, lastVars
<1>4. CASE UNCHANGED interactiveVars
  BY <1>4 DEF InteractiveInv, SessionInv, SessionTypes, ContextInv, CachedTokensAreInCache,
              AnswersFollowQuestions, Alternate, SourcesOfLastAnswer, interactiveVars,
              vars, contextVars, sessionVars, lastVars
<1> QED
  BY <1>1, <1>2, <1>3, <1>4, InteractiveCases

\* What /sources shows was found for the last question and went into the answer
\* that was shown (SourcesOfLastAnswer).
THEOREM SourcesAreOfLastAnswer == InteractiveSpec => []SourcesOfLastAnswer
<1>1. InteractiveInv => SourcesOfLastAnswer
  BY DEF InteractiveInv
<1> QED
  BY <1>1, InteractiveInitially, InteractiveStep, PTL DEF InteractiveSpec

\* No answer in the history follows another, whatever failed, was retried,
\* trimmed or loaded from a file (AnswersFollowQuestions).
THEOREM AnswersHaveTheirQuestions == InteractiveSpec => []AnswersFollowQuestions
<1>1. InteractiveInv => AnswersFollowQuestions
  BY DEF InteractiveInv
<1> QED
  BY <1>1, InteractiveInitially, InteractiveStep, PTL DEF InteractiveSpec

\* The count of cached tokens is right in the interactive chat as well, where
\* the turns with retrieval use the context behind the back of the session.
THEOREM InteractiveCountsTokens == InteractiveSpec => []CachedTokensAreInCache
<1>1. InteractiveInv => CachedTokensAreInCache
  BY DEF InteractiveInv, SessionInv, ContextInv
<1> QED
  BY <1>1, InteractiveInitially, InteractiveStep, PTL DEF InteractiveSpec

\* Trimming drops what it must and nothing more, in every turn of the loop
\* (TrimmedExactly).
THEOREM ChatTrimsExactly == InteractiveSpec => TrimmedExactly
<1>1. InteractiveInv /\ [InteractiveNext]_interactiveVars
        => [DropsOnlyWhatOverflows /\ TrimmedToFit']_vars
  <2> SUFFICES ASSUME InteractiveInv, [InteractiveNext]_interactiveVars
               PROVE  [DropsOnlyWhatOverflows /\ TrimmedToFit']_vars
    OBVIOUS
  <2>1. CASE UNCHANGED interactiveVars
    BY <2>1 DEF interactiveVars
  <2>2. CASE InteractiveNext
    <3>1. Recorder
      BY <2>2, InteractiveCases, TurnKeeps, CommandKeeps
    <3>2. DropsOnlyWhatOverflows /\ TrimmedToFit'
      BY <3>1, TrimmedStep DEF Recorder, InteractiveInv, SessionInv
    <3> QED
      BY <3>2
  <2> QED
    BY <2>1, <2>2
<1> QED
  BY <1>1, InteractiveInitially, InteractiveStep, PTL DEF InteractiveSpec, TrimmedExactly

=============================================================================
