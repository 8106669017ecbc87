-------------------------- MODULE RetrievalRanking --------------------------
(***************************************************************************)
(* What search_with_service and retrieve_context do with the chunks that   *)
(* resolved: the file named in the query and its keywords, the injection   *)
(* of chunks by symbol name, the re-ranking and the cut to top_k; and how  *)
(* their snippets become the context of a prompt.                          *)
(*                                                                         *)
(* A score is a whole number of hundredths; a combined score is multiplied *)
(* by what it is a fraction of, so that the order is exact. A chunk is a   *)
(* record: its similarity (NotFound when the vector search did not return  *)
(* it), how many keywords its text has, whether its symbol is or contains  *)
(* a keyword, and whether it lies in the file the query names.             *)
(***************************************************************************)
EXTENDS Integers, Sequences, FiniteSetsExt, SequencesExt

NotFound == -1
SymbolMatch == {"exact", "contains", "none"}

----------------------------------------------------------------------------
(* The query, a sequence of words.  A word is a record: its text (one of   *)
(* the words a path is made of, for a path), its kind and its length.      *)

WordKind == {"plain", "stop", "phrase", "slash", "file"}

\* The first of the words of one kind; of several paths, the longest.
FirstOf(query, kind) ==
  LET at == {i \in DOMAIN query : query[i].kind = kind} IN
  IF at = {} THEN 0 ELSE Min(at)
LongestPath(query) ==
  LET at == {i \in DOMAIN query : query[i].kind = "slash"}
      longest == {i \in at : \A j \in at : query[j].length <= query[i].length} IN
  IF at = {} THEN 0 ELSE Min(longest)

\* extract_file_path_from_query, as the positions that are the path: all that
\* follows "in file", else the longest word with a slash, else a word with the
\* extension of a source file.
PathWords(query) ==
  LET phrase == FirstOf(query, "phrase")
      slash == LongestPath(query)
      file == FirstOf(query, "file") IN
  CASE phrase # 0 /\ phrase < Len(query) -> phrase + 1 .. Len(query)
    [] slash # 0 -> {slash}
    [] file # 0 -> {file}
    [] OTHER -> {}

\* Mutant of Cleaned: the path stays in the query.
CleanedNot(query) == query

\* The query without its path.  The words of the phrase are stop words.
Cleaned(query) ==
  LET kept(i) == i \notin PathWords(query) IN
  [i \in {j \in DOMAIN query : kept(j)} |-> query[i]]

\* extract_keywords: words of three letters or more that are no stop words.
\* Punctuation splits a path into its words.
ExtractKeywords(query) ==
  UNION {Cleaned(query)[i].words : i \in {j \in DOMAIN Cleaned(query) :
                                            /\ Cleaned(query)[j].kind \notin {"stop", "phrase"}
                                            /\ Cleaned(query)[j].length >= 3}}

----------------------------------------------------------------------------
(* Ranking.  entry is the command: "search" and "chat" differ in details.  *)

\* keyword_score for n keywords, in units of 1/(10 n), at most 1.
KeywordScore(chunk, n) ==
  LET boost == CASE chunk.symbol = "exact" -> 6
                 [] chunk.symbol = "contains" -> 2
                 [] OTHER -> 0
      score == 10 * chunk.matches + boost * n IN
  IF score > 10 * n THEN 10 * n ELSE score

\* The chunks the vector search returned, and the best similarity of them.
Found(chunks) == {i \in DOMAIN chunks : chunks[i].sim # NotFound}
Similarities(chunks, at) == {chunks[i].sim : i \in at}

\* Symbol-name injection: chunks the vector search did not return.
Injected(chunks, n) ==
  {i \in DOMAIN chunks \ Found(chunks) : n > 0 /\ chunks[i].symbol # "none"}

\* Mutant of Boosted: an injected chunk gets no similarity at all.
BoostedNot(chunks, i) == IF i \in Found(chunks) THEN chunks[i].sim ELSE 0

\* The similarity of a candidate: an injected one gets the best and 0.01 more.
Boosted(chunks, i) ==
  IF i \in Found(chunks) THEN chunks[i].sim
  ELSE Max(Similarities(chunks, Found(chunks))) + 1

\* Are the similarities too close to tell chunks apart?  A chat looks at what
\* the vector search returned, if there are two; a search at all candidates.
Uniform(entry, chunks, sims) ==
  LET raw == Similarities(chunks, Found(chunks)) IN
  IF entry = "chat" THEN Cardinality(Found(chunks)) >= 2 /\ Max(raw) - Min(raw) < 10
                    ELSE Max(sims) - Min(sims) < 10

\* The combined score, as a number to compare with the others of the same query.
Combined(entry, chunks, n, i) ==
  LET cands == Found(chunks) \cup Injected(chunks, n)
      sims == {Boosted(chunks, j) : j \in cands}
      range == Max(sims) - Min(sims)
      scale == IF range = 0 THEN 2 ELSE range
      norm == IF range = 0 THEN 1 ELSE Boosted(chunks, i) - Min(sims)
      keyword == IF Uniform(entry, chunks, sims) THEN 6 ELSE 3
      file == IF chunks[i].inFile THEN 20 * n * scale ELSE 0 IN
  (10 - keyword) * norm * 10 * n + keyword * KeywordScore(chunks[i], n) * scale + file

\* Without keywords the similarity stands, with 0.2 for a chunk of the file.
Score(entry, chunks, n, i) ==
  IF n > 0 THEN Combined(entry, chunks, n, i)
  ELSE chunks[i].sim + (IF chunks[i].inFile THEN 20 ELSE 0)

\* The possible answers: the best top_k by score, ties in any order (injected
\* chunks come in the order of a HashMap).
Ranked(entry, chunks, n, k) ==
  LET cands == Found(chunks) \cup Injected(chunks, n)
      size == IF Cardinality(cands) < k THEN Cardinality(cands) ELSE k IN
  {best \in SUBSET cands :
     /\ Cardinality(best) = size
     /\ \A i \in best, j \in cands \ best : Score(entry, chunks, n, i) >= Score(entry, chunks, n, j)}

----------------------------------------------------------------------------
(* The context of a prompt: the token budget of retrieve_context, and then *)
(* that of ChatPromptBuilder::build, which counts a header for every       *)
(* snippet against the same budget.  A snippet is its length in bytes; a   *)
(* budget of 0 is no limit.                                                *)

CharsPerToken == 4
HeaderLength == 18    \* "--- snippet 1 ---" and a newline
EllipsisLength == 3   \* "..." behind a snippet that was cut
Unlimited == 1000000  \* usize::MAX

Less(a, b) == IF a < b THEN 0 ELSE a - b   \* saturating_sub

----------------------------------------------------------------------------
\* apply_token_budget: whole snippets while they fit, then one cut to the rest.
Budgeted(snippets, budget) ==
  LET step(acc, len) ==
        IF acc.left = 0 THEN acc
        ELSE IF len <= acc.left
        THEN [kept |-> Append(acc.kept, len), left |-> acc.left - len]
        ELSE [kept |-> Append(acc.kept, acc.left + EllipsisLength), left |-> 0] IN
  IF budget = 0 THEN snippets
  ELSE FoldLeft(step, [kept |-> <<>>, left |-> budget * CharsPerToken], snippets).kept

\* The source references of the answer: as many as snippets were used.
UsedCount(snippets, budget) == Len(Budgeted(snippets, budget))

\* Mutant of InPrompt: the headers are not counted.
InPromptFreeHeaders(snippets, budget) == Budgeted(snippets, budget)

\* Mutant of InPrompt: every snippet is cut to an equal share.
InPromptEvenly(snippets, budget) ==
  [i \in DOMAIN snippets |->
     LET share == Less((budget * CharsPerToken) \div Len(snippets), HeaderLength) IN
     IF budget = 0 \/ snippets[i] <= share THEN snippets[i] ELSE share]

\* ChatPromptBuilder::build: what it writes of each snippet it reaches.
InPrompt(snippets, budget) ==
  LET step(acc, len) ==
        LET room == Less(acc.left, HeaderLength)
            cut == IF len > room THEN room ELSE len IN
        IF acc.left = 0 THEN acc
        ELSE [kept |-> Append(acc.kept, cut), left |-> Less(acc.left, HeaderLength + cut)] IN
  FoldLeft(step, [kept |-> <<>>, left |-> IF budget > 0 THEN budget * CharsPerToken ELSE Unlimited],
           snippets).kept

\* The context of a chat: the two budgets one after the other.
ChatContext(snippets, budget) == InPrompt(Budgeted(snippets, budget), budget)

\* The prompt of a chat without any source has its own system prompt.
SystemPrompt(snippets, budget) ==
  IF UsedCount(snippets, budget) = 0 THEN "no_context" ELSE "with_context"

Total(lengths) == FoldLeft(LAMBDA a, b : a + b, 0, lengths)
=============================================================================
