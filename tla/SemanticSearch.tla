--------------------------- MODULE SemanticSearch ---------------------------
(***************************************************************************)
(* Search and retrieval for a chat (search_with_service, retrieve_context) *)
(* next to the pipeline that writes the files they read.                   *)
(*                                                                         *)
(* A request reads vectors.vdb, works in memory, and reads the metadata    *)
(* later: the two files may be replaced in between by an index run of      *)
(* another process.  Which chunks are similar to the query, and how they   *)
(* rank, is left open here (RetrievalRanking models it); a chunk whose     *)
(* symbol contains a keyword of the query is in Matching, and stays there  *)
(* as its symbol is part of its id.                                        *)
(***************************************************************************)
EXTENDS IndexPipeline, FiniteSets, TLC

CONSTANTS
  Matching,   \* chunks whose symbol contains a keyword of the query
  TopK,       \* options.top_k
  MaxAsks     \* bound on the number of requests

ASSUME SearchAssumption ==
  /\ Matching \subseteq ChunkId
  /\ TopK \in Nat
  /\ MaxAsks \in Nat

VARIABLES
  ask,        \* the request under way, or the last one
  asks        \* how many requests were made

searchVars == <<vars, ask, asks>>

\* retrieve_context answers a chat, search_with_service the search command.
AskKind == {"search", "chat"}
NoTexts == NoStore.text
NoAsk == [pc |-> "none", kind |-> "search", vec |-> NoTexts, raw |-> {},
          answer |-> <<>>, quiet |-> FALSE, lost |-> {}]

----------------------------------------------------------------------------
\* Over-retrieval: more candidates than are wanted, for the re-ranking.
OverRetrieve(n) ==
  LET wanted == IF TopK * 3 > TopK + 20 THEN TopK * 3 ELSE TopK + 20
  IN  IF wanted < n THEN wanted ELSE n

Present(texts) == {c \in ChunkId : texts[c] # 0}

\* The results of the vector search: any that reach min_score, at most search_k.
Similar(texts) ==
  {found \in SUBSET Present(texts) : Cardinality(found) <= OverRetrieve(Cardinality(Present(texts)))}

\* What re-indexing the project in memory finds; bad are the files that fail.
Reindexed(bad) ==
  [c \in ChunkId |-> IF c[1] \notin bad /\ c[2] <= disk[c[1]].chunks THEN disk[c[1]].stamp ELSE 0]

\* The metadata as loaded: a file that is missing or torn is an empty store.
LoadedMetadata == IF mdFile.readable THEN mdFile.text ELSE NoTexts

\* Mutant of ResolvedTexts: a search without metadata resolves nothing.
ResolvedTextsMetadataOnly(kind, bad) == LoadedMetadata

\* Where ids are resolved: in the metadata, or for a search without any, in the
\* project itself.  A chat has no such fallback.
ResolvedTexts(kind, bad) ==
  IF kind = "search" /\ Present(LoadedMetadata) = {} THEN Reindexed(bad) ELSE LoadedMetadata

\* Found chunks that resolve, and by their symbol those the metadata knows.
Candidates(texts) ==
  {c \in ask.raw : texts[c] # 0} \cup {c \in Matching \ ask.raw : LoadedMetadata[c] # 0}

\* What is left of the candidates after the ranking and truncate(top_k).
Best(cands) ==
  {s \in SUBSET cands : Cardinality(s) = IF Cardinality(cands) < TopK THEN Cardinality(cands) ELSE TopK}

----------------------------------------------------------------------------
SearchInit == Init /\ ask = NoAsk /\ asks = 0

Idle == ask.pc \in {"none", "answered", "failed"} /\ asks < MaxAsks

\* A request as it is after the search; its store is taken to be empty when it
\* could not be loaded.
Begin(kind, outcome, texts, found) ==
  /\ asks' = asks + 1
  /\ ask' = [NoAsk EXCEPT !.pc = outcome, !.kind = kind, !.vec = texts, !.raw = found,
                          !.quiet = (pc = "idle")]
  /\ UNCHANGED vars

\* vectors.vdb cannot be loaded, or the query cannot be embedded.
AskFails(kind) ==
  /\ Idle
  /\ Begin(kind, "failed", NoTexts, {})

\* The store is empty, or nothing in it is similar enough.
AskFindsNothing(kind) ==
  /\ Idle
  /\ vdbFile.readable
  /\ {} \in Similar(vdbFile.text)
  /\ Begin(kind, "answered", vdbFile.text, {})

\* The store is loaded and searched.
AskFinds(kind) ==
  /\ Idle
  /\ vdbFile.readable
  /\ \E found \in Similar(vdbFile.text) \ {{}} :
       Begin(kind, "found", vdbFile.text, found)

\* The ids found are resolved, the rest added, ranked and truncated.
Resolve ==
  /\ ask.pc = "found"
  /\ \E bad \in SUBSET {f \in Files : disk[f] # NoFile} :
       LET texts == ResolvedTexts(ask.kind, bad)
           cands == Candidates(texts) IN
       \E best \in Best(cands) :
         ask' = [ask EXCEPT !.pc = "answered",
                            !.answer = [c \in best |-> texts[c]],
                            !.lost = {c \in ask.raw \ cands : c[1] \notin bad /\ c[2] <= disk[c[1]].chunks}]
  /\ UNCHANGED <<vars, asks>>

\* A step of the indexer or of the user.
PipelineStep ==
  /\ Next
  /\ ask' = [ask EXCEPT !.quiet = @ /\ pc' = "idle"]
  /\ UNCHANGED asks

SearchNext ==
  \/ PipelineStep
  \/ \E kind \in AskKind : AskFails(kind) \/ AskFindsNothing(kind) \/ AskFinds(kind)
  \/ Resolve

SearchSpec == SearchInit /\ [][SearchNext]_searchVars

----------------------------------------------------------------------------
(* Properties *)

\* The request was answered from what a run without failures left, and no run
\* started meanwhile.
AnsweredQuietly == ask.pc = "answered" /\ ask.quiet /\ CleanEmbeddingRun

\* From the project to the answer: what a request returns after a clean run
\* over the whole project, whatever the files held before it and however the
\* user edits the project since, is a chunk that run read, with the text it
\* read, found by its vector or by its name.
AnswersDescribeTheRun ==
  AnsweredQuietly /\ ~prior.readable /\ ResultChunks # {} =>
    \A c \in DOMAIN ask.answer :
      /\ c \in ResultChunks
      /\ ask.answer[c] = src[c[1]].stamp

\* A chunk that the vector search found and that the project still has is not
\* lost by the search command between the two files: the metadata has it, or
\* re-indexing finds it.
SearchResolvesWhatItFinds ==
  AnsweredQuietly /\ ask.kind = "search" => ask.lost = {}

\* "Returns an ChatVCodeError if [...] The metadata store file is missing or
\* corrupt" (chat_with_context).
MissingMetadataIsAnError ==
  [][Resolve /\ ask.kind = "chat" => mdFile.readable]_searchVars

----------------------------------------------------------------------------
(* For TLC: the first chunk of every file is one whose symbol the query     *)
(* names, so files stay interchangeable.                                    *)

FirstChunks == {c \in ChunkId : c[2] = 1}
FileSymmetry == Permutations(Files)
=============================================================================
