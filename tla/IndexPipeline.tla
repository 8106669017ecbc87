--------------------------- MODULE IndexPipeline ---------------------------
(***************************************************************************)
(* The indexing pipeline of chatvcode-core and the three files it leaves   *)
(* behind: the incremental state (--state-file), the vector store          *)
(* (vectors.vdb) and the chunk metadata (vectors.atmd).                    *)
(*                                                                         *)
(* One run of index_path_with_options or index_with_embedding_service is   *)
(* the sequence of steps of pc; the user edits the project between runs,   *)
(* and during them when ConcurrentEdits; the process may die between any   *)
(* two steps and tear the file it was writing.                             *)
(*                                                                         *)
(* A version of a file is its stamp, the (mtime, size) pair that the code  *)
(* compares: every edit gives the file a stamp never used before.  Stamp 0 *)
(* stands for "no such file" and "no such entry".  A chunk is named by its *)
(* file and its rank in it, as chunk ids are path:kind:symbol:line, so the *)
(* id of a chunk survives an edit of its text.                             *)
(***************************************************************************)
EXTENDS Naturals

CONSTANTS
  Files,            \* the source files of the project
  MaxEdits,         \* bound on the number of edits of the project
  MaxChunks,        \* most chunks the parser makes of a file
  Modes,            \* which entry points are called, see ModeType
  Incremental,      \* is --state-file given?
  ConcurrentEdits   \* may the user edit the project while a run is under way?

\* parse_only: IndexOptions.embedding is None; onnx: index_path_with_options
\* creates the embedding service itself; service: the caller passes it (GGUF).
ModeType == {"parse_only", "onnx", "service"}

ASSUME PipelineAssumption ==
  /\ MaxEdits \in Nat
  /\ MaxChunks \in Nat
  /\ Modes \subseteq ModeType
  /\ Incremental \in BOOLEAN
  /\ ConcurrentEdits \in BOOLEAN

VARIABLES
  disk,       \* the project: stamp and number of chunks of each file
  clock,      \* the last stamp given
  stateFile,  \* the persisted IndexState
  vdbFile,    \* the persisted vector store: the text each vector was made from
  mdFile,     \* the persisted chunk metadata: the text kept for each chunk
  pc,         \* where the run is
  mode,       \* the entry point of the run
  prior,      \* the IndexState loaded at the start of the run
  unread,     \* files the scanner has not visited yet
  src,        \* what the run read of each file
  parsed,     \* files in the IndexResult
  store,      \* chunks in the InMemoryVectorStore of the run
  clean,      \* has the run met no failure?  (history)
  everParsed  \* every version that some run has parsed  (history)

project == <<disk, clock>>
files == <<stateFile, vdbFile, mdFile>>
vars == <<disk, clock, stateFile, vdbFile, mdFile, pc, mode, prior, unread,
          src, parsed, store, clean, everParsed>>

----------------------------------------------------------------------------
ChunkId == Files \X (1..MaxChunks)
NoFile == [stamp |-> 0, chunks |-> 0]

\* A file that is missing and one that was torn by a crash both fail to load.
NoState == [readable |-> FALSE, entry |-> [f \in Files |-> 0]]
NoStore == [readable |-> FALSE, text |-> [c \in ChunkId |-> 0]]

\* The ways an overwriting save can end: done, failed before the truncation,
\* failed after it.  A failure is only logged.
Saves(old, new, torn) ==
  {[file |-> new, ok |-> TRUE], [file |-> old, ok |-> FALSE],
   [file |-> torn, ok |-> FALSE]}

\* What a crash in the middle of a save may leave.
Remains(writing, old, torn) == IF writing THEN {old, torn} ELSE {old}

\* Mutant of HasFileChanged: a file the state knows is skipped.
HasFileChangedIfUnknown(f) ==
  \/ ~prior.readable
  \/ disk[f].stamp = 0
  \/ prior.entry[f] = 0

\* IndexState::has_file_changed on a fresh fs::metadata of the file.  Without
\* a loaded state nothing is filtered; a file that cannot be stat'ed is kept.
HasFileChanged(f) ==
  \/ ~prior.readable
  \/ disk[f].stamp = 0
  \/ prior.entry[f] # disk[f].stamp

\* Mutants of NewEntry: the time rounded up, failed files recorded as well, and
\* a new state that forgets the files skipped.
NewEntryRoundedUp(f) ==
  IF f \in parsed /\ disk[f].stamp # 0 THEN disk[f].stamp + 1 ELSE prior.entry[f]
NewEntryOfScanned(f) ==
  IF src[f] # NoFile /\ disk[f].stamp # 0 THEN disk[f].stamp ELSE prior.entry[f]
NewEntryForgetful(f) ==
  IF f \in parsed /\ disk[f].stamp # 0 THEN disk[f].stamp ELSE 0

\* The entry of f in the state about to be saved: record_file for the files
\* in the result, whatever was loaded for the others.
NewEntry(f) ==
  IF f \in parsed /\ disk[f].stamp # 0 THEN disk[f].stamp ELSE prior.entry[f]

\* All chunks of the IndexResult.
ResultChunks == {c \in ChunkId : c[1] \in parsed /\ c[2] <= src[c[1]].chunks}

\* Mutant of Embedded: the run adds to the store that is on disk.
EmbeddedOnTop(failed) ==
  (ResultChunks \ failed) \cup {c \in ChunkId : vdbFile.text[c] # 0}

\* The vector store of this run: it starts empty, and failed batches are left out.
Embedded(failed) == ResultChunks \ failed

\* Mutant of TextOf: the text is read again from the disk.
TextOfReread(chunks) ==
  [c \in ChunkId |-> IF c \in chunks THEN disk[c[1]].stamp ELSE 0]

\* What a save writes for these chunks: the text that the run read.
TextOf(chunks) == [c \in ChunkId |-> IF c \in chunks THEN src[c[1]].stamp ELSE 0]

----------------------------------------------------------------------------
Init ==
  /\ disk = [f \in Files |-> NoFile]
  /\ clock = 0
  /\ stateFile = NoState
  /\ vdbFile = NoStore
  /\ mdFile = NoStore
  /\ pc = "idle"
  /\ mode = "parse_only"
  /\ prior = NoState
  /\ unread = {}
  /\ src = [f \in Files |-> NoFile]
  /\ parsed = {}
  /\ store = {}
  /\ clean = FALSE
  /\ everParsed = [f \in Files |-> {}]

MayEdit == ConcurrentEdits \/ pc = "idle"

\* The user writes a new version of a file, or creates it.
Edit(f) ==
  /\ MayEdit
  /\ clock < MaxEdits
  /\ clock' = clock + 1
  /\ \E k \in 0..MaxChunks :
       disk' = [disk EXCEPT ![f] = [stamp |-> clock + 1, chunks |-> k]]
  /\ UNCHANGED <<files, pc, mode, prior, unread, src, parsed, store, clean, everParsed>>

\* The user deletes a file.
Delete(f) ==
  /\ MayEdit
  /\ disk[f] # NoFile
  /\ disk' = [disk EXCEPT ![f] = NoFile]
  /\ UNCHANGED <<clock, files, pc, mode, prior, unread, src, parsed, store, clean, everParsed>>

\* A run starts and loads the state file; a load error means no state.
StartRun(m) ==
  /\ pc = "idle"
  /\ pc' = "reading"
  /\ mode' = m
  /\ prior' = IF Incremental /\ stateFile.readable THEN stateFile ELSE NoState
  /\ unread' = Files
  /\ src' = [f \in Files |-> NoFile]
  /\ parsed' = {}
  /\ store' = {}
  /\ clean' = TRUE
  /\ UNCHANGED <<project, files, everParsed>>

\* The scanner reads one file (a worker of the parallel scan_and_read).
ReadFile(f) ==
  /\ pc = "reading"
  /\ f \in unread
  /\ unread' = unread \ {f}
  /\ src' = [src EXCEPT ![f] = disk[f]]
  /\ UNCHANGED <<project, files, pc, mode, prior, parsed, store, clean, everParsed>>

\* A file that cannot be read becomes a scan error of the result.
ReadError(f) ==
  /\ pc = "reading"
  /\ f \in unread
  /\ disk[f] # NoFile
  /\ unread' = unread \ {f}
  /\ clean' = FALSE
  /\ UNCHANGED <<project, files, pc, mode, prior, src, parsed, store, everParsed>>

\* Unchanged files are dropped, the others parsed; a parser error drops a file.
SelectAndParse ==
  LET selected == {f \in Files : src[f] # NoFile /\ HasFileChanged(f)} IN
  /\ pc = "reading"
  /\ unread = {}
  /\ pc' = "parsed"
  /\ \E bad \in SUBSET selected :
       /\ parsed' = selected \ bad
       /\ clean' = (clean /\ bad = {})
  /\ everParsed' = [f \in Files |-> IF f \in parsed'
                                    THEN everParsed[f] \cup {src[f].stamp}
                                    ELSE everParsed[f]]
  /\ UNCHANGED <<project, files, mode, prior, unread, src, store>>

\* The new incremental state is saved, before anything is embedded.
SaveState ==
  /\ pc = "parsed"
  /\ pc' = "recorded"
  /\ IF Incremental
     THEN \E w \in Saves(stateFile, [readable |-> TRUE, entry |-> [f \in Files |-> NewEntry(f)]], NoState) :
            stateFile' = w.file /\ clean' = (clean /\ w.ok)
     ELSE UNCHANGED <<stateFile, clean>>
  /\ UNCHANGED <<project, vdbFile, mdFile, mode, prior, unread, src, parsed, store, everParsed>>

\* Without embedding options the run ends here.
FinishWithoutEmbedding ==
  /\ pc = "recorded"
  /\ mode = "parse_only"
  /\ pc' = "idle"
  /\ UNCHANGED <<project, files, mode, prior, unread, src, parsed, store, clean, everParsed>>

\* OnnxEmbeddingService::new fails: the run returns Ok early.
ServiceUnavailable ==
  /\ pc = "recorded"
  /\ mode = "onnx"
  /\ pc' = "idle"
  /\ clean' = FALSE
  /\ UNCHANGED <<project, files, mode, prior, unread, src, parsed, store, everParsed>>

\* The batches are embedded; those that fail are counted and skipped.
EmbedChunks ==
  /\ pc = "recorded"
  /\ mode # "parse_only"
  /\ pc' = "embedded"
  /\ \E failed \in SUBSET ResultChunks :
       /\ store' = Embedded(failed)
       /\ clean' = (clean /\ failed = {})
  /\ UNCHANGED <<project, files, mode, prior, unread, src, parsed, everParsed>>

\* The vector store is written only if something was embedded.
SaveVectors ==
  /\ pc = "embedded"
  /\ pc' = "vectors_saved"
  /\ IF store # {}
     THEN \E w \in Saves(vdbFile, [readable |-> TRUE, text |-> TextOf(store)], NoStore) :
            vdbFile' = w.file /\ clean' = (clean /\ w.ok)
     ELSE UNCHANGED <<vdbFile, clean>>
  /\ UNCHANGED <<project, stateFile, mdFile, mode, prior, unread, src, parsed, store, everParsed>>

\* The metadata of every chunk of the result is always written, and the run ends.
SaveMetadata ==
  /\ pc = "vectors_saved"
  /\ pc' = "idle"
  /\ \E w \in Saves(mdFile, [readable |-> TRUE, text |-> TextOf(ResultChunks)], NoStore) :
       mdFile' = w.file /\ clean' = (clean /\ w.ok)
  /\ UNCHANGED <<project, stateFile, vdbFile, mode, prior, unread, src, parsed, store, everParsed>>

\* The process dies; the file it was writing may be left torn.
Crash ==
  /\ pc # "idle"
  /\ pc' = "idle"
  /\ clean' = FALSE
  /\ stateFile' \in Remains(pc = "parsed" /\ Incremental, stateFile, NoState)
  /\ vdbFile' \in Remains(pc = "embedded" /\ store # {}, vdbFile, NoStore)
  /\ mdFile' \in Remains(pc = "vectors_saved", mdFile, NoStore)
  /\ UNCHANGED <<project, mode, prior, unread, src, parsed, store, everParsed>>

Next ==
  \/ \E f \in Files : Edit(f) \/ Delete(f) \/ ReadFile(f) \/ ReadError(f)
  \/ \E m \in Modes : StartRun(m)
  \/ SelectAndParse
  \/ SaveState
  \/ FinishWithoutEmbedding
  \/ ServiceUnavailable
  \/ EmbedChunks
  \/ SaveVectors
  \/ SaveMetadata
  \/ Crash

Spec == Init /\ [][Next]_vars

----------------------------------------------------------------------------
(* Properties *)

FileVersion == [stamp : 0..clock, chunks : 0..MaxChunks]
StateVersion == [readable : BOOLEAN, entry : [Files -> 0..clock]]
StoreVersion == [readable : BOOLEAN, text : [ChunkId -> 0..clock]]

\* Types; every stamp anywhere is one the project has had.
TypeOK ==
  /\ clock \in Nat
  /\ disk \in [Files -> FileVersion]
  /\ stateFile \in StateVersion
  /\ vdbFile \in StoreVersion
  /\ mdFile \in StoreVersion
  /\ pc \in {"idle", "reading", "parsed", "recorded", "embedded", "vectors_saved"}
  /\ mode \in ModeType
  /\ prior \in StateVersion
  /\ unread \subseteq Files
  /\ src \in [Files -> FileVersion]
  /\ parsed \subseteq Files
  /\ store \subseteq ChunkId
  /\ clean \in BOOLEAN
  /\ everParsed \in [Files -> SUBSET (0..clock)]

\* A run that embeds has just ended with no failure at all.
CleanEmbeddingRun == pc = "idle" /\ clean /\ mode # "parse_only"

\* A version the state file records (so the next run will skip it) was parsed
\* by some run: record_file is for files indexed successfully.
RecordedMeansParsed ==
  stateFile.readable =>
    \A f \in Files : stateFile.entry[f] # 0 => stateFile.entry[f] \in everParsed[f]

\* After a run without failures every file it read has been parsed at the
\* version it read, in this run or in the one whose state made it skip it;
\* crashes, torn state files and failed saves before it do not change that.
NoFileLeftOut ==
  pc = "idle" /\ clean =>
    \A f \in Files : src[f] # NoFile => src[f].stamp \in everParsed[f]

\* After a clean run that embeds, vectors and metadata describe the same texts,
\* or there is no metadata (and search re-indexes instead of using it).
VectorsMatchMetadata ==
  CleanEmbeddingRun =>
    \/ mdFile.text = NoStore.text
    \/ vdbFile = mdFile

\* A clean run over the whole project, whatever the files held before it,
\* leaves in the vector store exactly the chunks it read.
FullRunIndexesProject ==
  CleanEmbeddingRun /\ ~prior.readable /\ ResultChunks # {} =>
    vdbFile = [readable |-> TRUE,
               text |-> [c \in ChunkId |-> IF c[2] <= src[c[1]].chunks
                                           THEN src[c[1]].stamp ELSE 0]]

\* A save never forgets a file the state knew, nor goes back to an older
\* version of it: only a torn state file is started afresh.
StateNeverRewinds ==
  [][stateFile.readable /\ stateFile'.readable =>
       \A f \in Files : stateFile.entry[f] <= stateFile'.entry[f]]_vars

\* "the indexer will generate vector embeddings for all code chunks and
\* persist the vector store to disk" (EmbeddingOptions): when a run without failures
\* saves, the chunks that have their vector on disk, as they were read, keep it.
AllChunksPersisted ==
  [][vdbFile' # vdbFile /\ clean' =>
       \A c \in ChunkId : c[2] <= src[c[1]].chunks /\ vdbFile.text[c] = src[c[1]].stamp =>
                           vdbFile'.text[c] = vdbFile.text[c]]_vars

\* "Records the state of a file after successful indexing": between runs that
\* embed, a file that will be skipped has its vectors in the store.
RecordedMeansEmbedded ==
  pc = "idle" /\ stateFile.readable =>
    \A c \in ChunkId :
      /\ stateFile.entry[c[1]] = disk[c[1]].stamp
      /\ c[2] <= disk[c[1]].chunks
      => vdbFile.text[c] = disk[c[1]].stamp
=============================================================================
