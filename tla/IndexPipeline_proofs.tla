------------------------ MODULE IndexPipeline_proofs ------------------------
(***************************************************************************)
(* Proofs about IndexPipeline, for every set of files, every bound and     *)
(* every combination of entry points, and about SemanticSearch, for every  *)
(* query and every interleaving of a request with the runs and the edits.  *)
(***************************************************************************)
EXTENDS SemanticSearch, TLAPS

\* A save leaves the old file, the new one or a torn one, and only the new one
\* counts as saved.
LEMMA SavesOutcome ==
  ASSUME NEW old, NEW new, NEW torn, NEW w \in Saves(old, new, torn)
  PROVE  /\ w.file \in {old, new, torn}
         /\ w.ok \in BOOLEAN
         /\ w.ok => w.file = new
<1>1. CASE w = [file |-> new, ok |-> TRUE]
  BY <1>1
<1>2. CASE w = [file |-> old, ok |-> FALSE]
  BY <1>2
<1>3. CASE w = [file |-> torn, ok |-> FALSE]
  BY <1>3
<1> QED
  BY <1>1, <1>2, <1>3 DEF Saves

\* Types are inductive on their own: every step keeps TypeOK.
LEMMA TypeStep == TypeOK /\ [Next]_vars => TypeOK'
<1> SUFFICES ASSUME TypeOK, [Next]_vars PROVE TypeOK'
  OBVIOUS
<1> USE PipelineAssumption DEF TypeOK, FileVersion, StateVersion, StoreVersion, ModeType
<1>1. ASSUME NEW f \in Files, Edit(f) PROVE TypeOK'
  <2>1. clock' = clock + 1 /\ clock' \in Nat /\ 0..clock \subseteq 0..clock'
    BY <1>1 DEF Edit
  <2>2. PICK k \in 0..MaxChunks : disk' = [disk EXCEPT ![f] = [stamp |-> clock + 1, chunks |-> k]]
    BY <1>1 DEF Edit
  <2>3. disk' \in [Files -> FileVersion']
    BY <2>1, <2>2
  <2>4. UNCHANGED <<files, pc, mode, prior, unread, src, parsed, store, clean, everParsed>>
    BY <1>1 DEF Edit
  <2>5. /\ stateFile' \in StateVersion' /\ prior' \in StateVersion'
        /\ vdbFile' \in StoreVersion' /\ mdFile' \in StoreVersion'
    BY <2>1, <2>4 DEF files
  <2>6. src' \in [Files -> FileVersion']
    BY <2>1, <2>4
  <2>7. everParsed' \in [Files -> SUBSET (0..clock')]
    BY <2>1, <2>4
  <2> QED
    BY <2>1, <2>3, <2>4, <2>5, <2>6, <2>7
<1>2. ASSUME NEW f \in Files, Delete(f) PROVE TypeOK'
  BY <1>2 DEF Delete, files, NoFile
<1>3. ASSUME NEW m \in Modes, StartRun(m) PROVE TypeOK'
  <2>1. NoState \in StateVersion /\ [f \in Files |-> NoFile] \in [Files -> FileVersion]
    BY DEF NoState, NoFile
  <2> QED
    BY <1>3, <2>1 DEF StartRun, files, project
<1>4. ASSUME NEW f \in Files, ReadFile(f) PROVE TypeOK'
  BY <1>4 DEF ReadFile, files, project
<1>5. ASSUME NEW f \in Files, ReadError(f) PROVE TypeOK'
  BY <1>5 DEF ReadError, files, project
<1>6. CASE SelectAndParse
  <2>1. parsed' \subseteq Files /\ clean' \in BOOLEAN
    BY <1>6 DEF SelectAndParse
  <2>2. everParsed' \in [Files -> SUBSET (0..clock)]
    BY <1>6, <2>1 DEF SelectAndParse
  <2> QED
    BY <1>6, <2>1, <2>2 DEF SelectAndParse, files, project
<1>7. CASE SaveState
  <2>1. \A f \in Files : NewEntry(f) \in 0..clock
    BY DEF NewEntry
  <2>2. [readable |-> TRUE, entry |-> [f \in Files |-> NewEntry(f)]] \in StateVersion
    BY <2>1
  <2>3. NoState \in StateVersion
    BY DEF NoState
  <2>4. stateFile' \in StateVersion /\ clean' \in BOOLEAN
    <3> DEFINE saved == [readable |-> TRUE, entry |-> [f \in Files |-> NewEntry(f)]]
    <3>1. CASE Incremental
      <4>1. PICK w \in Saves(stateFile, saved, NoState) :
              stateFile' = w.file /\ clean' = (clean /\ w.ok)
        BY <1>7, <3>1 DEF SaveState
      <4>2. w.file \in {stateFile, saved, NoState} /\ w.ok \in BOOLEAN
        BY SavesOutcome
      <4>3. stateFile' \in StateVersion
        BY <2>2, <2>3, <4>1, <4>2
      <4> QED
        BY <4>1, <4>2, <4>3
    <3>2. CASE ~Incremental
      BY <1>7, <3>2 DEF SaveState
    <3> QED
      BY <3>1, <3>2
  <2> QED
    BY <1>7, <2>4 DEF SaveState, files, project
<1>8. CASE FinishWithoutEmbedding
  BY <1>8 DEF FinishWithoutEmbedding, files, project
<1>9. CASE ServiceUnavailable
  BY <1>9 DEF ServiceUnavailable, files, project
<1>10. CASE EmbedChunks
  BY <1>10 DEF EmbedChunks, Embedded, ResultChunks, files, project
<1>11. ASSUME NEW chunks PROVE [readable |-> TRUE, text |-> TextOf(chunks)] \in StoreVersion
  <2>1. \A c \in ChunkId : src[c[1]].stamp \in 0..clock
    BY DEF ChunkId
  <2> QED
    BY <2>1 DEF TextOf
<1>12. NoStore \in StoreVersion
  BY DEF NoStore
<1>13. CASE SaveVectors
  <2> DEFINE saved == [readable |-> TRUE, text |-> TextOf(store)]
  <2>1. vdbFile' \in StoreVersion /\ clean' \in BOOLEAN
    <3>1. CASE store # {}
      <4>1. PICK w \in Saves(vdbFile, saved, NoStore) :
              vdbFile' = w.file /\ clean' = (clean /\ w.ok)
        BY <1>13, <3>1 DEF SaveVectors
      <4>2. w.file \in {vdbFile, saved, NoStore} /\ w.ok \in BOOLEAN
        BY SavesOutcome
      <4>3. vdbFile' \in StoreVersion
        BY <1>11, <1>12, <4>1, <4>2
      <4> QED
        BY <4>1, <4>2, <4>3
    <3>2. CASE store = {}
      BY <1>13, <3>2 DEF SaveVectors
    <3> QED
      BY <3>1, <3>2
  <2> QED
    BY <1>13, <2>1 DEF SaveVectors, files, project
<1>14. CASE SaveMetadata
  <2> DEFINE saved == [readable |-> TRUE, text |-> TextOf(ResultChunks)]
  <2>1. mdFile' \in StoreVersion /\ clean' \in BOOLEAN
    <3>1. PICK w \in Saves(mdFile, saved, NoStore) :
            mdFile' = w.file /\ clean' = (clean /\ w.ok)
      BY <1>14 DEF SaveMetadata
    <3>2. w.file \in {mdFile, saved, NoStore} /\ w.ok \in BOOLEAN
      BY SavesOutcome
    <3>3. mdFile' \in StoreVersion
      BY <1>11, <1>12, <3>1, <3>2
    <3> QED
      BY <3>1, <3>2, <3>3
  <2> QED
    BY <1>14, <2>1 DEF SaveMetadata, files, project
<1>15. CASE Crash
  <2>1. NoState \in StateVersion
    BY DEF NoState
  <2> QED
    BY <1>12, <1>15, <2>1 DEF Crash, Remains, project
<1>16. CASE UNCHANGED vars
  BY <1>16 DEF vars
<1> QED
  BY <1>1, <1>2, <1>3, <1>4, <1>5, <1>6, <1>7, <1>8, <1>9, <1>10, <1>13, <1>14,
     <1>15, <1>16 DEF Next

LEMMA TypeInit == Init => TypeOK
<1> SUFFICES ASSUME Init PROVE TypeOK
  OBVIOUS
<1> USE DEF Init
<1>1. disk \in [Files -> FileVersion] /\ src \in [Files -> FileVersion]
  BY PipelineAssumption DEF FileVersion, NoFile
<1>2. stateFile \in StateVersion /\ prior \in StateVersion
  BY DEF StateVersion, NoState
<1>3. vdbFile \in StoreVersion /\ mdFile \in StoreVersion
  BY DEF StoreVersion, NoStore
<1>4. everParsed \in [Files -> SUBSET (0..clock)]
  OBVIOUS
<1> QED
  BY <1>1, <1>2, <1>3, <1>4 DEF TypeOK, ModeType

\* Type correctness of the pipeline, whatever the edits, failures and crashes.
THEOREM TypeCorrect == Spec => []TypeOK
  BY TypeInit, TypeStep, PTL DEF Spec
----------------------------------------------------------------------------
(* The incremental state when nobody edits the project during a run. *)

\* What an IndexState records was parsed.
OnlyParsed(state) ==
  \A f \in Files : state.entry[f] # 0 => state.entry[f] \in everParsed[f]

\* What the run has read is still what the disk holds ...
ReadIsCurrent ==
  pc = "reading" => \A f \in Files : src[f] # NoFile => src[f] = disk[f]

\* ... and so is what it has parsed, until the state is saved.
ParsedIsCurrent ==
  pc = "parsed" => \A f \in parsed : disk[f].stamp \in everParsed[f]

\* NoFileLeftOut from the selection on, not just at the end of the run.
NothingSkippedUnparsed ==
  pc # "reading" /\ clean =>
    \A f \in Files : src[f] # NoFile => src[f].stamp \in everParsed[f]

\* The inductive invariant. RecordedMeansParsed is not inductive alone: the
\* entries to be saved come from the disk and from the state loaded before.
RecordInv ==
  /\ TypeOK
  /\ OnlyParsed(stateFile)
  /\ OnlyParsed(prior)
  /\ ReadIsCurrent
  /\ ParsedIsCurrent
  /\ NothingSkippedUnparsed

LEMMA RecordInvInit == Init => RecordInv
  BY TypeInit
  DEF Init, RecordInv, OnlyParsed, ReadIsCurrent, ParsedIsCurrent, NothingSkippedUnparsed,
      NoState

LEMMA RecordInvStep ==
  ASSUME ConcurrentEdits = FALSE
  PROVE  RecordInv /\ [Next]_vars => RecordInv'
<1> SUFFICES ASSUME RecordInv, [Next]_vars PROVE RecordInv'
  OBVIOUS
<1> USE DEF RecordInv
<1>0. TypeOK'
  BY TypeStep
<1> DEFINE Rest == /\ OnlyParsed(stateFile)' /\ OnlyParsed(prior)' /\ ReadIsCurrent'
                   /\ ParsedIsCurrent' /\ NothingSkippedUnparsed'
<1> SUFFICES Rest
  BY <1>0
<1> USE DEF OnlyParsed, ReadIsCurrent, ParsedIsCurrent, NothingSkippedUnparsed
<1>1. ASSUME NEW f \in Files, Edit(f) PROVE Rest
  BY <1>1 DEF Edit, MayEdit, files
<1>2. ASSUME NEW f \in Files, Delete(f) PROVE Rest
  BY <1>2 DEF Delete, MayEdit, files
<1>3. ASSUME NEW m \in Modes, StartRun(m) PROVE Rest
  BY <1>3 DEF StartRun, NoState, files, project
<1>4. ASSUME NEW f \in Files, ReadFile(f) PROVE Rest
  BY <1>4 DEF ReadFile, files, project, TypeOK
<1>5. ASSUME NEW f \in Files, ReadError(f) PROVE Rest
  BY <1>5 DEF ReadError, files, project
<1>6. CASE SelectAndParse
  <2> DEFINE selected == {f \in Files : src[f] # NoFile /\ HasFileChanged(f)}
  <2>1. PICK bad \in SUBSET selected :
          parsed' = selected \ bad /\ clean' = (clean /\ bad = {})
    BY <1>6 DEF SelectAndParse
  <2>2. \A f \in Files : everParsed'[f] = IF f \in parsed' THEN everParsed[f] \cup {src[f].stamp}
                                                          ELSE everParsed[f]
    BY <1>6 DEF SelectAndParse
  <2>3. OnlyParsed(stateFile)' /\ OnlyParsed(prior)'
    BY <1>6, <2>2 DEF SelectAndParse, files
  <2>4. ParsedIsCurrent'
    BY <1>6, <2>1, <2>2 DEF SelectAndParse, project
  <2>5. ASSUME clean', NEW f \in Files, src[f] # NoFile PROVE src[f].stamp \in everParsed'[f]
    <3>1. CASE f \in selected
      BY <2>1, <2>2, <2>5, <3>1
    <3>2. CASE f \notin selected
      <4>1. prior.entry[f] = disk[f].stamp /\ disk[f].stamp # 0 /\ src[f] = disk[f]
        BY <1>6, <2>5, <3>2 DEF HasFileChanged, SelectAndParse
      <4> QED
        BY <2>2, <4>1
    <3> QED
      BY <3>1, <3>2
  <2> QED
    BY <1>6, <2>3, <2>4, <2>5 DEF SelectAndParse, project
<1>7. CASE SaveState
  <2> DEFINE saved == [readable |-> TRUE, entry |-> [f \in Files |-> NewEntry(f)]]
  <2>1. OnlyParsed(saved)
    BY <1>7 DEF NewEntry, SaveState
  <2>2. stateFile' \in {stateFile, saved, NoState} /\ (clean' => clean)
    <3>1. CASE Incremental
      <4>1. PICK w \in Saves(stateFile, saved, NoState) :
              stateFile' = w.file /\ clean' = (clean /\ w.ok)
        BY <1>7, <3>1 DEF SaveState
      <4> QED
        BY <4>1, SavesOutcome
    <3>2. CASE ~Incremental
      BY <1>7, <3>2 DEF SaveState
    <3> QED
      BY <3>1, <3>2
  <2>3. OnlyParsed(NoState)
    BY DEF NoState
  <2>4. OnlyParsed(stateFile)'
    BY <1>7, <2>1, <2>2, <2>3 DEF SaveState
  <2> QED
    BY <1>7, <2>2, <2>4 DEF SaveState, project
<1>8. CASE FinishWithoutEmbedding
  BY <1>8 DEF FinishWithoutEmbedding, files, project
<1>9. CASE ServiceUnavailable
  BY <1>9 DEF ServiceUnavailable, files, project
<1>10. CASE EmbedChunks
  BY <1>10 DEF EmbedChunks, files, project
<1>11. CASE SaveVectors
  BY <1>11 DEF SaveVectors, files, project
<1>12. CASE SaveMetadata
  BY <1>12 DEF SaveMetadata, files, project
<1>13. CASE Crash
  BY <1>13 DEF Crash, Remains, NoState, files, project
<1>14. CASE UNCHANGED vars
  BY <1>14 DEF vars
<1> QED
  BY <1>1, <1>2, <1>3, <1>4, <1>5, <1>6, <1>7, <1>8, <1>9, <1>10, <1>11, <1>12, <1>13, <1>14 DEF Next

\* When nobody edits the project during a run, the state file records only
\* versions that some run has parsed, whatever fails, is torn or crashes.
THEOREM RecordedWasParsed ==
  ASSUME ConcurrentEdits = FALSE
  PROVE  Spec => []RecordedMeansParsed
<1>1. RecordInv => RecordedMeansParsed
  BY DEF RecordInv, OnlyParsed, RecordedMeansParsed
<1> QED
  BY <1>1, RecordInvInit, RecordInvStep, PTL DEF Spec

\* ... and a run without failures leaves no file it read unparsed.
THEOREM NothingLeftOut ==
  ASSUME ConcurrentEdits = FALSE
  PROVE  Spec => []NoFileLeftOut
<1>1. RecordInv => NoFileLeftOut
  BY DEF RecordInv, NothingSkippedUnparsed, NoFileLeftOut
<1> QED
  BY <1>1, RecordInvInit, RecordInvStep, PTL DEF Spec
----------------------------------------------------------------------------
(* The state file never goes back. *)

\* What a state records of a file that exists is not newer than the file.
NotNewerThanDisk(state) ==
  \A f \in Files : disk[f].stamp # 0 => state.entry[f] <= disk[f].stamp

\* Until the run saves the state, it holds the one that is on disk.
PriorIsSaved ==
  pc \in {"reading", "parsed"} /\ Incremental /\ stateFile.readable =>
    prior = stateFile

\* The inductive invariant: without PriorIsSaved a run could save what it never
\* loaded, without NotNewerThanDisk the time of a file could fall below the
\* recorded one.
RewindInv ==
  /\ TypeOK
  /\ NotNewerThanDisk(stateFile)
  /\ NotNewerThanDisk(prior)
  /\ PriorIsSaved

\* What SaveState may leave in the state file.
LEMMA SavedStates ==
  ASSUME SaveState
  PROVE  \/ stateFile' = stateFile
         \/ stateFile' = NoState
         \/ /\ Incremental
            /\ stateFile' = [readable |-> TRUE, entry |-> [f \in Files |-> NewEntry(f)]]
<1> DEFINE saved == [readable |-> TRUE, entry |-> [f \in Files |-> NewEntry(f)]]
<1>1. CASE Incremental
  <2>1. PICK w \in Saves(stateFile, saved, NoState) : stateFile' = w.file
    BY <1>1 DEF SaveState
  <2>2. w.file \in {stateFile, saved, NoState}
    BY SavesOutcome
  <2> QED
    BY <1>1, <2>1, <2>2
<1>2. CASE ~Incremental
  BY <1>2 DEF SaveState
<1> QED
  BY <1>1, <1>2

LEMMA RewindInvInit == Init => RewindInv
  BY TypeInit DEF Init, RewindInv, NotNewerThanDisk, PriorIsSaved, NoFile

LEMMA RewindInvStep == RewindInv /\ [Next]_vars => RewindInv'
<1> SUFFICES ASSUME RewindInv, [Next]_vars PROVE RewindInv'
  OBVIOUS
<1> USE DEF RewindInv
<1>0. TypeOK'
  BY TypeStep
<1> DEFINE Rest == /\ NotNewerThanDisk(stateFile)' /\ NotNewerThanDisk(prior)'
                   /\ PriorIsSaved'
<1> SUFFICES Rest
  BY <1>0
<1> USE DEF NotNewerThanDisk, PriorIsSaved
<1>1. ASSUME NEW f \in Files, Edit(f) PROVE Rest
  <2>1. \A g \in Files : stateFile.entry[g] \in 0..clock /\ prior.entry[g] \in 0..clock
    BY DEF TypeOK, StateVersion
  <2>2. PICK k : disk' = [disk EXCEPT ![f] = [stamp |-> clock + 1, chunks |-> k]]
    BY <1>1 DEF Edit
  <2>3. \A g \in Files : disk'[g].stamp = IF g = f THEN clock + 1 ELSE disk[g].stamp
    BY <2>2 DEF TypeOK
  <2>4. clock \in Nat /\ UNCHANGED <<stateFile, prior, pc>>
    BY <1>1 DEF Edit, files, TypeOK
  <2> QED
    BY <2>1, <2>3, <2>4
<1>2. ASSUME NEW f \in Files, Delete(f) PROVE Rest
  BY <1>2 DEF Delete, files, TypeOK, NoFile
<1>3. ASSUME NEW m \in Modes, StartRun(m) PROVE Rest
  <2>1. NotNewerThanDisk(NoState)
    BY DEF NoState, TypeOK, FileVersion
  <2> QED
    BY <1>3, <2>1 DEF StartRun, files, project
<1>4. ASSUME NEW f \in Files, ReadFile(f) PROVE Rest
  BY <1>4 DEF ReadFile, files, project
<1>5. ASSUME NEW f \in Files, ReadError(f) PROVE Rest
  BY <1>5 DEF ReadError, files, project
<1>6. CASE SelectAndParse
  BY <1>6 DEF SelectAndParse, files, project
<1>7. CASE SaveState
  <2>1. NotNewerThanDisk([readable |-> TRUE, entry |-> [f \in Files |-> NewEntry(f)]])
    BY DEF NewEntry, TypeOK, FileVersion
  <2>2. NotNewerThanDisk(NoState)
    BY DEF NoState, TypeOK, FileVersion
  <2>3. UNCHANGED <<disk, prior>> /\ pc' = "recorded"
    BY <1>7 DEF SaveState, project
  <2>4. NotNewerThanDisk(stateFile)'
    BY <1>7, <2>1, <2>2, <2>3, SavedStates
  <2> QED
    BY <2>3, <2>4
<1>8. CASE FinishWithoutEmbedding
  BY <1>8 DEF FinishWithoutEmbedding, files, project
<1>9. CASE ServiceUnavailable
  BY <1>9 DEF ServiceUnavailable, files, project
<1>10. CASE EmbedChunks
  BY <1>10 DEF EmbedChunks, files, project
<1>11. CASE SaveVectors
  BY <1>11 DEF SaveVectors, files, project
<1>12. CASE SaveMetadata
  BY <1>12 DEF SaveMetadata, files, project
<1>13. CASE Crash
  <2>1. NotNewerThanDisk(NoState)
    BY DEF NoState, TypeOK, FileVersion
  <2> QED
    BY <1>13, <2>1 DEF Crash, Remains, project
<1>14. CASE UNCHANGED vars
  BY <1>14 DEF vars
<1> QED
  BY <1>1, <1>2, <1>3, <1>4, <1>5, <1>6, <1>7, <1>8, <1>9, <1>10, <1>11, <1>12, <1>13, <1>14 DEF Next

\* The body of StateNeverRewinds.
Forward ==
  stateFile.readable /\ stateFile'.readable =>
    \A f \in Files : stateFile.entry[f] <= stateFile'.entry[f]

LEMMA StepIsForward == RewindInv /\ [Next]_vars => [Forward]_vars
<1> SUFFICES ASSUME RewindInv, [Next]_vars PROVE Forward
  OBVIOUS
<1>1. \A f \in Files : stateFile.entry[f] \in Nat /\ disk[f].stamp \in Nat
  BY DEF RewindInv, TypeOK, StateVersion, FileVersion
<1>2. CASE UNCHANGED stateFile
  BY <1>1, <1>2 DEF Forward
<1>3. CASE SaveState
  <2>1. ASSUME Incremental, stateFile.readable, NEW f \in Files
        PROVE  stateFile.entry[f] <= NewEntry(f)
    <3>1. prior = stateFile
      BY <1>3, <2>1 DEF SaveState, RewindInv, PriorIsSaved
    <3> QED
      BY <1>1, <2>1, <3>1 DEF NewEntry, RewindInv, NotNewerThanDisk
  <2> QED
    BY <1>1, <1>3, <2>1, SavedStates DEF Forward, NoState
<1>4. CASE Crash
  BY <1>1, <1>4 DEF Crash, Remains, Forward, NoState
<1> QED
  BY <1>2, <1>3, <1>4
  DEF Next, vars, files, Edit, Delete, StartRun, ReadFile, ReadError, SelectAndParse,
      FinishWithoutEmbedding, ServiceUnavailable, EmbedChunks, SaveVectors, SaveMetadata

\* No save of the state, in any run, after any crash and with edits at any time,
\* forgets a file or goes back to an older version of it.
THEOREM NeverRewinds == Spec => StateNeverRewinds
<1>1. Spec => []RewindInv
  BY RewindInvInit, RewindInvStep, PTL DEF Spec
<1>2. Spec => [][Forward]_vars
  BY <1>1, StepIsForward, PTL DEF Spec
<1> QED
  BY <1>2 DEF StateNeverRewinds, Forward
----------------------------------------------------------------------------
(* What a run that embeds leaves behind. *)

\* What a save of all the chunks of the run writes.
Written == [readable |-> TRUE, text |-> TextOf(ResultChunks)]

\* Without a state every file that was read is parsed, unless the parser fails.
AllParsed ==
  pc # "reading" /\ clean /\ ~prior.readable =>
    parsed = {f \in Files : src[f] # NoFile}

\* The store of the run holds all its chunks ...
StoreComplete ==
  pc \in {"embedded", "vectors_saved"} /\ clean => store = ResultChunks

\* ... its save has written them ...
VectorsWritten ==
  pc = "vectors_saved" /\ clean /\ ResultChunks # {} => vdbFile = Written

\* ... and so has, in the end, that of the metadata.
RunWritten ==
  CleanEmbeddingRun => mdFile = Written /\ (ResultChunks # {} => vdbFile = Written)

\* The inductive invariant: VectorsMatchMetadata is about the last state of a
\* run, and says nothing of the steps that lead to it.
EmbedInv ==
  /\ TypeOK
  /\ AllParsed
  /\ StoreComplete
  /\ VectorsWritten
  /\ RunWritten

\* None of the definitions above looks at anything but these variables.
Seen == <<vdbFile, mdFile, pc, mode, prior, src, parsed, store, clean>>

LEMMA SeenOnly ==
  ASSUME EmbedInv, UNCHANGED Seen
  PROVE  AllParsed' /\ StoreComplete' /\ VectorsWritten' /\ RunWritten'
BY DEF EmbedInv, Seen, AllParsed, StoreComplete, VectorsWritten, RunWritten, Written,
       CleanEmbeddingRun, ResultChunks, TextOf

LEMMA EmbedInvInit == Init => EmbedInv
  BY TypeInit
  DEF Init, EmbedInv, AllParsed, StoreComplete, VectorsWritten, RunWritten,
      CleanEmbeddingRun

LEMMA EmbedInvStep == EmbedInv /\ [Next]_vars => EmbedInv'
<1> SUFFICES ASSUME EmbedInv, [Next]_vars PROVE EmbedInv'
  OBVIOUS
<1>0. TypeOK'
  BY TypeStep DEF EmbedInv
<1> DEFINE Rest == AllParsed' /\ StoreComplete' /\ VectorsWritten' /\ RunWritten'
<1> SUFFICES Rest
  BY <1>0 DEF EmbedInv
<1>1. ASSUME NEW f \in Files, Edit(f) PROVE Rest
  BY <1>1, SeenOnly DEF Edit, files, Seen
<1>2. ASSUME NEW f \in Files, Delete(f) PROVE Rest
  BY <1>2, SeenOnly DEF Delete, files, Seen
<1>3. ASSUME NEW m \in Modes, StartRun(m) PROVE Rest
  BY <1>3 DEF StartRun, AllParsed, StoreComplete, VectorsWritten, RunWritten,
              CleanEmbeddingRun
<1>4. ASSUME NEW f \in Files, ReadFile(f) PROVE Rest
  BY <1>4 DEF ReadFile, AllParsed, StoreComplete, VectorsWritten, RunWritten,
              CleanEmbeddingRun
<1>5. ASSUME NEW f \in Files, ReadError(f) PROVE Rest
  BY <1>5 DEF ReadError, AllParsed, StoreComplete, VectorsWritten, RunWritten,
              CleanEmbeddingRun
<1>6. CASE SelectAndParse
  <2>1. AllParsed'
    <3> DEFINE selected == {f \in Files : src[f] # NoFile /\ HasFileChanged(f)}
    <3>1. PICK bad \in SUBSET selected :
            parsed' = selected \ bad /\ clean' = (clean /\ bad = {})
      BY <1>6 DEF SelectAndParse
    <3>2. ~prior.readable => selected = {f \in Files : src[f] # NoFile}
      BY DEF HasFileChanged
    <3> QED
      BY <1>6, <3>1, <3>2 DEF SelectAndParse, AllParsed
  <2> QED
    BY <1>6, <2>1 DEF SelectAndParse, StoreComplete, VectorsWritten, RunWritten,
                      CleanEmbeddingRun
<1>7. CASE SaveState
  <2>1. clean' => clean
    <3> DEFINE saved == [readable |-> TRUE, entry |-> [f \in Files |-> NewEntry(f)]]
    <3>1. CASE Incremental
      BY <1>7, <3>1 DEF SaveState
    <3>2. CASE ~Incremental
      BY <1>7, <3>2 DEF SaveState
    <3> QED
      BY <3>1, <3>2
  <2>2. AllParsed'
    BY <1>7, <2>1 DEF SaveState, AllParsed, EmbedInv
  <2> QED
    BY <1>7, <2>2 DEF SaveState, StoreComplete, VectorsWritten, RunWritten,
                      CleanEmbeddingRun
<1>8. CASE FinishWithoutEmbedding
  BY <1>8 DEF FinishWithoutEmbedding, EmbedInv, AllParsed, StoreComplete,
              VectorsWritten, RunWritten, CleanEmbeddingRun
<1>9. CASE ServiceUnavailable
  BY <1>9 DEF ServiceUnavailable, AllParsed, StoreComplete, VectorsWritten,
              RunWritten, CleanEmbeddingRun
<1>10. CASE EmbedChunks
  <2>1. ResultChunks' = ResultChunks
    BY <1>10 DEF EmbedChunks, ResultChunks
  <2>2. clean' => clean /\ store' = ResultChunks
    BY <1>10 DEF EmbedChunks, Embedded
  <2>3. AllParsed'
    BY <1>10, <2>2 DEF EmbedChunks, AllParsed, EmbedInv
  <2> QED
    BY <1>10, <2>1, <2>2, <2>3 DEF EmbedChunks, StoreComplete, VectorsWritten,
                                   RunWritten, CleanEmbeddingRun
<1>11. CASE SaveVectors
  <2>1. /\ ResultChunks' = ResultChunks /\ Written' = Written
        /\ UNCHANGED <<src, parsed, prior, store>> /\ pc = "embedded" /\ pc' = "vectors_saved"
    BY <1>11 DEF SaveVectors, ResultChunks, Written, TextOf
  <2>2. (clean' => clean) /\ (clean' /\ store # {} => vdbFile' = [readable |-> TRUE, text |-> TextOf(store)])
    <3> DEFINE saved == [readable |-> TRUE, text |-> TextOf(store)]
    <3>1. CASE store # {}
      <4>1. PICK w \in Saves(vdbFile, saved, NoStore) :
              vdbFile' = w.file /\ clean' = (clean /\ w.ok)
        BY <1>11, <3>1 DEF SaveVectors
      <4>2. w.ok \in BOOLEAN /\ (w.ok => w.file = saved)
        BY SavesOutcome
      <4> QED
        BY <4>1, <4>2
    <3>2. CASE store = {}
      BY <1>11, <3>2 DEF SaveVectors
    <3> QED
      BY <3>1, <3>2
  <2>3. clean' => store = ResultChunks
    BY <2>1, <2>2 DEF EmbedInv, StoreComplete
  <2>4. AllParsed' /\ StoreComplete'
    BY <2>1, <2>2, <2>3 DEF AllParsed, StoreComplete, EmbedInv
  <2>5. VectorsWritten' /\ RunWritten'
    BY <2>1, <2>2, <2>3 DEF VectorsWritten, RunWritten, CleanEmbeddingRun, Written
  <2> QED
    BY <2>4, <2>5
<1>12. CASE SaveMetadata
  <2>1. /\ ResultChunks' = ResultChunks /\ Written' = Written
        /\ UNCHANGED <<src, parsed, prior, store, vdbFile>>
        /\ pc = "vectors_saved" /\ pc' = "idle"
    BY <1>12 DEF SaveMetadata, ResultChunks, Written, TextOf
  <2>2. PICK w \in Saves(mdFile, Written, NoStore) :
          mdFile' = w.file /\ clean' = (clean /\ w.ok)
    BY <1>12 DEF SaveMetadata, Written
  <2>3. clean' => clean /\ mdFile' = Written
    BY <2>2, SavesOutcome
  <2>4. AllParsed' /\ StoreComplete' /\ VectorsWritten'
    BY <2>1, <2>3 DEF AllParsed, StoreComplete, VectorsWritten, EmbedInv
  <2>5. RunWritten'
    BY <2>1, <2>3 DEF RunWritten, CleanEmbeddingRun, VectorsWritten, EmbedInv
  <2> QED
    BY <2>4, <2>5
<1>13. CASE Crash
  BY <1>13 DEF Crash, AllParsed, StoreComplete, VectorsWritten, RunWritten,
               CleanEmbeddingRun
<1>14. CASE UNCHANGED vars
  BY <1>14, SeenOnly DEF vars, Seen
<1> QED
  BY <1>1, <1>2, <1>3, <1>4, <1>5, <1>6, <1>7, <1>8, <1>9, <1>10, <1>11, <1>12, <1>13, <1>14 DEF Next

\* After a run without failures that embeds, vectors and metadata describe the
\* same texts, or there is no metadata, with edits at any time.
THEOREM MetadataAgrees == Spec => []VectorsMatchMetadata
<1>1. EmbedInv => VectorsMatchMetadata
  <2> SUFFICES ASSUME EmbedInv, CleanEmbeddingRun PROVE VectorsMatchMetadata
    BY DEF VectorsMatchMetadata
  <2>1. mdFile = Written /\ (ResultChunks # {} => vdbFile = Written)
    BY DEF EmbedInv, RunWritten
  <2>2. CASE ResultChunks = {}
    BY <2>1, <2>2 DEF VectorsMatchMetadata, Written, TextOf, NoStore
  <2>3. CASE ResultChunks # {}
    BY <2>1, <2>3 DEF VectorsMatchMetadata
  <2> QED
    BY <2>2, <2>3
<1> QED
  BY <1>1, EmbedInvInit, EmbedInvStep, PTL DEF Spec

\* In terms of the invariant: the chunks that the run read are the ones it parsed.
LEMMA EmbedInvIsComplete == EmbedInv => FullRunIndexesProject
<1> SUFFICES ASSUME EmbedInv, CleanEmbeddingRun, ~prior.readable, ResultChunks # {}
             PROVE  vdbFile = [readable |-> TRUE,
                               text |-> [c \in ChunkId |-> IF c[2] <= src[c[1]].chunks
                                                           THEN src[c[1]].stamp ELSE 0]]
  BY DEF FullRunIndexesProject
<1>1. vdbFile = Written
  BY DEF EmbedInv, RunWritten
<1>2. parsed = {f \in Files : src[f] # NoFile}
  BY DEF EmbedInv, AllParsed, CleanEmbeddingRun
<1>3. ASSUME NEW c \in ChunkId
      PROVE  c \in ResultChunks <=> c[2] <= src[c[1]].chunks
  <2>1. c[1] \in Files /\ c[2] \in 1..MaxChunks
    BY DEF ChunkId
  <2>2. src[c[1]] = NoFile => ~(c[2] <= src[c[1]].chunks)
    BY <2>1 DEF NoFile
  <2> QED
    BY <1>2, <2>1, <2>2 DEF ResultChunks
<1> QED
  BY <1>1, <1>3 DEF Written, TextOf

\* A run without failures over the whole project leaves in the vector store the
\* text it read of every chunk and nothing else, whatever was there before.
THEOREM FullRunReplaces == Spec => []FullRunIndexesProject
BY EmbedInvIsComplete, EmbedInvInit, EmbedInvStep, PTL DEF Spec

----------------------------------------------------------------------------
(* SemanticSearch: a request next to the runs and the user's edits *)

\* A request is a record of these fields, whatever they hold.
AskShape ==
  ask = [pc |-> ask.pc, kind |-> ask.kind, vec |-> ask.vec, raw |-> ask.raw,
         answer |-> ask.answer, quiet |-> ask.quiet, lost |-> ask.lost]

\* Only a file that exists has chunks.
Real(versions) == \A f \in Files : versions[f].stamp = 0 => versions[f].chunks = 0
ChunksHaveFiles == Real(disk) /\ Real(src)

\* No run is under way during a quiet request, and until it is resolved the
\* store that it loaded is the one on disk.
QuietReadsTheDisk ==
  ask.quiet =>
    /\ pc = "idle"
    /\ ask.pc = "found" => vdbFile.readable /\ ask.vec = vdbFile.text

\* What was found is in the store that was loaded.
FoundIsStored == ask.pc = "found" => ask.raw \subseteq Present(ask.vec)

\* The inductive invariant. The two properties speak of answered requests only:
\* what a request holds between its two reads has to be said as well.
AskInv ==
  /\ EmbedInv
  /\ AskShape
  /\ ChunksHaveFiles
  /\ QuietReadsTheDisk
  /\ FoundIsStored
  /\ AnswersDescribeTheRun
  /\ SearchResolvesWhatItFinds

LEMMA AskInvInit == SearchInit => AskInv
<1> SUFFICES ASSUME SearchInit PROVE AskInv
  OBVIOUS
<1>1. Init /\ ask = NoAsk
  BY DEF SearchInit
<1>2. EmbedInv
  BY <1>1, EmbedInvInit
<1>3. /\ AskShape
      /\ ask.pc = "none"
      /\ ask.quiet = FALSE
  BY <1>1 DEF NoAsk, AskShape
<1>4. ChunksHaveFiles
  BY <1>1 DEF Init, NoFile, ChunksHaveFiles, Real
<1> QED
  BY <1>2, <1>3, <1>4
  DEF AskInv, QuietReadsTheDisk, FoundIsStored, AnswersDescribeTheRun,
      SearchResolvesWhatItFinds, AnsweredQuietly

\* A step that does not begin or end a run changes only the project.
LEMMA IdleStep ==
  ASSUME Next, pc = "idle", pc' = "idle"
  PROVE  UNCHANGED Seen
<1>1. \/ \E f \in Files : Edit(f) \/ Delete(f) \/ ReadFile(f) \/ ReadError(f)
      \/ \E m \in Modes : StartRun(m)
      \/ SelectAndParse \/ SaveState \/ FinishWithoutEmbedding \/ ServiceUnavailable
      \/ EmbedChunks \/ SaveVectors \/ SaveMetadata \/ Crash
  BY DEF Next
<1>2. ASSUME NEW f \in Files, Edit(f) \/ Delete(f)
      PROVE  UNCHANGED Seen
  BY <1>2 DEF Edit, Delete, files, Seen
<1> QED
  BY <1>1, <1>2
  DEF ReadFile, ReadError, StartRun, SelectAndParse, SaveState, FinishWithoutEmbedding,
      ServiceUnavailable, EmbedChunks, SaveVectors, SaveMetadata, Crash

\* Edits keep the files of the project real, and a run reads real files.
LEMMA ChunksHaveFilesStep ==
  ASSUME TypeOK, ChunksHaveFiles, [Next]_vars
  PROVE  ChunksHaveFiles'
<1> USE DEF ChunksHaveFiles
<1>1. ASSUME NEW f \in Files, Edit(f) PROVE ChunksHaveFiles'
  <2>1. PICK k \in 0..MaxChunks : disk' = [disk EXCEPT ![f] = [stamp |-> clock + 1, chunks |-> k]]
    BY <1>1 DEF Edit
  <2>2. disk \in [Files -> FileVersion] /\ clock \in Nat /\ src' = src
    BY <1>1 DEF TypeOK, Edit
  <2>3. \A g \in Files : disk'[g] = IF g = f THEN [stamp |-> clock + 1, chunks |-> k] ELSE disk[g]
    BY <2>1, <2>2
  <2> QED
    BY <2>2, <2>3 DEF Real
<1>2. ASSUME NEW f \in Files, Delete(f) PROVE ChunksHaveFiles'
  BY <1>2 DEF Delete, Real, NoFile, TypeOK
<1>3. ASSUME NEW f \in Files, ReadFile(f) PROVE ChunksHaveFiles'
  BY <1>3 DEF ReadFile, Real, project, TypeOK
<1>4. ASSUME NEW m \in Modes, StartRun(m) PROVE ChunksHaveFiles'
  BY <1>4 DEF StartRun, Real, project, NoFile
<1>5. CASE UNCHANGED <<disk, src>>
  BY <1>5 DEF Real
<1> QED
  BY <1>1, <1>2, <1>3, <1>4, <1>5
  DEF Next, vars, project, ReadError, SelectAndParse, SaveState, FinishWithoutEmbedding,
      ServiceUnavailable, EmbedChunks, SaveVectors, SaveMetadata, Crash

\* After a clean run that embeds, metadata that knows of a chunk is the vector
\* store, and the store then holds the chunks of that run as it read them.
LEMMA CleanFiles ==
  ASSUME EmbedInv, CleanEmbeddingRun
  PROVE  /\ \A c \in ChunkId : mdFile.text[c] = 0 \/ vdbFile = mdFile
         /\ mdFile.readable
         /\ ResultChunks # {} => vdbFile = Written
<1>1. mdFile = Written /\ (ResultChunks # {} => vdbFile = Written)
  BY DEF EmbedInv, RunWritten
<1>2. ResultChunks = {} => \A c \in ChunkId : mdFile.text[c] = 0
  BY <1>1 DEF Written, TextOf
<1> QED
  BY <1>1, <1>2 DEF Written
\* A step of the pipeline next to a request keeps what is said of the request.
LEMMA PipelineKeeps ==
  ASSUME AskInv, PipelineStep
  PROVE  AskInv'
<1>1. /\ Next
      /\ ask' = [ask EXCEPT !.quiet = ask.quiet /\ pc' = "idle"]
  BY DEF PipelineStep
<1>2. EmbedInv' /\ ChunksHaveFiles'
  BY <1>1, EmbedInvStep, ChunksHaveFilesStep DEF AskInv, EmbedInv
<1>3. /\ AskShape'
      /\ ask'.quiet = (ask.quiet /\ pc' = "idle")
      /\ UNCHANGED <<ask.pc, ask.kind, ask.vec, ask.raw, ask.answer, ask.lost>>
  BY <1>1 DEF AskInv, AskShape
<1>4. ask'.quiet => ask.quiet /\ pc' = "idle" /\ UNCHANGED Seen
  BY <1>1, <1>3, IdleStep DEF AskInv, QuietReadsTheDisk
<1>5. QuietReadsTheDisk'
  BY <1>3, <1>4 DEF AskInv, QuietReadsTheDisk, Seen
<1>6. FoundIsStored'
  BY <1>3 DEF AskInv, FoundIsStored, Present
<1>7. AnsweredQuietly' => /\ AnsweredQuietly
                          /\ UNCHANGED <<prior, src, ResultChunks>>
  BY <1>3, <1>4 DEF AnsweredQuietly, CleanEmbeddingRun, Seen, ResultChunks
<1>8. AnswersDescribeTheRun'
  BY <1>3, <1>7 DEF AskInv, AnswersDescribeTheRun
<1>9. SearchResolvesWhatItFinds'
  BY <1>3, <1>7 DEF AskInv, SearchResolvesWhatItFinds
<1> QED
  BY <1>2, <1>3, <1>5, <1>6, <1>8, <1>9 DEF AskInv

\* A new request has the store it loaded, and nothing in its answer.
LEMMA BeginKeeps ==
  ASSUME AskInv, NEW kind \in AskKind,
         AskFails(kind) \/ AskFindsNothing(kind) \/ AskFinds(kind)
  PROVE  AskInv'
<1>1. PICK outcome, texts, found :
        /\ Begin(kind, outcome, texts, found)
        /\ outcome = "found" => /\ vdbFile.readable
                                /\ texts = vdbFile.text
                                /\ found \subseteq Present(texts)
  BY DEF AskFails, AskFindsNothing, AskFinds, Similar
<1>2. /\ UNCHANGED vars
      /\ ask' = [NoAsk EXCEPT !.pc = outcome, !.kind = kind, !.vec = texts, !.raw = found,
                              !.quiet = (pc = "idle")]
  BY <1>1 DEF Begin
<1>3. /\ AskShape'
      /\ ask'.pc = outcome /\ ask'.vec = texts /\ ask'.raw = found
      /\ ask'.quiet = (pc = "idle")
      /\ ask'.answer = <<>> /\ ask'.lost = {}
  BY <1>2 DEF NoAsk, AskShape
<1>4. EmbedInv' /\ ChunksHaveFiles'
  BY <1>2, EmbedInvStep, ChunksHaveFilesStep DEF AskInv, EmbedInv
<1>5. QuietReadsTheDisk'
  BY <1>1, <1>2, <1>3 DEF QuietReadsTheDisk, vars
<1>6. FoundIsStored'
  BY <1>1, <1>3 DEF FoundIsStored, Present
<1>7. AnswersDescribeTheRun' /\ SearchResolvesWhatItFinds'
  BY <1>3 DEF AnswersDescribeTheRun, SearchResolvesWhatItFinds
<1> QED
  BY <1>3, <1>4, <1>5, <1>6, <1>7 DEF AskInv

\* Resolving a quiet request reads the metadata of the run that wrote the store.
LEMMA ResolveKeeps ==
  ASSUME AskInv, Resolve
  PROVE  AskInv'
<1>1. ask.pc = "found" /\ UNCHANGED vars
  BY DEF Resolve
<1>2. PICK bad \in SUBSET {f \in Files : disk[f] # NoFile} :
        \E best \in Best(Candidates(ResolvedTexts(ask.kind, bad))) :
          ask' = [ask EXCEPT
            !.pc = "answered",
            !.answer = [c \in best |-> ResolvedTexts(ask.kind, bad)[c]],
            !.lost = {c \in ask.raw \ Candidates(ResolvedTexts(ask.kind, bad)) :
                        c[1] \notin bad /\ c[2] <= disk[c[1]].chunks}]
  BY DEF Resolve
<1> DEFINE texts == ResolvedTexts(ask.kind, bad)
           cands == Candidates(texts)
           gone == {c \in ask.raw \ cands : c[1] \notin bad /\ c[2] <= disk[c[1]].chunks}
<1>3. PICK best \in Best(cands) :
        ask' = [ask EXCEPT !.pc = "answered", !.answer = [c \in best |-> texts[c]], !.lost = gone]
  BY <1>2
<1>4. /\ AskShape'
      /\ ask'.pc = "answered"
      /\ ask'.answer = [c \in best |-> texts[c]]
      /\ ask'.lost = gone
      /\ UNCHANGED <<ask.kind, ask.vec, ask.raw, ask.quiet>>
  <2> HIDE DEF texts, gone
  <2> QED
    BY <1>3 DEF AskInv, AskShape
<1>5. EmbedInv' /\ ChunksHaveFiles'
  BY <1>1, EmbedInvStep, ChunksHaveFilesStep DEF AskInv, EmbedInv
<1>6. QuietReadsTheDisk' /\ FoundIsStored'
  BY <1>1, <1>4 DEF AskInv, QuietReadsTheDisk, FoundIsStored, vars
<1>7. ask.raw \subseteq ChunkId
  BY <1>1 DEF AskInv, FoundIsStored, Present
<1>8. AnsweredQuietly' =>
        /\ ask.quiet /\ CleanEmbeddingRun
        /\ vdbFile.readable /\ ask.vec = vdbFile.text
        /\ UNCHANGED <<prior, src, ResultChunks>>
  BY <1>1, <1>4 DEF AskInv, QuietReadsTheDisk, AnsweredQuietly, CleanEmbeddingRun, vars,
                    ResultChunks
<1>9. ASSUME AnsweredQuietly'
      PROVE  LoadedMetadata = mdFile.text
  BY <1>8, <1>9, CleanFiles DEF AskInv, LoadedMetadata
<1>10. AnswersDescribeTheRun'
  <2> SUFFICES ASSUME AnsweredQuietly', ~prior.readable, ResultChunks # {},
                      NEW c \in best
               PROVE  c \in ResultChunks /\ texts[c] = src[c[1]].stamp
    BY <1>4, <1>8 DEF AnswersDescribeTheRun
  <2>1. mdFile = Written /\ LoadedMetadata = TextOf(ResultChunks)
    BY <1>8, <1>9, CleanFiles DEF AskInv, EmbedInv, RunWritten, Written
  <2>2. Present(LoadedMetadata) # {}
    <3>1. PICK d \in ChunkId : d[1] \in parsed /\ d[2] <= src[d[1]].chunks
      BY DEF ResultChunks
    <3>2. d[1] \in Files /\ d[2] \in 1..MaxChunks
      BY <3>1 DEF ChunkId
    <3>3. src[d[1]].stamp # 0
      BY <3>1, <3>2 DEF AskInv, ChunksHaveFiles, Real
    <3>4. LoadedMetadata[d] # 0
      BY <2>1, <3>1, <3>3 DEF TextOf, ResultChunks
    <3> QED
      BY <3>1, <3>4 DEF Present
  <2>3. texts = TextOf(ResultChunks)
    BY <2>1, <2>2 DEF ResolvedTexts
  <2>4. c \in ChunkId /\ texts[c] # 0
    BY <1>7, <2>1, <2>3, SearchAssumption DEF Best, Candidates
  <2> QED
    BY <2>3, <2>4 DEF TextOf
<1>11. SearchResolvesWhatItFinds'
  <2> SUFFICES ASSUME AnsweredQuietly', ask.kind = "search", NEW c \in gone
               PROVE  FALSE
    BY <1>4 DEF SearchResolvesWhatItFinds
  <2>1. /\ c \in ask.raw /\ c \in ChunkId
        /\ c[1] \notin bad /\ c[2] <= disk[c[1]].chunks
        /\ texts[c] = 0
    BY <1>7 DEF Candidates
  <2>2. CASE Present(LoadedMetadata) = {}
    <3>1. texts[c] = disk[c[1]].stamp
      BY <2>1, <2>2 DEF ResolvedTexts, Reindexed
    <3>2. c[1] \in Files /\ c[2] \in 1..MaxChunks
      BY <2>1 DEF ChunkId
    <3> QED
      BY <2>1, <3>1, <3>2 DEF AskInv, ChunksHaveFiles, Real
  <2>3. CASE Present(LoadedMetadata) # {}
    <3>1. PICK d \in ChunkId : mdFile.text[d] # 0
      BY <1>9, <2>3 DEF Present
    <3>2. texts = vdbFile.text
      BY <1>8, <1>9, <2>3, <3>1, CleanFiles DEF AskInv, ResolvedTexts
    <3> QED
      BY <1>1, <1>8, <2>1, <3>2 DEF AskInv, FoundIsStored, Present
  <2> QED
    BY <2>2, <2>3
<1> QED
  BY <1>4, <1>5, <1>6, <1>10, <1>11 DEF AskInv

LEMMA AskInvStep == AskInv /\ [SearchNext]_searchVars => AskInv'
<1> SUFFICES ASSUME AskInv, [SearchNext]_searchVars PROVE AskInv'
  OBVIOUS
<1>1. CASE UNCHANGED searchVars
  <2>1. UNCHANGED <<vars, ask>>
    BY <1>1 DEF searchVars
  <2>2. EmbedInv' /\ ChunksHaveFiles'
    BY <2>1, EmbedInvStep, ChunksHaveFilesStep DEF AskInv, EmbedInv
  <2> QED
    BY <2>1, <2>2
    DEF vars, AskInv, AskShape, QuietReadsTheDisk, FoundIsStored, Present,
        AnswersDescribeTheRun, SearchResolvesWhatItFinds, AnsweredQuietly,
        CleanEmbeddingRun, ResultChunks
<1> QED
  BY <1>1, PipelineKeeps, BeginKeeps, ResolveKeeps DEF SearchNext

LEMMA AskInvHolds == SearchSpec => []AskInv
BY AskInvInit, AskInvStep, PTL DEF SearchSpec

\* After a run without failures over the whole project, a request that no run
\* disturbs returns chunks that the run read, with the text that it read, found
\* by vector or by name, while the user edits the project at any time.
THEOREM SearchDescribesTheRun == SearchSpec => []AnswersDescribeTheRun
BY AskInvHolds, PTL DEF AskInv

\* The search command loses no chunk that it found and that the project has
\* between its read of the vectors and its read of the metadata.
THEOREM SearchLosesNoChunk == SearchSpec => []SearchResolvesWhatItFinds
BY AskInvHolds, PTL DEF AskInv

\* The pipeline keeps its guarantee next to requests.
THEOREM FullRunReplacesNextToSearch == SearchSpec => []FullRunIndexesProject
BY AskInvHolds, EmbedInvIsComplete, PTL DEF AskInv
=============================================================================
