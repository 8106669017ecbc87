----------------------------- MODULE ModelFiles -----------------------------
(***************************************************************************)
(* The two downloaders of models: that of chatvcode-llm writes a GGUF file *)
(* block by block under its final name, replacing what is there; that of   *)
(* chatvcode-vdb takes the files of an ONNX model from the cache of hf_hub *)
(* (external) and copies those that are not there yet.  Neither writes to  *)
(* another name first, so every step may be the last before the process    *)
(* dies, and two processes may write one file: also one that is whole, if  *)
(* the second found it missing before the first had it.                    *)
(*                                                                         *)
(* A file is the sequence of its blocks, 0 standing for a hole.            *)
(***************************************************************************)
EXTENDS Integers, Sequences, SequencesExt

CONSTANTS
  Processes,
  Blocks,          \* the number of blocks of a whole file
  MaxDownloads     \* bound on the downloads of a behaviour

ASSUME FilesAssumption == Blocks \in Nat \ {0} /\ MaxDownloads \in Nat

VARIABLES
  files,       \* what is on the disk under each name
  download,    \* the download that a process is in
  fetching,    \* the processes that found their next ONNX file missing and get it from hf_hub
  downloads,   \* number of downloads begun
  shared,      \* the names that two processes wrote at once (history)
  outcome      \* the download that ended in the last step (observation)

filesVars == <<files, download, fetching, downloads, shared, outcome>>

----------------------------------------------------------------------------
Gguf == "model.gguf"
Onnx == <<"model.onnx", "tokenizer.json">>
Names == {Gguf} \cup ToSet(Onnx)

NoFile == <<-1>>
WholeFile == [i \in 1..Blocks |-> i]
Whole(name) == files[name] = WholeFile
Exists(name) == files[name] # NoFile

Idle == [name |-> "none", kind |-> "none", written |-> 0, known |-> FALSE, todo |-> <<>>]
NoOutcome == [ok |-> FALSE, announced |-> FALSE, name |-> "none", kind |-> "none", known |-> FALSE]
Ended(p, ok, announced) ==
  [ok |-> ok, announced |-> announced, name |-> download[p].name, kind |-> download[p].kind,
   known |-> download[p].known]

\* A file that another process is writing is shared from now on; one that is
\* created by one process alone is not.
SharedAfterCreating(p, name) ==
  IF \E q \in Processes \ {p} : download[q].name = name THEN shared \cup {name} ELSE shared \ {name}

\* Mutant of WithBlock: blocks are appended, wherever another writer is.
WithBlockAppended(content, at) == Append(content, at)

\* The file with its block at a position, and a hole before it if it is short.
WithBlock(content, at) ==
  LET long == IF Len(content) >= at THEN content
              ELSE content \o [i \in 1..at - Len(content) |-> 0]
  IN [long EXCEPT ![at] = at]

FilesInit ==
  /\ files \in [Names -> {NoFile, WholeFile}]
  /\ download = [p \in Processes |-> Idle]
  /\ fetching = {}
  /\ downloads = 0
  /\ shared = {}
  /\ outcome = NoOutcome

CanStart(p) == download[p] = Idle /\ downloads < MaxDownloads

----------------------------------------------------------------------------
(* ModelDownloader of chatvcode-llm *)

\* Mutant of RequestFails: the file is created before the request is made.
RequestFailsTruncating(p) ==
  /\ CanStart(p)
  /\ downloads' = downloads + 1
  /\ files' = [files EXCEPT ![Gguf] = <<>>]
  /\ outcome' = [NoOutcome EXCEPT !.name = Gguf, !.kind = "gguf"]
  /\ UNCHANGED <<download, fetching, shared>>

\* The server cannot be reached or refuses, or the file cannot be created;
\* only the former is announced to the progress callback.
RequestFails(p) ==
  /\ CanStart(p)
  /\ downloads' = downloads + 1
  /\ \E announced \in BOOLEAN :
       outcome' = [NoOutcome EXCEPT !.announced = announced, !.name = Gguf, !.kind = "gguf"]
  /\ UNCHANGED <<files, download, fetching, shared>>

\* The server answers, with or without a length, and File::create truncates
\* the file.
Request(p) ==
  /\ CanStart(p)
  /\ downloads' = downloads + 1
  /\ \E known \in BOOLEAN :
       download' = [download EXCEPT ![p] = [Idle EXCEPT !.name = Gguf, !.kind = "gguf", !.known = known]]
  /\ files' = [files EXCEPT ![Gguf] = <<>>]
  /\ shared' = SharedAfterCreating(p, Gguf)
  /\ outcome' = NoOutcome
  /\ UNCHANGED fetching

\* A block is read and written.
WriteBlock(p) ==
  /\ download[p].kind = "gguf"
  /\ download[p].written < Blocks
  /\ download' = [download EXCEPT ![p].written = @ + 1]
  /\ files' = [files EXCEPT ![Gguf] = WithBlock(@, download[p].written + 1)]
  /\ outcome' = NoOutcome
  /\ UNCHANGED <<fetching, downloads, shared>>

\* A read fails, which is announced, or a write, which is not.
TransferFails(p) ==
  /\ download[p].kind = "gguf"
  /\ \E announced \in BOOLEAN : outcome' = Ended(p, FALSE, announced)
  /\ download' = [download EXCEPT ![p] = Idle]
  /\ UNCHANGED <<files, fetching, downloads, shared>>

\* Mutant of Complete: a connection that closes early is the end of the file.
CompleteEarly(p) ==
  /\ download[p].kind = "gguf"
  /\ outcome' = Ended(p, TRUE, TRUE)
  /\ download' = [download EXCEPT ![p] = Idle]
  /\ UNCHANGED <<files, fetching, downloads, shared>>

\* The body ends.  What ended is not compared with the length: a body of
\* unknown length ends when the connection does.
Complete(p) ==
  /\ download[p].kind = "gguf"
  /\ download[p].known => download[p].written = Blocks
  /\ outcome' = Ended(p, TRUE, TRUE)
  /\ download' = [download EXCEPT ![p] = Idle]
  /\ UNCHANGED <<files, fetching, downloads, shared>>

----------------------------------------------------------------------------
(* ModelDownloader of chatvcode-vdb *)

\* download_model fails with the first file that cannot be had ("strict");
\* download_sentence_transformer goes on.
StartOnnx(p) ==
  /\ CanStart(p)
  /\ downloads' = downloads + 1
  /\ \E kind \in {"strict", "lenient"} :
       download' = [download EXCEPT ![p] = [Idle EXCEPT !.kind = kind, !.todo = Onnx]]
  /\ outcome' = NoOutcome
  /\ UNCHANGED <<files, fetching, shared>>

AtFile(p) == download[p].kind \in {"strict", "lenient"} /\ download[p].name = "none" /\ download[p].todo # <<>>

\* "Model file already cached"
SkipCached(p) ==
  /\ AtFile(p) /\ p \notin fetching
  /\ Exists(Head(download[p].todo))
  /\ download' = [download EXCEPT ![p].todo = Tail(@)]
  /\ outcome' = NoOutcome
  /\ UNCHANGED <<files, fetching, downloads, shared>>

\* Mutant of FindMissing: a file is fetched again even if it is there.
FindMissingAlways(p) ==
  /\ AtFile(p) /\ p \notin fetching
  /\ fetching' = fetching \cup {p}
  /\ outcome' = NoOutcome
  /\ UNCHANGED <<files, download, downloads, shared>>

\* The file is not in the cache: hf_hub is asked for it.
FindMissing(p) ==
  /\ AtFile(p) /\ p \notin fetching
  /\ ~Exists(Head(download[p].todo))
  /\ fetching' = fetching \cup {p}
  /\ outcome' = NoOutcome
  /\ UNCHANGED <<files, download, downloads, shared>>

\* hf_hub has no such file.
GetFails(p) ==
  /\ AtFile(p) /\ p \in fetching
  /\ fetching' = fetching \ {p}
  /\ IF download[p].kind = "strict"
     THEN download' = [download EXCEPT ![p] = Idle] /\ outcome' = Ended(p, FALSE, TRUE)
     ELSE download' = [download EXCEPT ![p].todo = Tail(@)] /\ outcome' = NoOutcome
  /\ UNCHANGED <<files, downloads, shared>>

\* hf_hub has it, and fs::copy creates the file under its final name, without
\* a second look: another process may have copied it in the meantime.
StartCopy(p) ==
  /\ AtFile(p) /\ p \in fetching
  /\ fetching' = fetching \ {p}
  /\ LET name == Head(download[p].todo) IN
       /\ download' = [download EXCEPT ![p].name = name, ![p].written = 0]
       /\ files' = [files EXCEPT ![name] = <<>>]
       /\ shared' = SharedAfterCreating(p, name)
  /\ outcome' = NoOutcome
  /\ UNCHANGED downloads

Copying(p) == download[p].kind \in {"strict", "lenient"} /\ download[p].name # "none"

CopyBlock(p) ==
  /\ Copying(p)
  /\ download[p].written < Blocks
  /\ files' = [files EXCEPT ![download[p].name] = WithBlock(@, download[p].written + 1)]
  /\ download' = [download EXCEPT ![p].written = @ + 1]
  /\ outcome' = NoOutcome
  /\ UNCHANGED <<fetching, downloads, shared>>

EndCopy(p) ==
  /\ Copying(p)
  /\ download[p].written = Blocks
  /\ download' = [download EXCEPT ![p].name = "none", ![p].todo = Tail(@)]
  /\ outcome' = NoOutcome
  /\ UNCHANGED <<files, fetching, downloads, shared>>

\* The disk is full: the copy stops and its error is returned.
CopyFails(p) ==
  /\ Copying(p)
  /\ download' = [download EXCEPT ![p] = Idle]
  /\ outcome' = Ended(p, FALSE, TRUE)
  /\ UNCHANGED <<files, fetching, downloads, shared>>

\* Mutant of EndOnnx: what was left out is not looked for.
EndOnnxUnchecked(p) ==
  /\ download[p].kind \in {"strict", "lenient"}
  /\ download[p].name = "none" /\ download[p].todo = <<>>
  /\ outcome' = Ended(p, TRUE, TRUE)
  /\ download' = [download EXCEPT ![p] = Idle]
  /\ UNCHANGED <<files, fetching, downloads, shared>>

\* The directory is returned; a lenient download needs model.onnx in it.
EndOnnx(p) ==
  /\ download[p].kind \in {"strict", "lenient"}
  /\ download[p].name = "none" /\ download[p].todo = <<>>
  /\ outcome' = Ended(p, download[p].kind = "strict" \/ Exists(Onnx[1]), TRUE)
  /\ download' = [download EXCEPT ![p] = Idle]
  /\ UNCHANGED <<files, fetching, downloads, shared>>

----------------------------------------------------------------------------
\* The process dies; what it wrote stays.
Dies(p) ==
  /\ download[p] # Idle
  /\ download' = [download EXCEPT ![p] = Idle]
  /\ fetching' = fetching \ {p}
  /\ outcome' = NoOutcome
  /\ UNCHANGED <<files, downloads, shared>>

FilesNext ==
  \E p \in Processes :
    \/ RequestFails(p) \/ Request(p) \/ WriteBlock(p) \/ TransferFails(p) \/ Complete(p)
    \/ StartOnnx(p) \/ SkipCached(p) \/ FindMissing(p) \/ GetFails(p)
    \/ StartCopy(p) \/ CopyBlock(p) \/ EndCopy(p) \/ CopyFails(p) \/ EndOnnx(p)
    \/ Dies(p)

----------------------------------------------------------------------------
(* Properties *)

\* A process writes the file, or has found it missing and will.
Wanted(name) ==
  \E p \in Processes :
    \/ download[p].name = name
    \/ p \in fetching /\ Head(download[p].todo) = name

\* A GGUF file whose download returned Ok is whole, whatever an earlier download
\* left under its name, if its length was known and nobody else wrote it.
ReturnedFileIsWhole ==
  (outcome.ok /\ outcome.kind = "gguf" /\ outcome.known /\ Gguf \notin shared) => Whole(Gguf)

\* A file that nobody writes is no longer and no other than a model: whatever
\* failed or died, even of two writers, it has only blocks of the model at
\* their places, and holes.
OnlyBlocksInPlace ==
  \A name \in Names : Exists(name) =>
    /\ Len(files[name]) <= Blocks
    /\ \A i \in DOMAIN files[name] : files[name][i] \in {0, i}

\* The directory that is returned has the model in it.
ReturnedDirHasModel ==
  outcome.ok /\ outcome.kind \in {"strict", "lenient"} => Exists(Onnx[1])

\* A file of an ONNX model that is whole, and that no process writes or found
\* missing before it was, is never fetched again, and so stays whole for ever.
CachedFileStays ==
  \A name \in ToSet(Onnx) :
    Whole(name) /\ ~Wanted(name) => Whole(name)' /\ ~Wanted(name)'

\* A whole GGUF file is given up only once the server has answered.
GoodCopySurvivesRefusal ==
  Whole(Gguf) /\ files'[Gguf] # files[Gguf] => \E p \in Processes : download'[p].name = Gguf

\* "Called when download fails" (DownloadProgress::on_error).
FailureIsAnnounced == outcome.name = Gguf /\ ~outcome.ok => outcome.announced

\* A file that the cache of chatvcode-vdb skips as "already cached" is whole.
CachedIsWhole ==
  [][\A p \in Processes : SkipCached(p) => Whole(Head(download[p].todo))]_filesVars
=============================================================================
