---------------------------- MODULE MCPersistence ----------------------------
(***************************************************************************)
(* What is kept on the disk besides the index: the session database and    *)
(* the models.  The two have nothing in common but their hazard, a process *)
(* that stops between two writes, so a behaviour is one of either.         *)
(***************************************************************************)
EXTENDS SessionDb, ModelFiles, TLC

VARIABLE part    \* the one that this behaviour is about

PersistenceInit ==
  /\ DbInit
  /\ FilesInit
  /\ part \in {"sessions", "models"}
  /\ part = "sessions" => files = [name \in Names |-> NoFile]

PersistenceNext ==
  \/ part = "sessions" /\ DbNext /\ UNCHANGED <<filesVars, part>>
  \/ part = "models" /\ FilesNext /\ UNCHANGED <<dbVars, part>>

PersistenceSpec == PersistenceInit /\ [][PersistenceNext]_<<dbVars, filesVars, part>>

Symmetry == Permutations(Connections) \cup Permutations(SessionIds) \cup Permutations(Processes)

----------------------------------------------------------------------------
(* Properties *)

\* Wherever a save fails, dies or meets another one, what is loaded is the
\* beginning of what one save wrote, all of it if the save returned Ok, under the
\* first time of creation; and no message stays without its session.
SavesAreWhole ==
  /\ [](LoadsABeginning /\ ReturnedIsWhole /\ NoOrphans)
  /\ [][CreatedOnce]_dbVars

\* Wherever a download fails, dies or meets another one, what was reported as done
\* is there and whole, no file is mixed up, and one that was good is neither
\* fetched again, by a process that looked after it was there, nor given up for
\* a request that was refused.
DownloadsAreWhole ==
  /\ [](ReturnedFileIsWhole /\ OnlyBlocksInPlace /\ ReturnedDirHasModel)
  /\ [][CachedFileStays /\ GoodCopySurvivesRefusal]_filesVars
=============================================================================
