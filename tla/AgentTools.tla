----------------------------- MODULE AgentTools ------------------------------
(***************************************************************************)
(* The tools of chatvcode-agent that search files, as functions of a call  *)
(* and of the files it finds: list_files and grep_code.  (The tools that   *)
(* look up one thing are in ToolResults, the thread that a tool runs in is *)
(* in ToolExecutor; search_code passes on what a search finds.)            *)
(*                                                                         *)
(* A path, a pattern or a name is a sequence of pieces of text, such as    *)
(* <<"src", "/", "a", ".rs">>; starts_with and ends_with are IsPrefix and  *)
(* IsSuffix.                                                               *)
(***************************************************************************)
EXTENDS Integers, Sequences, FiniteSetsExt, SequencesExt

None == <<>>

----------------------------------------------------------------------------
(* Patterns *)

\* The name after the last slash.
FileName(path) ==
  IF Contains(path, "/") THEN SubSeq(path, SelectLastInSeq(path, LAMBDA x : x = "/") + 1, Len(path))
  ELSE path

StartsWithPiece(s, piece) == s # <<>> /\ s[1] = piece
EndsWithPiece(s, piece) == s # <<>> /\ Last(s) = piece

\* simple_glob_match_flat, which is also simple_glob_match of grep_code
GlobMatchFlat(name, pattern) ==
  IF StartsWithPiece(pattern, "*") THEN IsSuffix(Tail(pattern), name)
  ELSE IF EndsWithPiece(pattern, "*") THEN IsPrefix(Front(pattern), name)
  ELSE name = pattern

\* simple_glob_match of list_files: the whole path ends or starts as the pattern.
SimpleGlobMatch(path, pattern) ==
  IF StartsWithPiece(pattern, "*") THEN IsSuffix(Tail(pattern), path)
  ELSE IF EndsWithPiece(pattern, "*") THEN IsPrefix(Front(pattern), path)
  ELSE IF ~Contains(pattern, "/") THEN GlobMatchFlat(FileName(path), pattern)
  ELSE path = pattern

TrimmedEnd(s) == IF EndsWithPiece(s, "/") THEN Front(s) ELSE s
TrimmedStart(s) == IF StartsWithPiece(s, "/") THEN Tail(s) ELSE s

\* Mutant of GlobMatch: what follows "**" is matched with its slash.
GlobMatchUntrimmed(path, pattern) ==
  IF Cardinality({i \in DOMAIN pattern : pattern[i] = "**"}) = 1
  THEN LET at == SelectInSeq(pattern, LAMBDA x : x = "**")
           prefix == TrimmedEnd(SubSeq(pattern, 1, at - 1))
           suffix == SubSeq(pattern, at + 1, Len(pattern))
       IN /\ prefix = <<>> \/ IsPrefix(prefix, path)
          /\ suffix = <<>> \/ SimpleGlobMatch(path, suffix)
  ELSE SimpleGlobMatch(path, pattern)

\* glob_match: "**" splits a pattern into a beginning and an end.
GlobMatch(path, pattern) ==
  IF Cardinality({i \in DOMAIN pattern : pattern[i] = "**"}) = 1
  THEN LET at == SelectInSeq(pattern, LAMBDA x : x = "**")
           prefix == TrimmedEnd(SubSeq(pattern, 1, at - 1))
           suffix == TrimmedStart(SubSeq(pattern, at + 1, Len(pattern)))
       IN /\ prefix = <<>> \/ IsPrefix(prefix, path)
          /\ suffix = <<>> \/ SimpleGlobMatch(path, suffix)
  ELSE SimpleGlobMatch(path, pattern)

----------------------------------------------------------------------------
(* The tools.  A file is [path, lines], a line whether the regex matches it, *)
(* or "unreadable"; files are in the order of the walk.                      *)

\* list_files
ListFiles(files, pattern) ==
  {file \in ToSet(files) : pattern = None \/ GlobMatch(file.path, pattern)}

\* search_file: the matches of a file, after those there are already.
SearchFile(results, file, max) ==
  LET matches == SelectSeq([i \in DOMAIN file.lines |-> [file |-> file.path, line |-> i, hit |-> file.lines[i] = "match"]],
                           LAMBDA m : m.hit)
      room == max - Len(results)
  IN results \o SubSeq(matches, 1, IF Len(matches) < room THEN Len(matches) ELSE room)

Wanted(file, pattern) ==
  pattern = None \/ GlobMatchFlat(FileName(file.path), pattern) \/ GlobMatchFlat(file.path, pattern)

\* Mutant of Truncated: the limit itself does not count.
TruncatedBeyond(results, max) == Len(results) > max

Truncated(results, max) == Len(results) >= max

\* grep_code in a directory: files follow until there are enough matches.
GrepCode(files, pattern, max_results) ==
  LET max == IF max_results < 1 THEN 1 ELSE max_results
      results == FoldLeft(LAMBDA found, file :
                            IF Len(found) >= max \/ ~Wanted(file, pattern) THEN found
                            ELSE SearchFile(found, file, max),
                          <<>>, files)
  IN [matches |-> results, truncated |-> Truncated(results, max)]
=============================================================================
