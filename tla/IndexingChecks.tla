--------------------------- MODULE IndexingChecks ---------------------------
(***************************************************************************)
(* Inputs and properties of the functions by which files are found, cut    *)
(* into chunks and split.                                                  *)
(***************************************************************************)
EXTENDS AlgorithmCall, Integers, Sequences, FiniteSetsExt, SequencesExt

Sources == INSTANCE SourceFiles

----------------------------------------------------------------------------
(* Projects and paths *)

SourceName == [hidden |-> FALSE, language |-> "Rust"]
ProjectFile ==
  {[dirs |-> dirs, name |-> SourceName] :
     dirs \in {<<>>, <<"src">>, <<"src", "lib">>, <<"src", "target">>, <<"target", "src">>}}
  \cup {[dirs |-> <<"src">>, name |-> [SourceName EXCEPT !.hidden = TRUE]],
        [dirs |-> <<>>, name |-> [SourceName EXCEPT !.language = "Unknown"]]}
PickProject ==
  \E files \in SUBSET ProjectFile, unreadable \in SUBSET {<<>>, <<"src">>, <<"src", "lib">>, <<"target">>} :
  \E gitignored \in {{}, {f \in files : f.dirs = <<"src">>}} :
  \E max_depth \in {0, 1, 2, Sources!Unlimited}, respect \in BOOLEAN :
    input = [function |-> "scan", max_depth |-> max_depth, respect_gitignore |-> respect,
             project |-> [files |-> files, unreadable |-> unreadable, gitignored |-> gitignored]]

Components == {".", "..", "a", "b"}
PathInputs ==
  [function : {"clean_path"}, path : UpTo(4, Components) \cup {<<"/">> \o p : p \in UpTo(4, Components)}]

----------------------------------------------------------------------------
(* Trees, declarations and chunks *)

TreeNodes == {<<>>, <<1>>, <<1, 1>>, <<1, 1, 1>>, <<1, 2>>, <<2>>}
\* What is missing has no children.
Trees ==
  {tree \in [TreeNodes -> {"def", "empty", "error", "missing", "other"}] :
     /\ tree[<<>>] = "other"
     /\ \A n \in TreeNodes : tree[n] = "missing" => Sources!Below(tree, n) = {}}
TreeInputs == [function : {"parse_source"}, tree : Trees]

Names == {Sources!None, Sources!Some("a"), Sources!Some("b")}
Declarators == {Sources!Node("variable_declarator", name, <<>>) : name \in Names}
               \cup {Sources!Node("comment", Sources!None, <<>>)}
Declarations ==
  {Sources!Node(def.node_kind, name, <<>>) : def \in {d \in Sources!JsTsChunkDefs : d.named}, name \in Names}
  \cup {Sources!Node("lexical_declaration", Sources!None, declarators) : declarators \in UpTo(3, Declarators)}
NameInputs == [function : {"symbol_name"}, declaration : Declarations]
Exported(declaration) ==
  Sources!Node("export_statement", Sources!None, <<Sources!Node("export", Sources!None, <<>>), declaration>>)

\* Lines: an empty one, one of spaces, and two with code.
SplitLine == {Sources!Line(0, TRUE), Sources!Line(1, TRUE), Sources!Line(3, FALSE), Sources!Line(5, FALSE)}
SplitInputs ==
  [function : {"split_large_chunk"},
   chunk : [start_line : {7}, start_byte : {100}, lines : UNION {[1..n -> SplitLine] : n \in 1..6}]]

IndexingCall ==
  \/ PickProject
  \/ input \in PathInputs \cup TreeInputs \cup NameInputs \cup SplitInputs

IndexingFunctions == {"scan", "clean_path", "parse_source", "symbol_name", "split_large_chunk"}
IndexingResult(call) ==
  CASE call.function = "scan" -> Sources!Scan(call.project, call.max_depth, call.respect_gitignore)
    [] call.function = "clean_path" -> Sources!CleanPath(call.path)
    [] call.function = "parse_source" -> Sources!ParseSource(call.tree)
    [] call.function = "symbol_name" ->
         [plain |-> Sources!SymbolName(call.declaration), exported |-> Sources!SymbolName(Exported(call.declaration))]
    [] call.function = "split_large_chunk" -> Sources!SplitLargeChunk(call.chunk)

----------------------------------------------------------------------------
(* Properties *)

\* Without a depth limit, a source file that is neither hidden nor ignored is
\* found, or an error names a directory on the way to it.
FilesAreFoundOrReported ==
  Is("scan") /\ input.max_depth = Sources!Unlimited =>
    \A f \in input.project.files :
      (/\ Sources!IsSourceFile(f.name) /\ ~Sources!ShouldIgnoreFile(f.name) /\ ~Sources!Ignored(f.dirs)
       /\ input.respect_gitignore => f \notin input.project.gitignored) =>
         f \in output.value.source \/ \E d \in output.value.errors : IsPrefix(d, f.dirs)

\* "With max_depth=0, we should only get files in the root directory", those that
\* can be read.
DepthZeroIsRoot ==
  Is("scan") /\ input.max_depth = 0 /\ <<>> \notin input.project.unreadable =>
    \A f \in input.project.files \ input.project.gitignored :
      f.dirs = <<>> /\ f.name = SourceName => f \in output.value.source

\* Where a path leads from a directory that is deep enough, without links.
Denotes(path) ==
  FoldLeft(LAMBDA at, component :
             CASE component = "/" -> <<>>
               [] component = "." -> at
               [] component = ".." -> IF at = <<>> THEN at ELSE Front(at)
               [] OTHER -> Append(at, component),
           <<"d1", "d2", "d3", "d4">>, path)

\* A cleaned path leads where the path leads, unless the path goes up twice from
\* where it starts.
CleanPathLeadsThere ==
  Is("clean_path")
    /\ (IsPrefix(<<"/">>, input.path) \/ Len(SelectSeq(input.path, LAMBDA c : c = "..")) <= 1) =>
      Denotes(output.value) = Denotes(input.path)

\* A definition is in a chunk, its own or one around it, unless it is inside an
\* error that is reported; and chunks do not overlap.
DefinitionsAreChunked ==
  Is("parse_source") =>
    LET chunks == output.value.chunks IN
    /\ \A n \in DOMAIN input.tree : input.tree[n] = "def" =>
         \/ \E c \in chunks : c = n \/ c \in Sources!Ancestors(n)
         \/ \E e \in output.value.errors : e \in Sources!Ancestors(n)
    /\ \A c, d \in chunks : c \notin Sources!Ancestors(d)

\* A declaration, of any kind that has a symbol, has the same one when it is
\* exported.
ExportKeepsSymbol == Is("symbol_name") => output.value.exported = output.value.plain

\* Where the i-th line of a chunk is in a piece of it.
Within(piece, chunk, i) ==
  piece.start_line <= chunk.start_line + i - 1 /\ chunk.start_line + i - 1 <= piece.end_line

\* The pieces of a chunk have the text of their lines, and every line of code is
\* in one of them.
PiecesCoverChunk ==
  Is("split_large_chunk") =>
    \A i \in DOMAIN input.chunk.lines :
      LET pieces == {p \in DOMAIN output.value : Within(output.value[p], input.chunk, i)} IN
      /\ ~input.chunk.lines[i].blank => Cardinality(pieces) = 1
      /\ \A p \in pieces :
           output.value[p].lines[input.chunk.start_line + i - output.value[p].start_line] = input.chunk.lines[i]

\* The span of a chunk is where its text is in the file.
PiecesHaveTheirSpan ==
  Is("split_large_chunk") =>
    \A p \in DOMAIN output.value :
      output.value[p].start_byte =
        input.chunk.start_byte + Sources!LineOffset(input.chunk, output.value[p].start_line - input.chunk.start_line + 1)
=============================================================================
